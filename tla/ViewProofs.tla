------------------------------ MODULE ViewProofs ------------------------------
(***************************************************************************)
(* Proofs about what a client shows of the others (ClientView.tla), for    *)
(* any players, bounds and delays, and any interleaving of the Network I/O *)
(* thread and the render thread.                                           *)
(*                                                                         *)
(* First what each step does, in terms the invariants are in: the frame's  *)
(* (WhatIsShown, WhatIsHanded, AFrame), the tick's (ATick), the Inbox's    *)
(* (WhatIsReceived, WhatArrives).  Then the invariants, each leaning on    *)
(* those before it: the states told, kept and shown are in tick order and  *)
(* of their matches (Base); messages, views and frames go from match to    *)
(* match in line; Shots and Deaths are somewhere on the way from the       *)
(* server to a frame once each; what is shown is of a state told; a Death  *)
(* is heeded as long as its match is shown.  EventsInv follows.  Last, what*)
(* is kept of each body reaches back to whenever it is sampled at, or as   *)
(* near as its size lets it, and ViewInv follows.                          *)
(***************************************************************************)
EXTENDS ClientView, SequenceTheorems, TLAPS

Matches == 1 .. LastMatch
States == [tick : Nat, match : Matches, bodies : SUBSET ViewPlayers]
Optional(S) == {Nothing} \cup {<<x>> : x \in S}
OfEntities(T) == UNION {[D -> T] : D \in SUBSET Entities}

Worlds ==
  [clock : [now : Optional(Int), behind : Int], first : Optional(Nat), last : Optional(Nat),
   bodies : OfEntities(Seq(Nat) \ {<<>>}), dead : SUBSET Entities, remote : OfEntities(Int),
   seen : Optional(Int), spectating : BOOLEAN, watched : Optional(Entities), firing : BOOLEAN,
   endHeard : BOOLEAN, match : 0 .. LastMatch, on : BOOLEAN, early : SUBSET Entities, stalled : BOOLEAN]

ListedIn(s) == {Entity(s.match, p) : p \in s.bodies \ {Own}}

(* A clock is one after an update, and within ResyncThreshold of it.       *)
LEMMA ObservedClock ==
  ASSUME NEW clock \in [now : Optional(Int), behind : Int], NEW time \in Nat
  PROVE  /\ Observe(clock, time) \in [now : Optional(Int), behind : Int]
         /\ Observe(clock, time).now # Nothing
         /\ Observe(clock, time).now[1] \in Int /\ Observe(clock, time).now[1] >= time - ResyncThreshold
<1>. DEFINE Clocks == [now : Optional(Int), behind : Int]
<1>1. ResyncThreshold \in Nat
  BY ViewAssumption DEF ViewAssumption
<1>2. <<time>> \in Optional(Int) /\ <<time>> # Nothing /\ <<time>>[1] = time
  BY DEF Optional, Nothing
<1>3. CASE clock.now = Nothing
  BY <1>1, <1>2, <1>3 DEF Observe
<1>4. CASE clock.now # Nothing
  <2>1. PICK t \in Int : clock.now = <<t>>
    BY <1>4 DEF Optional
  <2>2. clock.now[1] = t
    BY <2>1
  <2>3. CASE (time - t) \notin -ResyncThreshold .. ResyncThreshold
    BY <1>1, <1>2, <2>2, <2>3 DEF Observe
  <2>4. CASE (time - t) \in -ResyncThreshold .. ResyncThreshold
    <3>1. Observe(clock, time) = [clock EXCEPT !.behind = time - t]
      BY <1>4, <2>2, <2>4 DEF Observe
    <3>2. Observe(clock, time).now = <<t>> /\ Observe(clock, time) \in Clocks
      BY <2>1, <3>1
    <3>3. t >= time - ResyncThreshold
      BY <1>1, <2>4
    <3>4. <<t>> # Nothing /\ <<t>>[1] = t
      BY DEF Nothing
    <3>5. QED
      BY <3>2, <3>3, <3>4
  <2>5. QED
    BY <2>3, <2>4
<1>5. QED
  BY <1>3, <1>4

(* A history with one more update (History::Push).                         *)
LEMMA Pushed ==
  ASSUME NEW h \in Seq(Nat), NEW tick \in Nat
  PROVE  /\ Push(h, tick) \in Seq(Nat) \ {<<>>}
         /\ LET kept == IF Len(h) = UpdatesKept THEN Tail(h) ELSE h
            IN  Push(h, tick) = Append(kept, tick) /\ kept \in Seq(Nat)
<1>1. UpdatesKept \in Nat \ {0}
  BY ViewAssumption DEF ViewAssumption
<1>2. Len(h) = UpdatesKept => h # <<>>
  BY <1>1
<1>. DEFINE kept == IF Len(h) = UpdatesKept THEN Tail(h) ELSE h
<1>3. kept \in Seq(Nat)
  BY <1>2
<1>4. Push(h, tick) = Append(kept, tick)
  BY DEF Push
<1>. HIDE DEF kept
<1>5. Append(kept, tick) \in Seq(Nat) \ {<<>>}
  BY <1>3
<1>6. QED
  BY <1>3, <1>4, <1>5 DEF kept

LEMMA ListedAreEntities ==
  ASSUME NEW s \in States
  PROVE  /\ ListedIn(s) \subseteq Entities
         /\ \A e \in ListedIn(s) : e[1] = s.match /\ e[2] \in s.bodies /\ e[2] # Own
  BY DEF ListedIn, Entities, Entity, States, Matches

(* One update recorded (RecordUpdate).                                     *)
LEMMA UpdateIsRecorded ==
  ASSUME NEW w \in Worlds, NEW s \in States
  PROVE  LET next == RecordUpdate(w, s) IN
         /\ next \in Worlds
         /\ next.clock = Observe(w.clock, s.tick)
         /\ next.last = <<s.tick>> /\ next.first = (IF w.first = Nothing THEN <<s.tick>> ELSE w.first)
         /\ DOMAIN next.bodies = ListedIn(s)
         /\ \A e \in ListedIn(s) :
              next.bodies[e] = Push(IF e \in DOMAIN w.bodies THEN w.bodies[e] ELSE <<>>, s.tick)
         /\ next.match = w.match /\ next.stalled = w.stalled
<1>. DEFINE next == RecordUpdate(w, s)
            bodies == [e \in ListedIn(s) |-> Push(IF e \in DOMAIN w.bodies THEN w.bodies[e] ELSE <<>>, s.tick)]
            first == IF w.first = Nothing THEN <<s.tick>> ELSE w.first
            clock == Observe(w.clock, s.tick)
<1>1. s.tick \in Nat /\ w.clock \in [now : Optional(Int), behind : Int] /\ w.first \in Optional(Nat)
      /\ w.bodies \in OfEntities(Seq(Nat) \ {<<>>})
  BY DEF States, Worlds
<1>2. clock \in [now : Optional(Int), behind : Int]
  BY <1>1, ObservedClock
<1>3. first \in Optional(Nat) /\ <<s.tick>> \in Optional(Nat)
  BY <1>1 DEF Optional
<1>4. bodies \in OfEntities(Seq(Nat) \ {<<>>})
  <2>1. \A e \in DOMAIN w.bodies : w.bodies[e] \in Seq(Nat)
    BY <1>1 DEF OfEntities
  <2>2. \A e \in ListedIn(s) : (IF e \in DOMAIN w.bodies THEN w.bodies[e] ELSE <<>>) \in Seq(Nat)
    BY <2>1
  <2>3. \A e \in ListedIn(s) : bodies[e] \in Seq(Nat) \ {<<>>}
    BY <1>1, <2>2, Pushed
  <2>4. bodies \in [ListedIn(s) -> Seq(Nat) \ {<<>>}]
    BY <2>3
  <2>5. ListedIn(s) \in SUBSET Entities
    BY ListedAreEntities
  <2>. HIDE DEF bodies
  <2>6. QED
    BY <2>4, <2>5 DEF OfEntities
<1>5. next = [w EXCEPT !.clock = clock, !.bodies = bodies, !.first = first, !.last = <<s.tick>>]
  BY Zenon DEF RecordUpdate, ListedIn
<1>6. DOMAIN bodies = ListedIn(s) /\ \A e \in ListedIn(s) :
              bodies[e] = Push(IF e \in DOMAIN w.bodies THEN w.bodies[e] ELSE <<>>, s.tick)
  OBVIOUS
<1>. HIDE DEF next, bodies, first, clock
<1>7. next \in Worlds
  BY <1>2, <1>3, <1>4, <1>5 DEF Worlds
<1>8. next.clock = clock /\ next.bodies = bodies /\ next.first = first /\ next.last = <<s.tick>>
      /\ next.match = w.match /\ next.stalled = w.stalled
  BY <1>5 DEF Worlds
<1>9. QED
  BY <1>6, <1>7, <1>8 DEF next, first, clock

(* Several, one after another (World::Impl::OnInterpolation's loop).       *)
LEMMA AllAreRecorded ==
  ASSUME NEW w \in Worlds, NEW updates \in Seq(States)
  PROVE  \E after \in [0 .. Len(updates) -> Worlds] :
           /\ after[0] = w /\ AllRecorded(w, updates) = after[Len(updates)]
           /\ \A n \in 1 .. Len(updates) : after[n] = RecordUpdate(after[n - 1], updates[n])
<1>. DEFINE N == Len(updates)
            Next_(v, n) == IF n \in 1 .. N THEN RecordUpdate(v, updates[n]) ELSE v
            step == [n \in Nat |-> [v \in Worlds |-> Next_(v, n)]]
            Is(f) == f = [n \in 0 .. N |-> IF n = 0 THEN w ELSE RecordUpdate(f[n - 1], updates[n])]
<1>1. N \in Nat
  OBVIOUS
<1>2. step \in [Nat -> [Worlds -> Worlds]]
  <2>1. ASSUME NEW n \in Nat, NEW v \in Worlds PROVE Next_(v, n) \in Worlds
    <3>1. CASE n \in 1 .. N
      <4>1. updates[n] \in States
        BY <3>1
      <4>2. RecordUpdate(v, updates[n]) \in Worlds
        BY <4>1, UpdateIsRecorded
      <4>3. QED
        BY <3>1, <4>2
    <3>2. QED
      BY <3>1
  <2>. HIDE DEF Next_
  <2>2. QED
    BY <2>1
<1>3. PICK f \in [0 .. N -> Worlds] : Counts(f, w, step, N)
  <2>. HIDE DEF step, N
  <2>. QED
    BY <1>1, <1>2, CountedTo, Zenon
<1>4. ASSUME NEW n \in 0 .. N PROVE f[n] = IF n = 0 THEN w ELSE RecordUpdate(f[n - 1], updates[n])
  <2>. HIDE DEF N
  <2>1. f[n] = IF n = 0 THEN w ELSE step[n][f[n - 1]]
    <3>. HIDE DEF step
    <3>. QED
      BY <1>3, Zenon DEF Counts
  <2>2. CASE n # 0
    <3>1. n \in 1 .. N /\ n \in Nat /\ n - 1 \in 0 .. N
      BY <1>1, <2>2
    <3>2. f[n - 1] \in Worlds
      BY <3>1
    <3>3. step[n][f[n - 1]] = RecordUpdate(f[n - 1], updates[n])
      BY <3>1, <3>2
    <3>4. QED
      BY <2>1, <2>2, <3>3
  <2>3. QED
    BY <2>1, <2>2
<1>5. Is(f)
  <2>. HIDE DEF N, step
  <2>1. DOMAIN f = 0 .. N
    OBVIOUS
  <2>2. QED
    BY <1>4, <2>1
<1>. DEFINE g == CHOOSE g : Is(g)
<1>6. AllRecorded(w, updates) = g[N]
  BY Zenon DEF AllRecorded
<1>7. Is(g)
  <2>. HIDE DEF Is
  <2>. QED
    BY <1>5, Zenon
<1>. HIDE DEF g
<1>8. \A n \in 0 .. N : g[n] = IF n = 0 THEN w ELSE RecordUpdate(g[n - 1], updates[n])
  <2>. HIDE DEF N
  <2>. QED
    BY <1>7, Zenon
<1>. DEFINE Apart == {n \in 0 .. N : g[n] # f[n]}
<1>9. Apart = {}
  <2>1. SUFFICES ASSUME Apart # {} PROVE FALSE
    OBVIOUS
  <2>2. Apart \subseteq Nat
    BY <1>1
  <2>3. PICK n \in Apart : \A k \in Apart : n <= k
    <3>. HIDE DEF Apart
    <3>. QED
      BY <2>1, <2>2, LeastNat
  <2>4. n \in 0 .. N /\ g[n] # f[n]
    OBVIOUS
  <2>5. n # 0
    BY <1>4, <1>8, <2>4
  <2>6. n - 1 \in 0 .. N /\ n - 1 \notin Apart
    <3>1. n \in Nat /\ n - 1 \in 0 .. N /\ ~(n <= n - 1)
      BY <1>1, <2>4, <2>5
    <3>. HIDE DEF Apart
    <3>2. QED
      BY <2>3, <3>1
  <2>7. g[n - 1] = f[n - 1]
    BY <2>6
  <2>8. QED
    BY <1>4, <1>8, <2>4, <2>5, <2>7
<1>10. AllRecorded(w, updates) = f[N]
  BY <1>1, <1>6, <1>9
<1>11. f[0] = w /\ \A n \in 1 .. N : f[n] = RecordUpdate(f[n - 1], updates[n])
  BY <1>1, <1>4
<1>12. QED
  BY <1>10, <1>11

(* What is kept of a sequence is in its order.                             *)
LEMMA KeptInOrder ==
  ASSUME NEW T, NEW s \in Seq(T), NEW positions \in SUBSET DOMAIN s
  PROVE  LET kept == Subsequence(s, positions) IN
         /\ kept \in Seq(T) /\ Len(kept) <= Len(s)
         /\ positions = {} => kept = <<>>
         /\ \E from \in [DOMAIN kept -> positions] :
              /\ \A k \in DOMAIN kept : kept[k] = s[from[k]]
              /\ \A k, l \in DOMAIN kept : k < l => from[k] < from[l]
              /\ \A i \in positions : \E k \in DOMAIN kept : from[k] = i
<1>0. \E from \in [1 .. Cardinality(positions) -> positions] :
        /\ \A k \in 1 .. Cardinality(positions) : Subsequence(s, positions)[k] = s[from[k]]
        /\ \A k, l \in 1 .. Cardinality(positions) : k < l => from[k] < from[l]
        /\ \A i \in positions : \E k \in 1 .. Cardinality(positions) : from[k] = i
  BY SMTT(30), SubsequenceIsOrdered
<1>. DEFINE kept == Subsequence(s, positions)
            N == Cardinality(positions)
<1>1. kept \in Seq(T) /\ Len(kept) = N /\ N \in 0 .. Len(s)
  BY SubsequenceIsOrdered
<1>2. DOMAIN kept = 1 .. N /\ Len(kept) <= Len(s)
  <2>. HIDE DEF kept, N
  <2>. QED
    BY <1>1
<1>3. PICK from \in [1 .. N -> positions] :
        /\ \A k \in 1 .. N : kept[k] = s[from[k]]
        /\ \A k, l \in 1 .. N : k < l => from[k] < from[l]
        /\ \A i \in positions : \E k \in 1 .. N : from[k] = i
  BY <1>0, Zenon
<1>. HIDE DEF kept, N
<1>4. /\ from \in [DOMAIN kept -> positions]
      /\ \A k \in DOMAIN kept : kept[k] = s[from[k]]
      /\ \A k, l \in DOMAIN kept : k < l => from[k] < from[l]
      /\ \A i \in positions : \E k \in DOMAIN kept : from[k] = i
  BY <1>2, <1>3, Zenon
<1>5. ASSUME positions = {} PROVE kept = <<>>
  <2>1. 1 \notin 1 .. N
    BY <1>3, <1>5
  <2>2. QED
    BY <1>1, <2>1
<1>6. QED
  BY <1>1, <1>2, <1>4, <1>5, Zenon DEF kept

Clocks == [now : Optional(Int), behind : Int]

(* A clock a while later (ServerClock::Advance).                           *)
LEMMA AdvancedClock ==
  ASSUME NEW clock \in Clocks, NEW elapsed \in Nat, NEW caught \in Int, -elapsed <= caught
  PROVE  /\ Advance(clock, elapsed, caught) \in Clocks
         /\ clock.now # Nothing =>
              /\ Advance(clock, elapsed, caught).now # Nothing
              /\ clock.now[1] \in Int /\ Advance(clock, elapsed, caught).now[1] \in Int
              /\ Advance(clock, elapsed, caught).now[1] >= clock.now[1]
<1>1. CASE clock.now = Nothing
  BY <1>1 DEF Advance
<1>2. CASE clock.now # Nothing
  <2>1. PICK t \in Int : clock.now = <<t>>
    BY <1>2 DEF Optional, Clocks
  <2>2. Advance(clock, elapsed, caught) = [now |-> <<t + elapsed + caught>>, behind |-> clock.behind - caught]
    BY <1>2, <2>1 DEF Advance
  <2>3. <<t + elapsed + caught>> \in Optional(Int) /\ clock.behind - caught \in Int
    BY DEF Optional, Clocks
  <2>4. <<t + elapsed + caught>> # Nothing
    BY DEF Nothing
  <2>5. QED
    BY <2>1, <2>2, <2>3, <2>4 DEF Clocks
<1>3. QED
  BY <1>1, <1>2

(* What a frame records: the updates it has not, in order.                 *)
LEMMA FreshUpdates ==
  ASSUME NEW w \in Worlds, NEW updates \in Seq(States),
         \A i, j \in DOMAIN updates : i < j => updates[i].tick < updates[j].tick
  PROVE  LET fresh == Fresh(w, updates) IN
         /\ fresh \in Seq(States)
         /\ \A k \in DOMAIN fresh : /\ \E i \in DOMAIN updates : fresh[k] = updates[i]
                                    /\ w.last # Nothing => fresh[k].tick > w.last[1]
         /\ \A k, l \in DOMAIN fresh : k < l => fresh[k].tick < fresh[l].tick
         /\ fresh = <<>> => \A i \in DOMAIN updates : w.last # Nothing /\ updates[i].tick <= w.last[1]
<1>. DEFINE fresh == Fresh(w, updates)
            positions == {i \in DOMAIN updates : w.last = Nothing \/ updates[i].tick > w.last[1]}
<1>1. fresh = Subsequence(updates, positions) /\ positions \in SUBSET DOMAIN updates
  BY DEF Fresh
<1>2. fresh \in Seq(States)
  BY <1>1, KeptInOrder
<1>3. PICK from \in [DOMAIN fresh -> positions] :
        /\ \A k \in DOMAIN fresh : fresh[k] = updates[from[k]]
        /\ \A k, l \in DOMAIN fresh : k < l => from[k] < from[l]
        /\ \A i \in positions : \E k \in DOMAIN fresh : from[k] = i
  <2>. HIDE DEF fresh, positions
  <2>. QED
    BY <1>1, KeptInOrder
<1>. HIDE DEF fresh
<1>4. ASSUME NEW k \in DOMAIN fresh
      PROVE  /\ \E i \in DOMAIN updates : fresh[k] = updates[i]
             /\ w.last # Nothing => fresh[k].tick > w.last[1]
  <2>1. from[k] \in positions /\ fresh[k] = updates[from[k]]
    <3>. HIDE DEF positions
    <3>. QED
      BY <1>3
  <2>2. QED
    BY <2>1
<1>5. ASSUME NEW k \in DOMAIN fresh, NEW l \in DOMAIN fresh, k < l
      PROVE  fresh[k].tick < fresh[l].tick
  <2>1. from[k] \in positions /\ from[l] \in positions /\ from[k] < from[l]
        /\ fresh[k] = updates[from[k]] /\ fresh[l] = updates[from[l]]
    <3>. HIDE DEF positions
    <3>. QED
      BY <1>3, <1>5
  <2>2. QED
    BY <2>1
<1>6. ASSUME fresh = <<>>, NEW i \in DOMAIN updates
      PROVE  w.last # Nothing /\ updates[i].tick <= w.last[1]
  <2>1. i \notin positions
    <3>. HIDE DEF positions
    <3>. QED
      BY <1>3, <1>6
  <2>2. w.last # Nothing /\ ~(updates[i].tick > w.last[1])
    BY <2>1
  <2>3. updates[i] \in States
    BY <1>6
  <2>6. updates[i].tick \in Nat
    BY <2>3 DEF States
  <2>4. w.last[1] \in Nat
    BY <2>2 DEF Worlds, Optional
  <2>5. QED
    BY <2>2, <2>6, <2>4
<1>7. QED
  BY <1>2, <1>4, <1>5, <1>6 DEF fresh

Advanced(elapsed, caught) == [shown EXCEPT !.clock = Advance(@, elapsed, caught)]

(* What is shown, before its updates are recorded.                         *)
LEMMA AdvancedWorld ==
  ASSUME shown \in Worlds, NEW elapsed \in Nat, NEW caught \in Int
  PROVE  LET begun == Advanced(elapsed, caught) IN
         /\ begun \in Worlds /\ begun.clock = Advance(shown.clock, elapsed, caught)
         /\ begun.last = shown.last /\ begun.first = shown.first /\ begun.bodies = shown.bodies
         /\ begun.match = shown.match /\ begun.stalled = shown.stalled
<1>1. shown.clock \in Clocks
  BY DEF Worlds, Clocks
<1>2. Advance(shown.clock, elapsed, caught) \in Clocks
  <2>1. CASE shown.clock.now = Nothing
    BY <1>1, <2>1 DEF Advance
  <2>2. CASE shown.clock.now # Nothing
    <3>1. PICK t \in Int : shown.clock.now = <<t>>
      BY <1>1, <2>2 DEF Optional, Clocks
    <3>2. Advance(shown.clock, elapsed, caught)
            = [now |-> <<t + elapsed + caught>>, behind |-> shown.clock.behind - caught]
      BY <2>2, <3>1 DEF Advance
    <3>3. <<t + elapsed + caught>> \in Optional(Int) /\ shown.clock.behind - caught \in Int
      BY <1>1 DEF Optional, Clocks
    <3>4. QED
      BY <3>2, <3>3 DEF Clocks
  <2>3. QED
    BY <2>1, <2>2
<1>. DEFINE clock == Advance(shown.clock, elapsed, caught)
            begun == Advanced(elapsed, caught)
<1>3. begun = [shown EXCEPT !.clock = clock]
  BY DEF Advanced
<1>. HIDE DEF clock, begun
<1>4. clock \in [now : Optional(Int), behind : Int]
  BY <1>2 DEF Clocks, clock
<1>5. begun \in Worlds /\ begun.clock = clock /\ begun.last = shown.last /\ begun.first = shown.first
      /\ begun.bodies = shown.bodies /\ begun.match = shown.match /\ begun.stalled = shown.stalled
  BY <1>3, <1>4 DEF Worlds
<1>6. QED
  BY <1>5 DEF clock, begun

(* The dead a frame knows of, its own Deaths among them.                   *)
LEMMA DeathsNow ==
  ASSUME shown \in Worlds, NEW deaths \in Seq(Entities)
  PROVE  /\ ToSet(deaths) \subseteq Entities /\ DeadNow(deaths) \subseteq Entities
         /\ converted.updates = <<>> => DeadNow(deaths) = ToSet(deaths)
         /\ converted.updates # <<>> => DeadNow(deaths) = shown.dead \cup ToSet(deaths)
<1>1. ToSet(deaths) \subseteq Entities
  BY DEF ToSet
<1>2. shown.dead \subseteq Entities
  BY DEF Worlds
<1>3. QED
  BY <1>1, <1>2 DEF DeadNow

NothingInIt(w) ==
  DOMAIN w.bodies = {} /\ DOMAIN w.remote = {} /\ w.first = Nothing /\ w.last = Nothing

LEMMA EmptyIsOfEntities ==
  ASSUME NEW T
  PROVE  <<>> \in OfEntities(T) /\ DOMAIN <<>> = {}
<1>1. <<>> \in [{} -> T]
  OBVIOUS
<1>2. QED
  BY <1>1 DEF OfEntities

LEMMA Bounds ==
  /\ RecentStatesKept \in Nat \ {0} /\ PendingKept \in Nat \ {0} /\ UpdatesKept \in Nat \ {0}
  /\ InterpolationDelay \in Nat /\ ResyncThreshold \in Nat
  /\ LastTick \in Nat /\ LastMatch \in Nat /\ LastShot \in Nat
  BY ViewAssumption, Zenon DEF ViewAssumption

LEMMA ValueOf ==
  ASSUME NEW S, NEW x \in Optional(S), x # Nothing
  PROVE  x[1] \in S /\ x = <<x[1]>>
<1>1. PICK y \in S : x = <<y>>
  BY DEF Optional
<1>2. QED
  BY <1>1

LEMMA NoneKept == \A s : Subsequence(s, {}) = <<>>
<1>1. Cardinality({}) = 0
  BY FS_EmptySet
<1>2. QED
  BY <1>1 DEF Subsequence

(* Outside a match there is no one to show.                                *)
LEMMA NothingToShow ==
  ASSUME shown \in Worlds, NEW elapsed \in Nat, NEW caught \in Int, NEW deaths \in Seq(Entities),
         converted.updates = <<>>
  PROVE  LET next == Interpolated(elapsed, caught, deaths) IN
         next \in Worlds /\ NothingInIt(next) /\ next.dead = ToSet(deaths)
<1>. DEFINE next == Interpolated(elapsed, caught, deaths)
            advanced == Advanced(elapsed, caught)
            begun == [advanced EXCEPT !.bodies = <<>>, !.clock = NoClock, !.first = Nothing,
                                      !.last = Nothing, !.watched = Nothing, !.firing = FALSE]
            recorded == AllRecorded(begun, Fresh(begun, converted.updates))
<1>1. advanced \in Worlds
  BY AdvancedWorld
<1>2. begun \in Worlds /\ DOMAIN begun.bodies = {} /\ begun.first = Nothing /\ begun.last = Nothing
  <2>1. NoClock \in [now : Optional(Int), behind : Int] /\ Nothing \in Optional(Nat)
        /\ Nothing \in Optional(Entities)
    BY DEF NoClock, Optional
  <2>2. <<>> \in OfEntities(Seq(Nat) \ {<<>>}) /\ DOMAIN <<>> = {}
    BY EmptyIsOfEntities
  <2>. HIDE DEF advanced
  <2>3. QED
    BY <1>1, <2>1, <2>2 DEF Worlds
<1>3. recorded = begun
  <2>. HIDE DEF begun
  <2>1. Fresh(begun, converted.updates) = <<>>
    <3>1. converted.updates \in Seq(States) /\ \A i \in DOMAIN converted.updates : FALSE
      OBVIOUS
    <3>2. Fresh(begun, converted.updates)
            = Subsequence(converted.updates, {i \in DOMAIN converted.updates :
                            begun.last = Nothing \/ converted.updates[i].tick > begun.last[1]})
      BY DEF Fresh
    <3>3. {i \in DOMAIN converted.updates :
             begun.last = Nothing \/ converted.updates[i].tick > begun.last[1]} = {}
      BY <3>1
    <3>4. Fresh(begun, converted.updates) = Subsequence(converted.updates, {})
      BY <3>2, <3>3
    <3>5. QED
      BY <3>4, NoneKept
  <2>2. <<>> \in Seq(States) /\ Len(<<>>) = 0
    OBVIOUS
  <2>3. AllRecorded(begun, <<>>) = begun
    <3>1. PICK after \in [0 .. Len(<<>>) -> Worlds] :
             /\ after[0] = begun /\ AllRecorded(begun, <<>>) = after[Len(<<>>)]
             /\ \A n \in 1 .. Len(<<>>) : after[n] = RecordUpdate(after[n - 1], <<>>[n])
      <4>1. <<>> \in Seq(States)
        OBVIOUS
      <4>2. QED
        BY <1>2, <4>1, AllAreRecorded, Zenon
    <3>2. QED
      BY <2>2, <3>1
  <2>4. QED
    BY <2>1, <2>3
<1>4. next = [recorded EXCEPT !.dead = DeadNow(deaths), !.remote = <<>>, !.seen = Nothing]
  BY Zenon DEF Interpolated, Advanced
<1>5. DeadNow(deaths) = ToSet(deaths) /\ ToSet(deaths) \in SUBSET Entities
  BY DeathsNow
<1>6. <<>> \in OfEntities(Int) /\ Nothing \in Optional(Int) /\ DOMAIN <<>> = {}
  BY EmptyIsOfEntities DEF Optional
<1>. HIDE DEF next, begun, recorded
<1>7. next \in Worlds /\ next.dead = ToSet(deaths) /\ next.bodies = begun.bodies /\ next.last = begun.last
      /\ next.remote = <<>> /\ next.first = begun.first
  BY <1>2, <1>3, <1>4, <1>5, <1>6 DEF Worlds
<1>8. QED
  BY <1>2, <1>6, <1>7 DEF next, NothingInIt

(* Where a body is shown: held at either end of what is kept of it.        *)
LEMMA Sampled ==
  ASSUME NEW h \in Seq(Nat) \ {<<>>}, NEW time \in Int
  PROVE  SampledAt(h, time) \in Int /\ h[1] \in Nat /\ h[Len(h)] \in Nat
         /\ SampledAt(h, time) = Clamp(time, h[1], h[Len(h)])
<1>1. h[1] \in Nat /\ h[Len(h)] \in Nat
  OBVIOUS
<1>2. SampledAt(h, time) = Clamp(time, h[1], h[Len(h)])
  BY DEF SampledAt, Last
<1>3. QED
  BY <1>1, <1>2 DEF Clamp

KeepsUp(w) ==
  /\ w.first # Nothing /\ w.last # Nothing /\ w.clock.now # Nothing
  /\ w.clock.now[1] >= w.last[1] - ResyncThreshold

(* After what is recorded, the clock is near the newest update.            *)
LEMMA RecordedKeepsUp ==
  ASSUME NEW w \in Worlds, NEW updates \in Seq(States), updates # <<>>,
         \A i, j \in DOMAIN updates : i < j => updates[i].tick < updates[j].tick,
         w.last # Nothing => KeepsUp(w)
  PROVE  LET fresh == Fresh(w, updates)
             recorded == AllRecorded(w, fresh)
         IN  /\ recorded \in Worlds /\ KeepsUp(recorded)
             /\ fresh = <<>> => recorded = w
             /\ fresh # <<>> =>
                  /\ recorded.last = <<fresh[Len(fresh)].tick>>
                  /\ DOMAIN recorded.bodies = ListedIn(fresh[Len(fresh)])
<1>. DEFINE fresh == Fresh(w, updates)
            recorded == AllRecorded(w, fresh)
            N == Len(fresh)
<1>1. fresh \in Seq(States) /\ (fresh = <<>> => w.last # Nothing)
  <2>1. 1 \in DOMAIN updates
    OBVIOUS
  <2>2. QED
    BY <2>1, FreshUpdates
<1>. HIDE DEF fresh
<1>2. PICK after \in [0 .. N -> Worlds] :
        /\ after[0] = w /\ recorded = after[N]
        /\ \A n \in 1 .. N : after[n] = RecordUpdate(after[n - 1], fresh[n])
  BY <1>1, AllAreRecorded
<1>. HIDE DEF recorded
<1>3. CASE fresh = <<>>
  BY <1>1, <1>2, <1>3 DEF fresh, recorded
<1>4. CASE fresh # <<>>
  <2>1. N \in 1 .. N /\ N - 1 \in 0 .. N /\ fresh[N] \in States
    BY <1>1, <1>4
  <2>. DEFINE before == after[N - 1]
              s == fresh[N]
  <2>2. before \in Worlds /\ s \in States /\ recorded = RecordUpdate(before, s)
    BY <1>2, <2>1
  <2>. HIDE DEF before, s
  <2>3. /\ recorded \in Worlds
        /\ recorded.clock = Observe(before.clock, s.tick)
        /\ recorded.last = <<s.tick>>
        /\ recorded.first = (IF before.first = Nothing THEN <<s.tick>> ELSE before.first)
        /\ DOMAIN recorded.bodies = ListedIn(s)
    BY <2>2, UpdateIsRecorded
  <2>4. before.clock \in [now : Optional(Int), behind : Int] /\ s.tick \in Nat
    BY <2>2 DEF Worlds, States
  <2>5. recorded.clock.now # Nothing /\ recorded.clock.now[1] >= s.tick - ResyncThreshold
    BY <2>3, <2>4, ObservedClock
  <2>6. <<s.tick>> # Nothing /\ <<s.tick>>[1] = s.tick
    BY DEF Nothing
  <2>7. KeepsUp(recorded)
    BY <2>3, <2>5, <2>6 DEF KeepsUp
  <2>8. QED
    BY <1>4, <2>3, <2>7 DEF fresh, recorded, s, N
<1>5. QED
  BY <1>3, <1>4

(* In a match, the bodies of the newest update recorded, but the dead.     *)
LEMMA SomethingToShow ==
  ASSUME shown \in Worlds, NEW elapsed \in Nat, NEW caught \in Int, NEW deaths \in Seq(Entities),
         converted.updates \in Seq(States), converted.updates # <<>>,
         AllRecorded(Advanced(elapsed, caught), Fresh(Advanced(elapsed, caught), converted.updates)) \in Worlds,
         KeepsUp(AllRecorded(Advanced(elapsed, caught), Fresh(Advanced(elapsed, caught), converted.updates)))
  PROVE  LET next == Interpolated(elapsed, caught, deaths)
             begun == Advanced(elapsed, caught)
             recorded == AllRecorded(begun, Fresh(begun, converted.updates))
             time == recorded.clock.now[1] - InterpolationDelay
         IN  /\ next \in Worlds /\ next.dead = shown.dead \cup ToSet(deaths)
             /\ next.clock = recorded.clock /\ next.first = recorded.first /\ next.last = recorded.last
             /\ next.bodies = recorded.bodies
             /\ DOMAIN next.remote = DOMAIN next.bodies \ next.dead
             /\ time \in Int /\ recorded.first[1] \in Nat /\ recorded.last[1] \in Nat
             /\ next.seen = <<Clamp(time, recorded.first[1], recorded.last[1])>>
             /\ \A e \in DOMAIN next.remote :
                  /\ next.bodies[e] \in Seq(Nat) \ {<<>>}
                  /\ next.remote[e] = Clamp(time, next.bodies[e][1], next.bodies[e][Len(next.bodies[e])])
<1>. DEFINE next == Interpolated(elapsed, caught, deaths)
            begun == Advanced(elapsed, caught)
            recorded == AllRecorded(begun, Fresh(begun, converted.updates))
            time == recorded.clock.now[1] - InterpolationDelay
            alive == DOMAIN recorded.bodies \ DeadNow(deaths)
            remote == [e \in alive |-> SampledAt(recorded.bodies[e], time)]
<1>2. recorded \in Worlds /\ KeepsUp(recorded)
  OBVIOUS
<1>3. DeadNow(deaths) = shown.dead \cup ToSet(deaths) /\ DeadNow(deaths) \in SUBSET Entities
  BY DeathsNow
<1>. DEFINE seen == <<SeenTimeAt(time, recorded.first[1], recorded.last[1])>>
<1>4. recorded.clock.now # Nothing /\ recorded.first # Nothing /\ recorded.last # Nothing
  BY <1>2 DEF KeepsUp
<1>5. next = [recorded EXCEPT !.dead = DeadNow(deaths), !.remote = remote, !.seen = seen]
  BY <1>4, Zenon DEF Interpolated, Advanced
<1>. HIDE DEF next, recorded
<1>6. recorded.clock.now[1] \in Int /\ recorded.first[1] \in Nat /\ recorded.last[1] \in Nat
  <2>1. recorded.clock.now \in Optional(Int) /\ recorded.first \in Optional(Nat)
        /\ recorded.last \in Optional(Nat)
    BY <1>2 DEF Worlds
  <2>2. QED
    BY <1>4, <2>1, ValueOf
<1>7. time \in Int
  BY <1>6, Bounds
<1>8. seen = <<Clamp(time, recorded.first[1], recorded.last[1])>>
  BY DEF SeenTimeAt
<1>9. seen \in Optional(Int)
  BY <1>6, <1>7, <1>8 DEF Clamp, Optional
<1>. HIDE DEF time
<1>10. recorded.bodies \in OfEntities(Seq(Nat) \ {<<>>})
  BY <1>2 DEF Worlds
<1>11. DOMAIN recorded.bodies \subseteq Entities
       /\ \A e \in DOMAIN recorded.bodies : recorded.bodies[e] \in Seq(Nat) \ {<<>>}
  BY <1>10 DEF OfEntities
<1>12. \A e \in alive : /\ SampledAt(recorded.bodies[e], time) \in Int
                        /\ SampledAt(recorded.bodies[e], time)
                             = Clamp(time, recorded.bodies[e][1], recorded.bodies[e][Len(recorded.bodies[e])])
  BY <1>7, <1>11, Sampled
<1>13. remote \in OfEntities(Int) /\ DOMAIN remote = alive
  <2>1. remote \in [alive -> Int] /\ alive \in SUBSET Entities
    BY <1>11, <1>12
  <2>2. QED
    BY <2>1 DEF OfEntities
<1>14. \A e \in alive : remote[e]
         = Clamp(time, recorded.bodies[e][1], recorded.bodies[e][Len(recorded.bodies[e])])
  BY <1>12
<1>. HIDE DEF remote, seen
<1>15. next \in Worlds
  BY <1>2, <1>3, <1>5, <1>9, <1>13 DEF Worlds
<1>16. /\ next.dead = DeadNow(deaths) /\ next.bodies = recorded.bodies
       /\ next.clock = recorded.clock /\ next.first = recorded.first /\ next.last = recorded.last
       /\ next.remote = remote /\ next.seen = seen
  BY <1>2, <1>5 DEF Worlds
<1>17. DOMAIN next.remote = DOMAIN next.bodies \ next.dead
  BY <1>13, <1>16
<1>18. \A e \in DOMAIN next.remote :
         /\ next.bodies[e] \in Seq(Nat) \ {<<>>}
         /\ next.remote[e] = Clamp(time, next.bodies[e][1], next.bodies[e][Len(next.bodies[e])])
  BY <1>11, <1>13, <1>14, <1>16
<1>19. QED
  BY <1>3, <1>6, <1>7, <1>8, <1>15, <1>16, <1>17, <1>18 DEF next, recorded, time

(* The players, each once, in an order of theirs.                          *)
LEMMA PlayersInOrder ==
  /\ Cardinality(ViewPlayers) \in Nat \ {0} /\ Cardinality(ViewPlayers) >= 2
  /\ SetToSeq(ViewPlayers) \in [1 .. Cardinality(ViewPlayers) -> ViewPlayers]
  /\ \A p \in ViewPlayers : \E i \in 1 .. Cardinality(ViewPlayers) : SetToSeq(ViewPlayers)[i] = p
<1>. DEFINE n == Cardinality(ViewPlayers)
            P(f) == IsInjective(f)
            s == SetToSeq(ViewPlayers)
<1>1. IsFiniteSet(Others) /\ Own \notin Others /\ Others # {}
  BY ViewAssumption, Zenon DEF ViewAssumption
<1>2. IsFiniteSet(ViewPlayers) /\ Cardinality(ViewPlayers) = Cardinality(Others) + 1
  <2>1. ViewPlayers = Others \cup {Own}
    BY DEF ViewPlayers
  <2>2. QED
    BY <1>1, <2>1, FS_AddElement
<1>3. Cardinality(Others) \in Nat /\ Cardinality(Others) # 0
  BY <1>1, FS_CardinalityType, FS_EmptySet
<1>4. n \in Nat /\ ExistsBijection(1 .. n, ViewPlayers)
  BY <1>2, FS_CardinalityType
<1>5. \E f \in [1 .. n -> ViewPlayers] : IsInjective(f)
  BY <1>4 DEF ExistsBijection, Bijection, Injection, IsInjective
<1>6. s = CHOOSE f \in [1 .. n -> ViewPlayers] : P(f)
  BY DEF SetToSeq
<1>7. s \in [1 .. n -> ViewPlayers] /\ P(s)
  <2>. HIDE DEF n, P, s
  <2>1. \E f \in [1 .. n -> ViewPlayers] : P(f)
    BY <1>5 DEF P
  <2>2. QED
    BY <1>6, <2>1
<1>8. s \in Surjection(1 .. n, ViewPlayers)
  <2>1. s \in Injection(1 .. n, ViewPlayers)
    BY <1>7 DEF Injection
  <2>2. Cardinality(1 .. n) = n /\ IsFiniteSet(1 .. n)
    <3>1. IsFiniteSet(1 .. n) /\ Cardinality(1 .. n) = IF 1 > n THEN 0 ELSE n - 1 + 1
      BY <1>4, FS_Interval
    <3>. HIDE DEF n
    <3>2. QED
      BY <1>4, <3>1
  <2>. HIDE DEF s
  <2>3. QED
    BY <1>2, <2>1, <2>2, FS_Injection
<1>9. \A p \in ViewPlayers : \E i \in 1 .. n : s[i] = p
  BY <1>8 DEF Surjection
<1>10. n >= 2
  BY <1>2, <1>3
<1>11. QED
  BY <1>4, <1>7, <1>9, <1>10

(* Going round from any of count, one comes to every one.                  *)
LEMMA RoundReaches ==
  ASSUME NEW count \in Nat \ {0}, NEW start \in 0 .. count, NEW j \in 1 .. count
  PROVE  \E offset \in 1 .. count : ((start + offset - 1) % count) + 1 = j
<1>1. CASE j > start
  <2>1. j - start \in 1 .. count /\ start + (j - start) - 1 = j - 1
    BY <1>1
  <2>2. (j - 1) % count = j - 1
    <3>. DEFINE x == j - 1
                q == x \div count
                r == x % count
    <3>1. x \in Nat /\ x < count
      OBVIOUS
    <3>2. q \in Int /\ r \in 0 .. count - 1 /\ x = count * q + r
      BY <3>1
    <3>. HIDE DEF q, r
    <3>3. q <= -1 => count * q <= -count
      BY <3>2
    <3>4. q >= 1 => count * q >= count
      BY <3>2
    <3>5. q = 0
      BY <3>1, <3>2, <3>3, <3>4
    <3>6. r = j - 1
      BY <3>2, <3>5
    <3>7. QED
      BY <3>6, Zenon DEF r
  <2>3. ((start + (j - start) - 1) % count) + 1 = j
    <3>1. ((start + (j - start) - 1) % count) = j - 1
      BY <2>1, <2>2, Zenon
    <3>2. QED
      BY <3>1
  <2>4. QED
    BY <2>1, <2>3, Zenon
<1>2. CASE j <= start
  <2>1. j - start + count \in 1 .. count /\ start + (j - start + count) - 1 = j - 1 + count
    BY <1>2
  <2>2. (j - 1 + count) % count = j - 1
    <3>. DEFINE x == j - 1 + count
                q == x \div count
                r == x % count
    <3>1. x \in Nat /\ count <= x /\ x < 2 * count
      OBVIOUS
    <3>2. q \in Int /\ r \in 0 .. count - 1 /\ x = count * q + r
      BY <3>1
    <3>. HIDE DEF q, r
    <3>3. q <= 0 => count * q <= 0
      BY <3>2
    <3>4. q >= 2 => count * q >= 2 * count
      BY <3>2
    <3>5. q = 1
      BY <3>1, <3>2, <3>3, <3>4
    <3>6. r = j - 1
      BY <3>2, <3>5
    <3>7. QED
      BY <3>6 DEF r
  <2>3. QED
    BY <2>1, <2>2
<1>3. QED
  BY <1>1, <1>2

(* The spectator's next finds someone to watch while there is anyone.      *)
LEMMA NextLivingIs ==
  ASSUME NEW match \in Matches, NEW living \in SUBSET Entities, NEW after \in Optional(Entities)
  PROVE  LET found == NextLiving(InOrder(match), living, after) IN
         /\ found \in Optional(Entities)
         /\ (\E p \in ViewPlayers : Entity(match, p) \in living) => found # Nothing /\ found[1] \in living
<1>. DEFINE players == InOrder(match)
            count == Len(players)
            start == IF after = Nothing \/ after[1] \notin ToSet(players) THEN 0
                     ELSE CHOOSE i \in 1 .. count : players[i] = after[1]
            round == [offset \in 1 .. count |-> players[((start + offset - 1) % count) + 1]]
            alive == {offset \in 1 .. count : round[offset] \in living}
            found == NextLiving(players, living, after)
<1>1. /\ players \in Seq(Entities) /\ count \in Nat \ {0} /\ DOMAIN players = 1 .. count
      /\ \A p \in ViewPlayers : \E i \in 1 .. count : players[i] = Entity(match, p)
  <2>. DEFINE n == Cardinality(ViewPlayers)
              order == SetToSeq(ViewPlayers)
  <2>1. n \in Nat \ {0} /\ order \in [1 .. n -> ViewPlayers]
        /\ \A p \in ViewPlayers : \E i \in 1 .. n : order[i] = p
    BY PlayersInOrder
  <2>2. players = [i \in 1 .. n |-> Entity(match, order[i])]
    BY DEF InOrder
  <2>. HIDE DEF n, order, players
  <2>3. \A i \in 1 .. n : Entity(match, order[i]) \in Entities
    BY <2>1 DEF Entity, Entities, Matches
  <2>4. players \in Seq(Entities) /\ Len(players) = n
    BY <2>1, <2>2, <2>3
  <2>5. QED
    BY <2>1, <2>2, <2>4
<1>2. start \in 0 .. count
  <2>1. CASE after = Nothing \/ after[1] \notin ToSet(players)
    BY <1>1, <2>1
  <2>2. CASE ~(after = Nothing \/ after[1] \notin ToSet(players))
    <3>. HIDE DEF players
    <3>1. \E i \in 1 .. count : players[i] = after[1]
      BY <1>1, <2>2 DEF ToSet
    <3>2. QED
      BY <1>1, <2>2, <3>1
  <2>3. QED
    BY <2>1, <2>2
<1>3. found = IF alive = {} THEN Nothing ELSE <<round[Min(alive)]>>
  BY Zenon DEF NextLiving
<1>. HIDE DEF players, start, found
<1>4. \A offset \in 1 .. count : ((start + offset - 1) % count) + 1 \in 1 .. count
  <2>. HIDE DEF count
  <2>1. \A x \in Nat : x % count \in 0 .. count - 1
    BY <1>1
  <2>2. ASSUME NEW offset \in 1 .. count PROVE ((start + offset - 1) % count) + 1 \in 1 .. count
    <3>1. start + offset - 1 \in Nat
      BY <1>1, <1>2
    <3>. DEFINE r == (start + offset - 1) % count
    <3>2. r \in 0 .. count - 1
      BY <2>1, <3>1
    <3>. HIDE DEF r
    <3>3. r + 1 \in 1 .. count
      BY <1>1, <3>2
    <3>4. QED
      BY <3>3 DEF r
  <2>3. QED
    BY <2>2
<1>5. \A offset \in 1 .. count : round[offset] \in Entities
  BY SMTT(30), <1>1, <1>4
<1>6. ASSUME alive # {} PROVE found # Nothing /\ found[1] \in living /\ found \in Optional(Entities)
  <2>1. alive \in SUBSET Nat
    OBVIOUS
  <2>2. PICK n \in alive : \A k \in alive : n <= k
    <3>. HIDE DEF alive
    <3>. QED
      BY <1>6, <2>1, LeastNat
  <2>3. Min(alive) \in alive
    <3>. HIDE DEF alive
    <3>. QED
      BY <2>2 DEF Min
  <2>4. round[Min(alive)] \in living /\ round[Min(alive)] \in Entities
    BY SMTT(30), <1>5, <2>3
  <2>5. found = <<round[Min(alive)]>>
    BY <1>3, <1>6
  <2>. DEFINE e == round[Min(alive)]
  <2>. HIDE DEF e
  <2>6. QED
    BY <2>4, <2>5 DEF e, Optional, Nothing
<1>7. ASSUME NEW p \in ViewPlayers, Entity(match, p) \in living PROVE alive # {}
  <2>1. PICK j \in 1 .. count : players[j] = Entity(match, p)
    BY <1>1
  <2>2. PICK offset \in 1 .. count : ((start + offset - 1) % count) + 1 = j
    <3>. HIDE DEF count
    <3>. QED
      BY <1>1, <1>2, RoundReaches
  <2>3. round[offset] \in living
    BY <1>7, <2>1, <2>2
  <2>4. QED
    BY <2>3
<1>8. alive = {} => found = Nothing
  BY <1>3
<1>9. Nothing \in Optional(Entities)
  BY DEF Optional
<1>10. QED
  <2>. HIDE DEF alive
  <2>. QED
    BY <1>6, <1>7, <1>8, <1>9 DEF found, players

(* What a frame watches of what it shows (Viewed, Watched).                *)
LEMMA ViewedWorld ==
  ASSUME NEW w \in Worlds, NEW match \in 0 .. LastMatch, NEW fire \in BOOLEAN
  PROVE  LET next == Viewed(w, match, fire) IN
         /\ next \in Worlds
         /\ next.clock = w.clock /\ next.first = w.first /\ next.last = w.last
         /\ next.bodies = w.bodies /\ next.dead = w.dead /\ next.remote = w.remote /\ next.seen = w.seen
         /\ next.spectating <=> match > 0 /\ Entity(match, Own) \in w.dead
         /\ next.spectating /\ (\E p \in ViewPlayers : Entity(match, p) \in DOMAIN w.remote) =>
              next.watched # Nothing /\ next.watched[1] \in DOMAIN w.remote
<1>. DEFINE spectates == match > 0 /\ Entity(match, Own) \in w.dead
            x == Watched(w, match, fire)
<1>1. CASE spectates
  <2>0. match \in Matches
    BY <1>1, Bounds DEF Matches
  <2>1. DOMAIN w.remote \in SUBSET Entities /\ w.watched \in Optional(Entities)
    BY DEF Worlds, OfEntities
  <2>2. /\ x \in Optional(Entities)
        /\ (\E p \in ViewPlayers : Entity(match, p) \in DOMAIN w.remote) =>
             x # Nothing /\ x[1] \in DOMAIN w.remote
    <3>. DEFINE found == NextLiving(InOrder(match), DOMAIN w.remote, w.watched)
    <3>1. /\ found \in Optional(Entities)
          /\ (\E p \in ViewPlayers : Entity(match, p) \in DOMAIN w.remote) =>
               found # Nothing /\ found[1] \in DOMAIN w.remote
      BY <2>0, <2>1, NextLivingIs
    <3>2. x = found \/ (x = w.watched /\ w.watched # Nothing /\ w.watched[1] \in DOMAIN w.remote)
      <4>1. x = IF \/ w.watched = Nothing \/ w.watched[1] \notin DOMAIN w.remote
                   \/ fire /\ ~w.firing
                  THEN found ELSE w.watched
        BY Zenon DEF Watched
      <4>. HIDE DEF found, x
      <4>. DEFINE picks == \/ w.watched = Nothing \/ w.watched[1] \notin DOMAIN w.remote
                           \/ fire /\ ~w.firing
      <4>2. picks => x = found
        BY <4>1
      <4>3. ~picks => x = w.watched
        BY <4>1
      <4>4. QED
        BY <4>2, <4>3, Zenon
    <3>. HIDE DEF found, x
    <3>3. QED
      BY <2>1, <3>1, <3>2, Zenon
  <2>3. Viewed(w, match, fire) = [w EXCEPT !.spectating = TRUE, !.watched = x, !.firing = fire]
    BY <1>1, Zenon DEF Viewed
  <2>. HIDE DEF x
  <2>4. QED
    BY ZenonT(60), <1>1, <2>2, <2>3 DEF Worlds
<1>2. CASE ~spectates
  <2>1. Viewed(w, match, fire) = [w EXCEPT !.spectating = FALSE]
    BY <1>2, Zenon DEF Viewed
  <2>2. QED
    BY <1>2, <2>1 DEF Worlds
<1>3. QED
  BY <1>1, <1>2, Zenon

Messages == [kind : {"start", "end"}, match : Matches]
            \cup [kind : {"shot"}, match : Matches, shot : Nat]
            \cup [kind : {"death"}, match : Matches, victim : ViewPlayers]
ShotEvents == [match : Nat, of : Matches \X Nat]
DeathEvents == [match : Nat, of : Entities]
Published == [started : Nat, inMatch : BOOLEAN, ended : BOOLEAN, recent : Seq(States),
              dead : SUBSET Entities]
Reads == [open : {TRUE}, match : 0 .. LastMatch, ended : BOOLEAN, on : BOOLEAN]

ViewTyped ==
  /\ truth \in [match : 0 .. LastMatch, on : BOOLEAN, tick : Nat, alive : SUBSET ViewPlayers, shots : Nat]
  /\ reliable \in Seq(Messages) /\ told \subseteq States
  /\ published \in Published
  /\ pending \in [shots : Seq(ShotEvents), deaths : Seq(DeathEvents)]
  /\ frame = NoFrame \/ frame \in Reads
  /\ converted \in [match : Nat, updates : Seq(States)]
  /\ shown \in Worlds
  /\ handed \in [shots : Seq([of : Matches \X Nat, to : Nat]), deaths : Seq(Entities), ends : Seq(Nat)]

UpdatesRise == \A i, j \in DOMAIN converted.updates :
                 i < j => converted.updates[i].tick < converted.updates[j].tick

(* The deaths a frame is handed, those of its match among the kept.        *)
DeathsHanded == Events(Taken(pending.deaths, frame.match))

(* The Deaths a frame is handed are kept ones of its match, in order.      *)
LEMMA HandedDeaths ==
  ASSUME ViewTyped
  PROVE  /\ DeathsHanded \in Seq(Entities)
         /\ \E from \in [DOMAIN DeathsHanded -> DOMAIN pending.deaths] :
              /\ \A k \in DOMAIN DeathsHanded : /\ DeathsHanded[k] = pending.deaths[from[k]].of
                                                /\ pending.deaths[from[k]].match = frame.match
              /\ \A k, l \in DOMAIN DeathsHanded : k < l => from[k] < from[l]
              /\ \A i \in DOMAIN pending.deaths : pending.deaths[i].match = frame.match =>
                   \E k \in DOMAIN DeathsHanded : from[k] = i
<1>. DEFINE s == pending.deaths
            positions == {i \in DOMAIN s : s[i].match = frame.match}
            kept == Subsequence(s, positions)
<1>1. s \in Seq(DeathEvents)
  BY DEF ViewTyped
<1>2. positions \in SUBSET DOMAIN s
  OBVIOUS
<1>3. /\ kept \in Seq(DeathEvents)
      /\ \E from \in [DOMAIN kept -> positions] :
              /\ \A k \in DOMAIN kept : kept[k] = s[from[k]]
              /\ \A k, l \in DOMAIN kept : k < l => from[k] < from[l]
              /\ \A i \in positions : \E k \in DOMAIN kept : from[k] = i
  <2>. HIDE DEF positions, s
  <2>. QED
    BY <1>1, <1>2, KeptInOrder
<1>4. DeathsHanded = [i \in DOMAIN kept |-> kept[i].of]
  BY Zenon DEF DeathsHanded, Events, Taken
<1>. HIDE DEF kept
<1>5. \A i \in DOMAIN kept : kept[i].of \in Entities
  <2>1. \A i \in DOMAIN kept : kept[i] \in DeathEvents
    BY <1>3
  <2>2. QED
    BY <2>1 DEF DeathEvents
<1>6. DeathsHanded \in Seq(Entities) /\ DOMAIN DeathsHanded = DOMAIN kept
  <2>1. DOMAIN kept = 1 .. Len(kept) /\ Len(kept) \in Nat
    BY <1>3
  <2>2. DeathsHanded \in [1 .. Len(kept) -> Entities]
    BY <1>4, <1>5, <2>1
  <2>3. QED
    BY <1>4, <2>1, <2>2
<1>7. PICK from \in [DOMAIN kept -> positions] :
              /\ \A k \in DOMAIN kept : kept[k] = s[from[k]]
              /\ \A k, l \in DOMAIN kept : k < l => from[k] < from[l]
              /\ \A i \in positions : \E k \in DOMAIN kept : from[k] = i
  BY <1>3
<1>8. from \in [DOMAIN DeathsHanded -> DOMAIN s]
  BY <1>6, <1>7
<1>9. QED
  <2>1. \A k \in DOMAIN DeathsHanded : DeathsHanded[k] = s[from[k]].of /\ s[from[k]].match = frame.match
    BY <1>4, <1>6, <1>7
  <2>2. \A i \in DOMAIN s : s[i].match = frame.match => \E k \in DOMAIN DeathsHanded : from[k] = i
    BY <1>6, <1>7
  <2>3. \A k, l \in DOMAIN DeathsHanded : k < l => from[k] < from[l]
    BY <1>6, <1>7
  <2>. HIDE DEF s
  <2>4. QED
    BY <1>6, <1>8, <2>1, <2>2, <2>3 DEF s

(* What a frame records and samples, elapsed after the last.               *)
FreshAt(elapsed, caught) == Fresh(Advanced(elapsed, caught), converted.updates)
RecordedAt(elapsed, caught) == AllRecorded(Advanced(elapsed, caught), FreshAt(elapsed, caught))
SampleTime(elapsed, caught) == RecordedAt(elapsed, caught).clock.now[1] - InterpolationDelay

(* What every frame shows, and what one does with updates to show.         *)
ShowsFrame ==
  /\ shown' \in Worlds
  /\ shown'.match = frame.match /\ shown'.on = frame.on /\ shown'.endHeard = frame.ended
  /\ shown'.early = (IF frame.match = shown.match THEN shown.early ELSE {})
                     \cup (IF converted.updates = <<>> THEN ToSet(DeathsHanded) ELSE {})
  /\ shown'.stalled = (/\ converted.updates # <<>>
                       /\ shown.stalled \/ (frame.match # shown.match /\ shown.last # Nothing))
  /\ shown'.spectating <=> frame.match > 0 /\ Entity(frame.match, Own) \in shown'.dead
  /\ shown'.spectating /\ (\E p \in ViewPlayers : Entity(frame.match, p) \in DOMAIN shown'.remote) =>
       shown'.watched # Nothing /\ shown'.watched[1] \in DOMAIN shown'.remote
  /\ converted.updates = <<>> => NothingInIt(shown') /\ shown'.dead = ToSet(DeathsHanded)

ShowsUpdates(begun, fresh, recorded, time) ==
  /\ begun \in Worlds /\ begun.last = shown.last /\ begun.first = shown.first
  /\ begun.bodies = shown.bodies
  /\ recorded \in Worlds /\ KeepsUp(recorded)
  /\ shown'.clock = recorded.clock /\ shown'.first = recorded.first
  /\ shown'.last = recorded.last /\ shown'.bodies = recorded.bodies
  /\ fresh = <<>> => recorded = begun /\ shown.last # Nothing
  /\ fresh # <<>> => /\ recorded.last = <<fresh[Len(fresh)].tick>>
                     /\ DOMAIN recorded.bodies = ListedIn(fresh[Len(fresh)])
  /\ shown'.dead = shown.dead \cup ToSet(DeathsHanded)
  /\ DOMAIN shown'.remote = DOMAIN shown'.bodies \ shown'.dead
  /\ time \in Int /\ recorded.first[1] \in Nat /\ recorded.last[1] \in Nat
  /\ shown'.seen = <<Clamp(time, recorded.first[1], recorded.last[1])>>
  /\ \A e \in DOMAIN shown'.remote :
       /\ shown'.bodies[e] \in Seq(Nat) \ {<<>>}
       /\ shown'.remote[e] =
            Clamp(time, shown'.bodies[e][1], shown'.bodies[e][Len(shown'.bodies[e])])

(* What a frame shows (World::Impl::OnInterpolation, OnCamera).            *)
LEMMA WhatIsShown ==
  ASSUME ViewTyped, UpdatesRise, frame.open, shown.last # Nothing => KeepsUp(shown),
         NEW elapsed \in 0 .. 1, NEW caught \in CaughtUp(shown.clock, elapsed),
         NEW fire \in BOOLEAN, FrameRuns(elapsed, caught, fire)
  PROVE  /\ ShowsFrame
         /\ converted.updates # <<>> =>
              ShowsUpdates(Advanced(elapsed, caught), FreshAt(elapsed, caught), RecordedAt(elapsed, caught),
                           SampleTime(elapsed, caught))
<1>. DEFINE deaths == DeathsHanded
            next == Interpolated(elapsed, caught, deaths)
            view == Viewed(next, frame.match, fire)
            begun == Advanced(elapsed, caught)
            fresh == Fresh(begun, converted.updates)
            recorded == AllRecorded(begun, fresh)
            time == recorded.clock.now[1] - InterpolationDelay
<1>1. /\ shown \in Worlds /\ converted.updates \in Seq(States) /\ frame \in Reads
      /\ elapsed \in Nat /\ caught \in Int /\ -elapsed <= caught
  <2>1. frame \in Reads
    BY DEF ViewTyped, NoFrame
  <2>2. caught \in -elapsed .. elapsed
    BY Zenon DEF CaughtUp
  <2>3. QED
    BY <2>1, <2>2 DEF ViewTyped
<1>2. deaths \in Seq(Entities)
  BY HandedDeaths
<1>3. converted.updates = <<>> => next \in Worlds /\ NothingInIt(next) /\ next.dead = ToSet(deaths)
  BY <1>1, <1>2, NothingToShow, Zenon
<1>4. ASSUME converted.updates # <<>>
      PROVE  /\ begun \in Worlds /\ begun.last = shown.last /\ begun.first = shown.first
             /\ begun.bodies = shown.bodies
             /\ recorded \in Worlds /\ KeepsUp(recorded)
             /\ fresh = <<>> => recorded = begun /\ shown.last # Nothing
             /\ fresh # <<>> => /\ recorded.last = <<fresh[Len(fresh)].tick>>
                                /\ DOMAIN recorded.bodies = ListedIn(fresh[Len(fresh)])
  <2>1. begun \in Worlds /\ begun.clock = Advance(shown.clock, elapsed, caught)
        /\ begun.last = shown.last /\ begun.first = shown.first /\ begun.bodies = shown.bodies
    BY <1>1, AdvancedWorld, Zenon
  <2>2. shown.last # Nothing => KeepsUp(begun)
    <3>1. shown.clock \in Clocks /\ shown.last \in Optional(Nat)
      BY <1>1 DEF Worlds, Clocks
    <3>2. shown.clock.now # Nothing =>
              /\ begun.clock.now # Nothing
              /\ shown.clock.now[1] \in Int /\ begun.clock.now[1] \in Int
              /\ begun.clock.now[1] >= shown.clock.now[1]
      BY <1>1, <2>1, <3>1, AdvancedClock
    <3>3. shown.last # Nothing => shown.last[1] \in Nat
      BY <3>1, ValueOf
    <3>. HIDE DEF begun
    <3>4. QED
      BY <2>1, <3>2, <3>3, Bounds DEF KeepsUp
  <2>3. \A i, j \in DOMAIN converted.updates :
          i < j => converted.updates[i].tick < converted.updates[j].tick
    BY Zenon DEF UpdatesRise
  <2>4. /\ recorded \in Worlds /\ KeepsUp(recorded)
        /\ fresh = <<>> => recorded = begun
        /\ fresh # <<>> => /\ recorded.last = <<fresh[Len(fresh)].tick>>
                           /\ DOMAIN recorded.bodies = ListedIn(fresh[Len(fresh)])
    <3>. HIDE DEF begun
    <3>. QED
      BY <1>1, <1>4, <2>1, <2>2, <2>3, RecordedKeepsUp
  <2>5. fresh = <<>> => shown.last # Nothing
    <3>1. fresh = <<>> => begun.last # Nothing
      <4>. HIDE DEF begun, fresh
      <4>1. 1 \in DOMAIN converted.updates
        BY <1>1, <1>4
      <4>2. fresh = <<>> => \A i \in DOMAIN converted.updates : begun.last # Nothing
        BY <1>1, <2>1, <2>3, FreshUpdates, Zenon DEF fresh
      <4>3. QED
        BY <4>1, <4>2
    <3>2. QED
      BY <2>1, <3>1, Zenon
  <2>6. QED
    BY <2>1, <2>4, <2>5, Zenon
<1>5. ASSUME converted.updates # <<>>
      PROVE  /\ next \in Worlds /\ next.dead = shown.dead \cup ToSet(deaths)
             /\ next.clock = recorded.clock /\ next.first = recorded.first /\ next.last = recorded.last
             /\ next.bodies = recorded.bodies
             /\ DOMAIN next.remote = DOMAIN next.bodies \ next.dead
             /\ time \in Int /\ recorded.first[1] \in Nat /\ recorded.last[1] \in Nat
             /\ next.seen = <<Clamp(time, recorded.first[1], recorded.last[1])>>
             /\ \A e \in DOMAIN next.remote :
                  /\ next.bodies[e] \in Seq(Nat) \ {<<>>}
                  /\ next.remote[e] = Clamp(time, next.bodies[e][1], next.bodies[e][Len(next.bodies[e])])
  <2>1. recorded \in Worlds /\ KeepsUp(recorded)
    BY <1>4, <1>5, Zenon
  <2>2. QED
    BY <1>1, <1>2, <1>5, <2>1, SomethingToShow, ZenonT(60)
<1>6. next \in Worlds
  BY <1>3, <1>5, Zenon
<1>7. frame.match \in 0 .. LastMatch
  BY <1>1 DEF Reads
<1>8. /\ view \in Worlds
      /\ view.clock = next.clock /\ view.first = next.first /\ view.last = next.last
      /\ view.bodies = next.bodies /\ view.dead = next.dead /\ view.remote = next.remote
      /\ view.seen = next.seen
      /\ view.spectating <=> frame.match > 0 /\ Entity(frame.match, Own) \in next.dead
      /\ view.spectating /\ (\E p \in ViewPlayers : Entity(frame.match, p) \in DOMAIN next.remote) =>
           view.watched # Nothing /\ view.watched[1] \in DOMAIN next.remote
  <2>. HIDE DEF next
  <2>. QED
    BY <1>6, <1>7, ViewedWorld
<1>. DEFINE early == (IF frame.match = shown.match THEN shown.early ELSE {})
                       \cup (IF converted.updates = <<>> THEN ToSet(deaths) ELSE {})
            stalled == /\ converted.updates # <<>>
                       /\ shown.stalled \/ (frame.match # shown.match /\ shown.last # Nothing)
<1>9. shown' = [view EXCEPT !.endHeard = frame.ended, !.match = frame.match, !.on = frame.on,
                            !.early = early, !.stalled = stalled]
  BY Zenon DEF FrameRuns, DeathsHanded
<1>10. early \in SUBSET Entities /\ stalled \in BOOLEAN
  <2>1. ToSet(deaths) \subseteq Entities
    BY <1>2 DEF ToSet
  <2>2. shown.early \subseteq Entities
    BY <1>1 DEF Worlds
  <2>. HIDE DEF deaths
  <2>3. QED
    BY <2>1, <2>2
<1>11. /\ shown' \in Worlds
       /\ shown'.match = frame.match /\ shown'.on = frame.on /\ shown'.endHeard = frame.ended
       /\ shown'.early = early /\ shown'.stalled = stalled
       /\ shown'.clock = view.clock /\ shown'.first = view.first /\ shown'.last = view.last
       /\ shown'.bodies = view.bodies /\ shown'.dead = view.dead /\ shown'.remote = view.remote
       /\ shown'.seen = view.seen /\ shown'.spectating = view.spectating /\ shown'.watched = view.watched
  <2>. HIDE DEF view, early, stalled
  <2>1. frame.ended \in BOOLEAN /\ frame.on \in BOOLEAN
    BY <1>1 DEF Reads
  <2>2. QED
    BY <1>7, <1>8, <1>9, <1>10, <2>1 DEF Worlds
<1>. HIDE DEF view, next, early, stalled, begun, fresh, recorded, deaths
<1>12. converted.updates = <<>> => NothingInIt(shown') /\ shown'.dead = ToSet(deaths)
  BY <1>3, <1>8, <1>11 DEF NothingInIt
<1>13. ASSUME converted.updates # <<>>
       PROVE  /\ shown'.clock = recorded.clock /\ shown'.first = recorded.first
              /\ shown'.last = recorded.last /\ shown'.bodies = recorded.bodies
              /\ shown'.dead = shown.dead \cup ToSet(deaths)
              /\ DOMAIN shown'.remote = DOMAIN shown'.bodies \ shown'.dead
              /\ time \in Int /\ recorded.first[1] \in Nat /\ recorded.last[1] \in Nat
              /\ shown'.seen = <<Clamp(time, recorded.first[1], recorded.last[1])>>
              /\ \A e \in DOMAIN shown'.remote :
                   /\ shown'.bodies[e] \in Seq(Nat) \ {<<>>}
                   /\ shown'.remote[e] =
                        Clamp(time, shown'.bodies[e][1], shown'.bodies[e][Len(shown'.bodies[e])])
  <2>1. shown'.bodies = next.bodies /\ shown'.remote = next.remote /\ shown'.dead = next.dead
        /\ shown'.seen = next.seen
        /\ shown'.clock = next.clock /\ shown'.first = next.first /\ shown'.last = next.last
    BY <1>8, <1>11, Zenon
  <2>2. /\ next.dead = shown.dead \cup ToSet(deaths)
        /\ next.clock = recorded.clock /\ next.first = recorded.first /\ next.last = recorded.last
        /\ next.bodies = recorded.bodies
        /\ DOMAIN next.remote = DOMAIN next.bodies \ next.dead
        /\ time \in Int /\ recorded.first[1] \in Nat /\ recorded.last[1] \in Nat
        /\ next.seen = <<Clamp(time, recorded.first[1], recorded.last[1])>>
    BY <1>5, <1>13, Zenon
  <2>3. \A e \in DOMAIN next.remote :
             /\ next.bodies[e] \in Seq(Nat) \ {<<>>}
             /\ next.remote[e] = Clamp(time, next.bodies[e][1], next.bodies[e][Len(next.bodies[e])])
    BY <1>5, <1>13, Zenon
  <2>. HIDE DEF time
  <2>4. \A e \in DOMAIN shown'.remote :
             /\ shown'.bodies[e] \in Seq(Nat) \ {<<>>}
             /\ shown'.remote[e] = Clamp(time, shown'.bodies[e][1], shown'.bodies[e][Len(shown'.bodies[e])])
    BY <2>1, <2>3
  <2>5. QED
    BY <2>1, <2>2, <2>4, Zenon
<1>14. ShowsFrame
  BY <1>8, <1>11, <1>12, Zenon DEF deaths, early, stalled, ShowsFrame
<1>15. ASSUME converted.updates # <<>> PROVE ShowsUpdates(begun, fresh, recorded, time)
  <2>. HIDE DEF time
  <2>. QED
    BY <1>4, <1>13, <1>15, Zenon DEF deaths, ShowsUpdates
<1>16. QED
  BY <1>14, <1>15, Zenon DEF begun, fresh, recorded, FreshAt, RecordedAt, SampleTime

(* What is left of events, in their order.                                 *)
Embeds(kept, all) ==
  \E from \in [DOMAIN kept -> DOMAIN all] :
    /\ \A k \in DOMAIN kept : kept[k] = all[from[k]]
    /\ \A k, l \in DOMAIN kept : k < l => from[k] < from[l]

LEMMA SubsequenceEmbeds ==
  ASSUME NEW T, NEW s \in Seq(T), NEW positions \in SUBSET DOMAIN s
  PROVE  LET kept == Subsequence(s, positions) IN
         kept \in Seq(T) /\ Len(kept) <= Len(s) /\ Embeds(kept, s)
<1>. DEFINE kept == Subsequence(s, positions)
<1>1. /\ kept \in Seq(T) /\ Len(kept) <= Len(s)
      /\ \E from \in [DOMAIN kept -> positions] :
              /\ \A k \in DOMAIN kept : kept[k] = s[from[k]]
              /\ \A k, l \in DOMAIN kept : k < l => from[k] < from[l]
  BY KeptInOrder
<1>. HIDE DEF kept
<1>2. PICK from \in [DOMAIN kept -> positions] :
              /\ \A k \in DOMAIN kept : kept[k] = s[from[k]]
              /\ \A k, l \in DOMAIN kept : k < l => from[k] < from[l]
  BY <1>1
<1>3. from \in [DOMAIN kept -> DOMAIN s]
  BY <1>2
<1>4. Embeds(kept, s)
  BY <1>2, <1>3, Zenon DEF Embeds
<1>5. QED
  BY <1>1, <1>4 DEF kept

(* What Pending::Add keeps: the newest, with the one it adds.              *)
LEMMA KeptEvents ==
  ASSUME NEW T, NEW events \in Seq(T), NEW event \in T, Len(events) <= PendingKept
  PROVE  LET kept == KeptOf(events, event) IN
         kept \in Seq(T) /\ Len(kept) <= PendingKept /\ Embeds(kept, Append(events, event))
<1>. DEFINE dropped == DropBefore(events, event.match)
            all == Append(dropped, event)
            kept == KeptOf(events, event)
            whole == Append(events, event)
<1>1. dropped \in Seq(T) /\ Len(dropped) <= Len(events) /\ Embeds(dropped, events)
  BY SubsequenceEmbeds DEF DropBefore
<1>2. kept = IF Len(all) > PendingKept THEN Tail(all) ELSE all
  BY DEF KeptOf
<1>. HIDE DEF dropped, kept
<1>3. PICK from \in [DOMAIN dropped -> DOMAIN events] :
        /\ \A k \in DOMAIN dropped : dropped[k] = events[from[k]]
        /\ \A k, l \in DOMAIN dropped : k < l => from[k] < from[l]
  BY <1>1 DEF Embeds
<1>4. /\ all \in Seq(T) /\ Len(all) = Len(dropped) + 1 /\ DOMAIN all = 1 .. Len(dropped) + 1
      /\ \A i \in 1 .. Len(dropped) : all[i] = dropped[i]
      /\ all[Len(dropped) + 1] = event
  BY <1>1
<1>5. /\ whole \in Seq(T) /\ DOMAIN whole = 1 .. Len(events) + 1
      /\ \A i \in 1 .. Len(events) : whole[i] = events[i]
      /\ whole[Len(events) + 1] = event
  OBVIOUS
<1>. DEFINE place == [i \in 1 .. Len(dropped) + 1 |-> IF i = Len(dropped) + 1 THEN Len(events) + 1 ELSE from[i]]
<1>6. /\ place \in [DOMAIN all -> DOMAIN whole]
      /\ \A i \in DOMAIN all : all[i] = whole[place[i]]
      /\ \A i, j \in DOMAIN all : i < j => place[i] < place[j]
  <2>1. DOMAIN dropped = 1 .. Len(dropped) /\ DOMAIN events = 1 .. Len(events) /\ Len(dropped) \in Nat
        /\ Len(events) \in Nat
    BY <1>1
  <2>2. \A i \in 1 .. Len(dropped) : from[i] \in 1 .. Len(events) /\ place[i] = from[i]
    BY <1>3, <2>1
  <2>3. place[Len(dropped) + 1] = Len(events) + 1 /\ DOMAIN place = 1 .. Len(dropped) + 1
    BY <2>1
  <2>4. place \in [DOMAIN all -> DOMAIN whole]
    BY <1>4, <1>5, <2>1, <2>2
  <2>. HIDE DEF place, all, whole
  <2>5. \A i \in DOMAIN all : all[i] = whole[place[i]]
    BY <1>3, <1>4, <1>5, <2>1, <2>2, <2>3
  <2>6. ASSUME NEW i \in DOMAIN all, NEW j \in DOMAIN all, i < j PROVE place[i] < place[j]
    <3>1. i \in 1 .. Len(dropped) /\ place[i] = from[i] /\ from[i] \in 1 .. Len(events)
      BY <1>4, <2>1, <2>2, <2>6
    <3>2. CASE j = Len(dropped) + 1
      BY <2>1, <2>3, <3>1, <3>2
    <3>3. CASE j # Len(dropped) + 1
      <4>1. j \in 1 .. Len(dropped) /\ place[j] = from[j]
        BY <1>4, <2>1, <2>2, <3>3
      <4>2. QED
        BY <1>3, <2>1, <2>6, <3>1, <4>1
    <3>4. QED
      BY <3>2, <3>3
  <2>7. QED
    BY <2>4, <2>5, <2>6
<1>. HIDE DEF all, whole, place
<1>7. CASE Len(all) > PendingKept
  <2>1. kept = Tail(all)
    BY <1>2, <1>7
  <2>2. kept \in Seq(T) /\ Len(kept) = Len(dropped) /\ DOMAIN kept = 1 .. Len(dropped)
        /\ Len(dropped) \in Nat /\ \A i \in DOMAIN kept : kept[i] = all[i + 1] /\ i + 1 \in DOMAIN all
    BY <1>1, <1>4, <2>1
  <2>. DEFINE later == [i \in DOMAIN kept |-> place[i + 1]]
  <2>3. later \in [DOMAIN kept -> DOMAIN whole]
    BY <1>6, <2>2
  <2>4. \A k \in DOMAIN kept : kept[k] = whole[later[k]]
    BY <1>6, <2>2
  <2>5. \A k, l \in DOMAIN kept : k < l => later[k] < later[l]
    BY <1>6, <2>2
  <2>6. Embeds(kept, whole)
    <3>. HIDE DEF later
    <3>. QED
      BY <2>3, <2>4, <2>5, Zenon DEF Embeds
  <2>7. Len(kept) <= PendingKept
    BY <1>1, <2>2, Bounds
  <2>8. QED
    BY <2>2, <2>6, <2>7 DEF whole, kept
<1>8. CASE ~(Len(all) > PendingKept)
  <2>1. kept = all
    BY <1>2, <1>8
  <2>2. Embeds(kept, whole)
    BY <1>6, <2>1, Zenon DEF Embeds
  <2>3. Len(all) \in Nat
    BY <1>4
  <2>4. Len(all) <= PendingKept
    BY <1>8, <2>3, Bounds
  <2>5. QED
    BY <1>4, <2>1, <2>2, <2>4 DEF whole, kept
<1>9. QED
  BY <1>7, <1>8

(* Kept once more, they are still of what they were of.                    *)
LEMMA EventsLeft ==
  ASSUME NEW T, NEW events \in Seq(T), NEW match
  PROVE  LET left == Left(events, match) IN
         left \in Seq(T) /\ Len(left) <= Len(events) /\ Embeds(left, events)
  BY SubsequenceEmbeds DEF Left

(* What a tick tells, of its match: a shot, a Death and the Match end, at  *)
(* most; and who it leaves.                                                *)
TickTells(messages, left) ==
  /\ reliable' = reliable \o messages
  /\ messages \in Seq(Messages)
  /\ \A i \in DOMAIN messages :
       /\ messages[i].match = truth.match /\ messages[i].kind # "start"
       /\ messages[i].kind = "shot" =>
            messages[i].shot = truth.shots + 1 /\ truth'.shots = truth.shots + 1
       /\ messages[i].kind = "death" => messages[i].victim \in truth.alive \ left
  /\ \A i, j \in DOMAIN messages : i < j => messages[i].kind # messages[j].kind
  /\ left \subseteq truth.alive
  /\ truth'.match = truth.match /\ truth'.tick = truth.tick + 1 /\ truth'.alive = left
  /\ truth'.on = ~(Cardinality(left) <= 1) /\ truth'.shots \in {truth.shots, truth.shots + 1}
  /\ truth' \in [match : 0 .. LastMatch, on : BOOLEAN, tick : Nat, alive : SUBSET ViewPlayers, shots : Nat]
  /\ told' = told \cup {[tick |-> truth.tick + 1, match |-> truth.match, bodies |-> left]}
  /\ Cardinality(truth.alive) >= 2 => left # {}

(* The messages of one kind each, one after the other.                     *)
LEMMA OneOfEach ==
  ASSUME NEW T, NEW a \in Seq(T), NEW b \in Seq(T), NEW c \in Seq(T),
         Len(a) <= 1, Len(b) <= 1, Len(c) <= 1
  PROVE  /\ a \o b \o c \in Seq(T)
         /\ \A i \in DOMAIN (a \o b \o c) :
              \/ 1 \in DOMAIN a /\ i = 1 /\ (a \o b \o c)[i] = a[1]
              \/ 1 \in DOMAIN b /\ i = Len(a) + 1 /\ (a \o b \o c)[i] = b[1]
              \/ 1 \in DOMAIN c /\ i = Len(a) + Len(b) + 1 /\ (a \o b \o c)[i] = c[1]
<1>. DEFINE ab == a \o b
            all == ab \o c
<1>1. /\ ab \in Seq(T) /\ Len(ab) = Len(a) + Len(b)
      /\ \A i \in 1 .. Len(ab) : ab[i] = IF i <= Len(a) THEN a[i] ELSE b[i - Len(a)]
  OBVIOUS
<1>2. Len(a) \in Nat /\ Len(b) \in Nat /\ Len(c) \in Nat
      /\ DOMAIN a = 1 .. Len(a) /\ DOMAIN b = 1 .. Len(b) /\ DOMAIN c = 1 .. Len(c)
  OBVIOUS
<1>. HIDE DEF ab
<1>3. /\ all \in Seq(T) /\ DOMAIN all = 1 .. Len(ab) + Len(c)
      /\ \A i \in 1 .. Len(ab) + Len(c) : all[i] = IF i <= Len(ab) THEN ab[i] ELSE c[i - Len(ab)]
  BY <1>1
<1>. HIDE DEF all
<1>4. ASSUME NEW i \in DOMAIN all
      PROVE  \/ 1 \in DOMAIN a /\ i = 1 /\ all[i] = a[1]
             \/ 1 \in DOMAIN b /\ i = Len(a) + 1 /\ all[i] = b[1]
             \/ 1 \in DOMAIN c /\ i = Len(a) + Len(b) + 1 /\ all[i] = c[1]
  <2>1. CASE i <= Len(a)
    BY <1>1, <1>2, <1>3, <2>1
  <2>2. CASE i > Len(a) /\ i <= Len(ab)
    BY <1>1, <1>2, <1>3, <2>2
  <2>3. CASE i > Len(ab)
    BY <1>1, <1>2, <1>3, <2>3
  <2>4. QED
    BY <1>1, <1>2, <1>3, <2>1, <2>2, <2>3
<1>5. QED
  BY <1>3, <1>4 DEF all, ab

LEMMA AtMostOne ==
  ASSUME NEW S, IsFiniteSet(S), Cardinality(S) <= 1
  PROVE  \/ S = {} /\ Cardinality(S) = 0
         \/ \E v \in S : S = {v} /\ Cardinality(S) = 1 /\ SetToSeq(S)[1] = v
<1>1. Cardinality(S) \in Nat
  BY FS_CardinalityType
<1>2. CASE Cardinality(S) = 0
  BY <1>2, FS_EmptySet
<1>3. CASE Cardinality(S) = 1
  <2>1. PICK v : S = {v}
    BY <1>3, FS_Singleton
  <2>. DEFINE P(f) == IsInjective(f)
              f == [i \in 1 .. 1 |-> v]
              chosen == CHOOSE g \in [1 .. 1 -> S] : P(g)
  <2>2. SetToSeq(S) = chosen
    BY <1>3 DEF SetToSeq
  <2>3. f \in [1 .. 1 -> S] /\ P(f)
    BY <2>1 DEF IsInjective
  <2>4. chosen \in [1 .. 1 -> S]
    <3>. HIDE DEF P, f
    <3>. QED
      BY <2>3
  <2>. HIDE DEF chosen
  <2>5. chosen[1] \in {v}
    BY <2>1, <2>4
  <2>6. QED
    BY <1>3, <2>1, <2>2, <2>5
<1>4. QED
  BY <1>1, <1>2, <1>3

LEMMA ViewPlayersAreFinite ==
  IsFiniteSet(ViewPlayers) /\ Own \in ViewPlayers /\ Cardinality(ViewPlayers) >= 2
<1>1. IsFiniteSet(Others)
  BY ViewAssumption, Zenon DEF ViewAssumption
<1>2. ViewPlayers = Others \cup {Own}
  BY DEF ViewPlayers
<1>3. IsFiniteSet(ViewPlayers)
  BY <1>1, <1>2, FS_AddElement
<1>4. QED
  BY <1>2, <1>3, PlayersInOrder

Truths == [match : 0 .. LastMatch, on : BOOLEAN, tick : Nat, alive : SUBSET ViewPlayers, shots : Nat]

LEMMA TruthAfter ==
  ASSUME NEW t \in Truths, NEW on \in BOOLEAN, NEW left \in SUBSET ViewPlayers, NEW n \in Nat,
         NEW tick \in Nat
  PROVE  LET next == [t EXCEPT !.tick = tick, !.alive = left, !.on = on, !.shots = n] IN
         /\ next.match = t.match /\ next.tick = tick /\ next.alive = left
         /\ next.on = on /\ next.shots = n /\ next \in Truths
  BY Zenon DEF Truths

(* What the server tells with a tick, and who it leaves alive.             *)
LEMMA WhatATickTells ==
  ASSUME ViewTyped, ServerTicks, truth.match \in Matches
  PROVE  /\ \E messages, left : TickTells(messages, left)
         /\ UNCHANGED <<published, pending, frame, converted, shown, handed>>
<1>0. truth \in [match : 0 .. LastMatch, on : BOOLEAN, tick : Nat, alive : SUBSET ViewPlayers, shots : Nat]
  BY DEF ViewTyped
<1>1. PICK fires \in {FALSE, truth.shots < LastShot}, dying \in SUBSET truth.alive,
           leaving \in SUBSET (truth.alive \ {Own}) :
        /\ Cardinality(dying \cup leaving) <= (IF fires THEN 0 ELSE 1)
        /\ ServerTickOf(fires, dying, leaving)
  BY Zenon DEF ServerTicks
<1>. DEFINE left == truth.alive \ (dying \cup leaving)
            over == Cardinality(left) <= 1
            Shot == [kind |-> "shot", match |-> truth.match, shot |-> truth.shots + 1]
            Death(i) == [kind |-> "death", match |-> truth.match, victim |-> SetToSeq(dying)[i]]
            End == [kind |-> "end", match |-> truth.match]
            a == IF fires THEN <<Shot>> ELSE <<>>
            b == [i \in 1 .. Cardinality(dying) |-> Death(i)]
            c == IF over THEN <<End>> ELSE <<>>
            messages == a \o b \o c
<1>2. /\ IsFiniteSet(dying) /\ IsFiniteSet(dying \cup leaving)
      /\ Cardinality(dying) <= Cardinality(dying \cup leaving)
  <2>1. dying \cup leaving \subseteq ViewPlayers
    BY <1>0
  <2>2. IsFiniteSet(dying \cup leaving)
    BY <2>1, ViewPlayersAreFinite, FS_Subset
  <2>3. dying \in SUBSET (dying \cup leaving)
    OBVIOUS
  <2>4. IsFiniteSet(dying) /\ Cardinality(dying) <= Cardinality(dying \cup leaving)
    BY <2>2, <2>3, FS_Subset
  <2>5. QED
    BY <2>2, <2>4
<1>3. Cardinality(dying \cup leaving) <= 1 /\ Cardinality(dying) <= 1
      /\ Cardinality(dying \cup leaving) \in Nat /\ Cardinality(dying) \in Nat
  BY <1>1, <1>2, FS_CardinalityType
<1>4. /\ truth' = [truth EXCEPT !.tick = @ + 1, !.alive = left, !.on = ~over,
                                !.shots = @ + (IF fires THEN 1 ELSE 0)]
      /\ told' = told \cup {[tick |-> truth.tick + 1, match |-> truth.match, bodies |-> left]}
      /\ reliable' = reliable \o messages
  BY <1>1, Zenon DEF ServerTickOf, Tell
<1>5. /\ left \subseteq truth.alive /\ over \in BOOLEAN
      /\ dying \cap left = {}
  OBVIOUS
<1>6. a \in Seq(Messages) /\ Len(a) <= 1 /\ (1 \in DOMAIN a => fires /\ a[1] = Shot)
  <2>1. Shot \in Messages
    BY <1>0 DEF Messages
  <2>. HIDE DEF Shot
  <2>2. QED
    BY <1>2, <2>1
<1>7. b \in Seq(Messages) /\ Len(b) <= 1
      /\ (1 \in DOMAIN b => \E v \in dying : b[1] = [kind |-> "death", match |-> truth.match, victim |-> v])
  <2>1. CASE dying = {} /\ Cardinality(dying) = 0
    <3>1. b = <<>>
      BY <2>1
    <3>. HIDE DEF b
    <3>2. QED
      BY <3>1
  <2>2. CASE \E v \in dying : dying = {v} /\ Cardinality(dying) = 1 /\ SetToSeq(dying)[1] = v
    <3>1. PICK v \in dying : dying = {v} /\ Cardinality(dying) = 1 /\ SetToSeq(dying)[1] = v
      BY <2>2
    <3>2. b = <<Death(1)>>
      BY <3>1
    <3>3. Death(1) = [kind |-> "death", match |-> truth.match, victim |-> v]
      BY <3>1
    <3>4. Death(1) \in Messages
      BY <1>0, <3>3 DEF Messages
    <3>. HIDE DEF Death, b
    <3>5. QED
      BY <3>2, <3>3, <3>4
  <2>3. QED
    BY <1>2, <1>3, <2>1, <2>2, AtMostOne
<1>8. c \in Seq(Messages) /\ Len(c) <= 1 /\ (1 \in DOMAIN c => c[1] = End)
  <2>1. End \in Messages
    BY <1>0 DEF Messages
  <2>. HIDE DEF End, over
  <2>2. QED
    BY <2>1
<1>9. /\ messages \in Seq(Messages)
      /\ \A i \in DOMAIN messages :
              \/ 1 \in DOMAIN a /\ i = 1 /\ messages[i] = a[1]
              \/ 1 \in DOMAIN b /\ i = Len(a) + 1 /\ messages[i] = b[1]
              \/ 1 \in DOMAIN c /\ i = Len(a) + Len(b) + 1 /\ messages[i] = c[1]
  <2>. HIDE DEF a, b, c
  <2>. QED
    BY <1>6, <1>7, <1>8, OneOfEach
<1>10. Len(a) \in Nat /\ Len(b) \in Nat
  <2>. HIDE DEF a, b
  <2>. QED
    BY <1>6, <1>7
<1>. HIDE DEF a, b, c, messages
<1>11. ASSUME NEW i \in DOMAIN messages
       PROVE  /\ messages[i].match = truth.match
              /\ \/ i = 1 /\ messages[i] = Shot /\ fires
                 \/ i = Len(a) + 1 /\ messages[i].kind = "death" /\ messages[i].victim \in dying
                 \/ i = Len(a) + Len(b) + 1 /\ messages[i] = End
  <2>1. CASE 1 \in DOMAIN a /\ i = 1 /\ messages[i] = a[1]
    BY <1>6, <2>1
  <2>2. CASE 1 \in DOMAIN b /\ i = Len(a) + 1 /\ messages[i] = b[1]
    <3>1. PICK v \in dying : messages[i] = [kind |-> "death", match |-> truth.match, victim |-> v]
      BY <1>7, <2>2
    <3>2. QED
      BY <2>2, <3>1
  <2>3. CASE 1 \in DOMAIN c /\ i = Len(a) + Len(b) + 1 /\ messages[i] = c[1]
    BY <1>8, <2>3
  <2>4. QED
    BY <1>9, <2>1, <2>2, <2>3, Zenon
<1>12. ASSUME NEW i \in DOMAIN messages
       PROVE  /\ messages[i].match = truth.match /\ messages[i].kind # "start"
              /\ messages[i].kind = "shot" => messages[i].shot = truth.shots + 1 /\ fires
              /\ messages[i].kind = "death" => messages[i].victim \in truth.alive \ left
  BY <1>5, <1>11
<1>13. \A i, j \in DOMAIN messages : i < j => messages[i].kind # messages[j].kind
  BY <1>10, <1>11
<1>14. truth'.match = truth.match /\ truth'.tick = truth.tick + 1 /\ truth'.alive = left
       /\ truth'.on = ~over /\ truth'.shots = truth.shots + (IF fires THEN 1 ELSE 0)
       /\ truth' \in [match : 0 .. LastMatch, on : BOOLEAN, tick : Nat, alive : SUBSET ViewPlayers, shots : Nat]
  <2>. DEFINE n == truth.shots + (IF fires THEN 1 ELSE 0)
              on == ~over
  <2>1. n \in Nat /\ truth.tick + 1 \in Nat
    BY <1>0, <1>2
  <2>2. truth' = [truth EXCEPT !.tick = truth.tick + 1, !.alive = left, !.on = on, !.shots = n]
    BY <1>4, Zenon
  <2>3. left \subseteq ViewPlayers /\ on \in BOOLEAN
    BY <1>0, <1>5
  <2>. HIDE DEF over, left, n, on
  <2>4. /\ truth'.match = truth.match /\ truth'.tick = truth.tick + 1 /\ truth'.alive = left
        /\ truth'.on = on /\ truth'.shots = n
        /\ truth' \in [match : 0 .. LastMatch, on : BOOLEAN, tick : Nat, alive : SUBSET ViewPlayers,
                       shots : Nat]
    BY <1>0, <2>1, <2>2, <2>3, TruthAfter, Zenon DEF Truths
  <2>5. QED
    BY <2>4, Zenon DEF n, on
<1>15. Cardinality(truth.alive) >= 2 => left # {}
  <2>1. SUFFICES ASSUME left = {} PROVE ~(Cardinality(truth.alive) >= 2)
    OBVIOUS
  <2>2. truth.alive = dying \cup leaving
    BY <2>1
  <2>3. QED
    BY <1>3, <2>2
<1>16. truth'.shots \in {truth.shots, truth.shots + 1} /\ (fires => truth'.shots = truth.shots + 1)
  BY <1>0, <1>14
<1>17. TickTells(messages, left)
  <2>. HIDE DEF left
  <2>. QED
    BY <1>4, <1>5, <1>9, <1>12, <1>13, <1>14, <1>15, <1>16, Zenon DEF TickTells, left
<1>18. UNCHANGED <<published, pending, frame, converted, shown, handed>>
  BY Zenon DEF ServerTicks
<1>19. QED
  BY <1>17, <1>18

RecentRise == \A i, j \in DOMAIN published.recent :
                i < j => published.recent[i].tick < published.recent[j].tick

LEMMA StatesKept ==
  ASSUME NEW s \in Seq(States), NEW positions \in SUBSET DOMAIN s
  PROVE  LET kept == Subsequence(s, positions) IN
         /\ kept \in Seq(States)
         /\ positions = {} => kept = <<>>
         /\ \E from \in [DOMAIN kept -> positions] :
              /\ \A k \in DOMAIN kept : kept[k] = s[from[k]]
              /\ \A k, l \in DOMAIN kept : k < l => from[k] < from[l]
              /\ \A i \in positions : \E k \in DOMAIN kept : from[k] = i
<1>. DEFINE T == States
<1>1. s \in Seq(T)
  OBVIOUS
<1>. HIDE DEF T
<1>2. LET kept == Subsequence(s, positions) IN
      /\ kept \in Seq(T)
      /\ positions = {} => kept = <<>>
      /\ \E from \in [DOMAIN kept -> positions] :
           /\ \A k \in DOMAIN kept : kept[k] = s[from[k]]
           /\ \A k, l \in DOMAIN kept : k < l => from[k] < from[l]
           /\ \A i \in positions : \E k \in DOMAIN kept : from[k] = i
  BY SMTT(30), <1>1, KeptInOrder
<1>3. QED
  BY <1>2 DEF T

(* What a frame has to show, of the view it reads (ConvertServerView).     *)
LEMMA UpdatesRead ==
  ASSUME published.recent \in Seq(States), converted.updates \in Seq(States), RecentRise, UpdatesRise
  PROVE  LET updates == UpdatesOf(published) IN
         /\ updates \in Seq(States)
         /\ \A i, j \in DOMAIN updates : i < j => updates[i].tick < updates[j].tick
         /\ \A i \in DOMAIN updates :
              \/ \E j \in DOMAIN published.recent : updates[i] = published.recent[j]
              \/ published.started = converted.match
                 /\ \E j \in DOMAIN converted.updates : updates[i] = converted.updates[j]
         /\ updates = <<>> <=> published.recent = <<>>
<1>. DEFINE recent == published.recent
            before == IF published.started # converted.match THEN <<>> ELSE converted.updates
            places == {i \in DOMAIN before : recent # <<>> /\ before[i].tick >= recent[1].tick}
            still == Subsequence(before, places)
            after == {i \in DOMAIN recent : still = <<>> \/ recent[i].tick > Last(still).tick}
            more == Subsequence(recent, after)
            updates == UpdatesOf(published)
<1>0. updates = still \o more
  BY Zenon DEF UpdatesOf
<1>1. /\ before \in Seq(States)
      /\ \A i, j \in DOMAIN before : i < j => before[i].tick < before[j].tick
      /\ \A i \in DOMAIN before : published.started = converted.match
                                  /\ \E j \in DOMAIN converted.updates : before[i] = converted.updates[j]
  BY DEF UpdatesRise
<1>2. places \in SUBSET DOMAIN before /\ (recent = <<>> => places = {})
  OBVIOUS
<1>. HIDE DEF before, places, updates
<1>3. /\ still \in Seq(States)
      /\ places = {} => still = <<>>
      /\ \E from \in [DOMAIN still -> places] :
              /\ \A k \in DOMAIN still : still[k] = before[from[k]]
              /\ \A k, l \in DOMAIN still : k < l => from[k] < from[l]
  <2>. HIDE DEF recent
  <2>. QED
    BY <1>1, <1>2, KeptInOrder
<1>. HIDE DEF still
<1>4. /\ \A i, j \in DOMAIN still : i < j => still[i].tick < still[j].tick
      /\ \A i \in DOMAIN still : published.started = converted.match
                                  /\ \E j \in DOMAIN converted.updates : still[i] = converted.updates[j]
  <2>1. PICK from \in [DOMAIN still -> places] :
              /\ \A k \in DOMAIN still : still[k] = before[from[k]]
              /\ \A k, l \in DOMAIN still : k < l => from[k] < from[l]
    BY <1>3
  <2>2. \A k \in DOMAIN still : from[k] \in DOMAIN before
    BY <1>2, <2>1
  <2>3. QED
    BY <1>1, <2>1, <2>2
<1>5. after \in SUBSET DOMAIN recent /\ (still = <<>> => after = DOMAIN recent)
  OBVIOUS
<1>6. \A i \in after : still = <<>> \/ recent[i].tick > Last(still).tick
  OBVIOUS
<1>. HIDE DEF after
<1>7. /\ more \in Seq(States)
      /\ after = {} => more = <<>>
      /\ \E from \in [DOMAIN more -> after] :
              /\ \A k \in DOMAIN more : more[k] = recent[from[k]]
              /\ \A k, l \in DOMAIN more : k < l => from[k] < from[l]
              /\ \A i \in after : \E k \in DOMAIN more : from[k] = i
  <2>1. recent \in Seq(States) /\ after \in SUBSET DOMAIN recent
    BY <1>5
  <2>. HIDE DEF recent
  <2>. QED
    BY SMTT(30), <2>1, StatesKept
<1>. HIDE DEF more
<1>8. PICK from \in [DOMAIN more -> after] :
              /\ \A k \in DOMAIN more : more[k] = recent[from[k]]
              /\ \A k, l \in DOMAIN more : k < l => from[k] < from[l]
              /\ \A i \in after : \E k \in DOMAIN more : from[k] = i
  BY <1>7
<1>9. \A k \in DOMAIN more : from[k] \in after /\ from[k] \in DOMAIN recent
  BY <1>5, <1>8
<1>10. /\ \A i, j \in DOMAIN more : i < j => more[i].tick < more[j].tick
       /\ \A i \in DOMAIN more : \E j \in DOMAIN recent : more[i] = recent[j]
  <2>1. \A i, j \in DOMAIN recent : i < j => recent[i].tick < recent[j].tick
    BY DEF RecentRise
  <2>. HIDE DEF recent
  <2>2. QED
    BY <1>8, <1>9, <2>1
<1>11. \A i \in DOMAIN more : still = <<>> \/ more[i].tick > Last(still).tick
  <2>. HIDE DEF recent
  <2>. QED
    BY <1>6, <1>8, <1>9
<1>12. /\ updates \in Seq(States) /\ DOMAIN updates = 1 .. Len(still) + Len(more)
       /\ \A i \in DOMAIN updates : updates[i] = IF i <= Len(still) THEN still[i] ELSE more[i - Len(still)]
       /\ DOMAIN still = 1 .. Len(still) /\ DOMAIN more = 1 .. Len(more) /\ Len(still) \in Nat /\ Len(more) \in Nat
  BY <1>0, <1>3, <1>7
<1>13. ASSUME NEW i \in DOMAIN updates, NEW j \in DOMAIN updates, i < j
       PROVE  updates[i].tick < updates[j].tick
  <2>0. \A k, l \in DOMAIN still : k < l => still[k].tick < still[l].tick
    BY <1>4, Zenon
  <2>1. CASE j <= Len(still)
    <3>1. updates[i] = still[i] /\ updates[j] = still[j] /\ i \in DOMAIN still /\ j \in DOMAIN still
      BY <1>12, <1>13, <2>1
    <3>2. QED
      BY <1>13, <2>0, <3>1
  <2>2. CASE i > Len(still)
    <3>0. \A k, l \in DOMAIN more : k < l => more[k].tick < more[l].tick
      BY <1>10, Zenon
    <3>1. /\ updates[i] = more[i - Len(still)] /\ updates[j] = more[j - Len(still)]
          /\ i - Len(still) \in DOMAIN more /\ j - Len(still) \in DOMAIN more
          /\ i - Len(still) < j - Len(still)
      BY <1>12, <1>13, <2>2
    <3>2. QED
      BY <3>0, <3>1
  <2>3. CASE i <= Len(still) /\ j > Len(still)
    <3>1. updates[i] = still[i] /\ updates[j] = more[j - Len(still)] /\ j - Len(still) \in DOMAIN more
          /\ i \in DOMAIN still /\ Len(still) \in DOMAIN still /\ still # <<>>
      BY <1>12, <2>3
    <3>2. updates[j].tick > still[Len(still)].tick
      BY <1>11, <3>1 DEF Last
    <3>3. still[i].tick \in Nat /\ still[Len(still)].tick \in Nat /\ updates[j].tick \in Nat
      <4>1. still[i] \in States /\ still[Len(still)] \in States /\ updates[j] \in States
        BY <1>3, <1>12, <3>1
      <4>2. QED
        BY <4>1 DEF States
    <3>4. i = Len(still) \/ still[i].tick < still[Len(still)].tick
      BY SMTT(30), <1>12, <2>0, <2>3, <3>1
    <3>5. QED
      BY <3>1, <3>2, <3>3, <3>4
  <2>4. QED
    BY <1>12, <2>1, <2>2, <2>3
<1>14. ASSUME NEW i \in DOMAIN updates
       PROVE  \/ \E j \in DOMAIN recent : updates[i] = recent[j]
              \/ /\ published.started = converted.match
                 /\ \E j \in DOMAIN converted.updates : updates[i] = converted.updates[j]
  <2>1. CASE i <= Len(still)
    BY <1>4, <1>12, <2>1
  <2>2. CASE i > Len(still)
    <3>. HIDE DEF recent
    <3>. QED
      BY SMTT(30), <1>10, <1>12, <2>2
  <2>3. QED
    BY <1>12, <2>1, <2>2
<1>15. updates = <<>> <=> recent = <<>>
  <2>1. ASSUME recent = <<>> PROVE updates = <<>>
    <3>1. still = <<>>
      BY <1>2, <1>3, <2>1
    <3>2. after = {}
      BY <1>5, <2>1
    <3>3. QED
      BY <1>0, <1>7, <3>1, <3>2
  <2>2. ASSUME updates = <<>> PROVE recent = <<>>
    <3>1. DOMAIN still = {} /\ DOMAIN more = {} /\ still = <<>>
      <4>1. 1 .. Len(still) + Len(more) = {}
        BY <1>12, <2>2
      <4>2. Len(still) = 0 /\ Len(more) = 0
        <5>1. Len(still) + Len(more) >= 1 => 1 \in 1 .. Len(still) + Len(more)
          BY <1>12
        <5>2. QED
          BY <1>12, <4>1, <5>1
      <4>3. QED
        BY <1>3, <1>12, <4>2
    <3>2. after = {} /\ after = DOMAIN recent
      BY <1>5, <1>8, <3>1
    <3>3. recent \in Seq(States) /\ DOMAIN recent = {}
      BY <3>2
    <3>. HIDE DEF recent
    <3>4. QED
      BY <3>3
  <2>3. QED
    BY <2>1, <2>2
<1>16. QED
  BY <1>12, <1>13, <1>14, <1>15, Zenon DEF recent, updates

PendingFits == Len(pending.shots) <= PendingKept /\ Len(pending.deaths) <= PendingKept

ShotOf(message) == [match |-> published.started, of |-> <<message.match, message.shot>>]
DeathOf(message) == [match |-> published.started, of |-> Entity(message.match, message.victim)]

(* What the Inbox does with an event, by its kind.                         *)
Starts(message) ==
  /\ message.kind = "start" /\ pending' = pending
  /\ published'.started = published.started + 1 /\ published'.inMatch /\ ~published'.ended
  /\ published'.recent = <<>>
Ends(message) ==
  /\ message.kind = "end" /\ pending' = pending
  /\ published'.started = published.started /\ ~published'.inMatch /\ published'.ended
  /\ published'.recent = <<>>
KeepsShot(message) ==
  /\ message.kind = "shot" /\ published' = published
  /\ \/ pending' = pending
     \/ /\ published.inMatch /\ pending'.deaths = pending.deaths
        /\ ShotOf(message) \in ShotEvents
        /\ Embeds(pending'.shots, Append(pending.shots, ShotOf(message)))
KeepsDeath(message) ==
  /\ message.kind = "death"
  /\ published'.started = published.started /\ published'.inMatch = published.inMatch
  /\ published'.ended = published.ended /\ published'.recent = published.recent
  /\ \/ pending' = pending
     \/ /\ published.inMatch /\ pending'.shots = pending.shots
        /\ DeathOf(message) \in DeathEvents
        /\ Embeds(pending'.deaths, Append(pending.deaths, DeathOf(message)))

LEMMA MessageKinds ==
  ASSUME NEW m \in Messages
  PROVE  /\ m.match \in Matches
         /\ m.kind \in {"start", "end", "shot", "death"}
         /\ m.kind = "shot" => m.shot \in Nat
         /\ m.kind = "death" => m.victim \in ViewPlayers
  BY DEF Messages

LEMMA PublishedAtStart ==
  ASSUME NEW p \in Published, NEW n \in Nat
  PROVE  LET next == [p EXCEPT !.started = n, !.inMatch = TRUE, !.ended = FALSE, !.recent = <<>>, !.dead = {}]
         IN  /\ next \in Published /\ next.started = n /\ next.inMatch = TRUE /\ next.ended = FALSE
             /\ next.recent = <<>>
<1>1. <<>> \in Seq(States) /\ {} \in SUBSET Entities /\ TRUE \in BOOLEAN /\ FALSE \in BOOLEAN
  OBVIOUS
<1>2. QED
  BY <1>1, Zenon DEF Published

LEMMA PublishedAtEnd ==
  ASSUME NEW p \in Published
  PROVE  LET next == [p EXCEPT !.inMatch = FALSE, !.ended = TRUE, !.recent = <<>>]
         IN  /\ next \in Published /\ next.started = p.started /\ next.inMatch = FALSE
             /\ next.ended = TRUE /\ next.recent = <<>>
<1>1. <<>> \in Seq(States) /\ TRUE \in BOOLEAN /\ FALSE \in BOOLEAN
  OBVIOUS
<1>2. QED
  BY <1>1, Zenon DEF Published

LEMMA PublishedWithState ==
  ASSUME NEW p \in Published, NEW recent \in Seq(States)
  PROVE  LET next == [p EXCEPT !.recent = recent]
         IN  /\ next \in Published /\ next.started = p.started /\ next.inMatch = p.inMatch
             /\ next.ended = p.ended /\ next.recent = recent
  BY Zenon DEF Published

(* What the Inbox makes of the next event (Inbox::Receive).                *)
LEMMA WhatIsReceived ==
  ASSUME ViewTyped, PendingFits, ReceiveReliable
  PROVE  /\ reliable # <<>> /\ reliable[1] \in Messages
         /\ reliable' \in Seq(Messages) /\ Len(reliable) \in Nat /\ DOMAIN reliable = 1 .. Len(reliable)
         /\ Len(reliable) >= 1
         /\ Len(reliable') = Len(reliable) - 1 /\ DOMAIN reliable' = 1 .. Len(reliable) - 1
         /\ \A i \in 1 .. Len(reliable) - 1 : reliable'[i] = reliable[i + 1]
         /\ UNCHANGED <<truth, told, frame, converted, shown, handed>>
         /\ published' \in Published
         /\ pending' \in [shots : Seq(ShotEvents), deaths : Seq(DeathEvents)]
         /\ PendingFits'
         /\ \/ Starts(reliable[1]) \/ Ends(reliable[1]) \/ KeepsShot(reliable[1]) \/ KeepsDeath(reliable[1])
<1>. DEFINE message == Head(reliable)
            shot == ShotOf(message)
            death == DeathOf(message)
            keptShots == KeptOf(pending.shots, shot)
            keptDeaths == KeptOf(pending.deaths, death)
<1>1. /\ reliable # <<>> /\ reliable' = Tail(reliable)
      /\ \/ message.kind = "start" /\ OnMatchStart(message) /\ UNCHANGED pending
         \/ message.kind = "end" /\ OnMatchEnd(message) /\ UNCHANGED pending
         \/ message.kind = "shot" /\ OnShot(message)
         \/ message.kind = "death" /\ OnDeath(message)
      /\ UNCHANGED <<truth, told, frame, converted, shown, handed>>
  BY Zenon DEF ReceiveReliable
<1>2. reliable \in Seq(Messages)
  BY DEF ViewTyped
<1>3. /\ reliable' \in Seq(Messages) /\ Len(reliable) \in Nat /\ DOMAIN reliable = 1 .. Len(reliable)
      /\ Len(reliable) >= 1 /\ message = reliable[1] /\ message \in Messages
      /\ Len(reliable') = Len(reliable) - 1 /\ DOMAIN reliable' = 1 .. Len(reliable) - 1
      /\ \A i \in 1 .. Len(reliable) - 1 : reliable'[i] = reliable[i + 1]
  BY <1>1, <1>2
<1>. HIDE DEF message
<1>4. /\ published \in Published
      /\ pending \in [shots : Seq(ShotEvents), deaths : Seq(DeathEvents)]
      /\ pending.shots \in Seq(ShotEvents) /\ pending.deaths \in Seq(DeathEvents)
      /\ Len(pending.shots) <= PendingKept /\ Len(pending.deaths) <= PendingKept
  BY DEF ViewTyped, PendingFits
<1>5. published.started \in Nat
  BY <1>4 DEF Published
<1>6. CASE message.kind = "start" /\ OnMatchStart(message) /\ UNCHANGED pending
  <2>1. /\ published' \in Published /\ published'.started = published.started + 1
        /\ published'.inMatch /\ ~published'.ended /\ published'.recent = <<>>
    <3>1. <<>> \in Seq(States) /\ {} \in SUBSET Entities /\ published.started + 1 \in Nat
          /\ TRUE \in BOOLEAN /\ FALSE \in BOOLEAN
      BY <1>5
    <3>2. published' = [published EXCEPT !.started = published.started + 1, !.inMatch = TRUE,
                                         !.ended = FALSE, !.recent = <<>>, !.dead = {}]
      BY <1>6, Zenon DEF OnMatchStart
    <3>3. /\ published' \in Published /\ published'.started = published.started + 1
          /\ published'.inMatch = TRUE /\ published'.ended = FALSE /\ published'.recent = <<>>
      BY <1>4, <3>1, <3>2, PublishedAtStart, ZenonT(60)
    <3>4. QED
      BY <3>3
  <2>2. Starts(message)
    BY <1>6, <2>1 DEF Starts
  <2>3. PendingFits'
    BY <1>4, <1>6 DEF PendingFits
  <2>4. QED
    BY <1>1, <1>3, <1>4, <1>6, <2>1, <2>2, <2>3, Zenon
<1>7. CASE message.kind = "end" /\ OnMatchEnd(message) /\ UNCHANGED pending
  <2>1. /\ published' \in Published /\ published'.started = published.started
        /\ ~published'.inMatch /\ published'.ended /\ published'.recent = <<>>
    <3>1. <<>> \in Seq(States) /\ TRUE \in BOOLEAN /\ FALSE \in BOOLEAN /\ {} \in SUBSET Entities
      OBVIOUS
    <3>2. published' = [published EXCEPT !.inMatch = FALSE, !.ended = TRUE, !.recent = <<>>]
      BY <1>7, Zenon DEF OnMatchEnd
    <3>3. /\ published' \in Published /\ published'.started = published.started
          /\ published'.inMatch = FALSE /\ published'.ended = TRUE /\ published'.recent = <<>>
      BY <1>4, <3>2, PublishedAtEnd, Zenon
    <3>4. QED
      BY <3>3
  <2>2. Ends(message)
    BY <1>7, <2>1 DEF Ends
  <2>3. PendingFits'
    BY <1>4, <1>7 DEF PendingFits
  <2>4. QED
    BY <1>1, <1>3, <1>4, <1>7, <2>1, <2>2, <2>3, Zenon
<1>8. CASE message.kind = "shot" /\ OnShot(message)
  <2>1. shot \in ShotEvents
    BY <1>3, <1>5, <1>8, MessageKinds DEF ShotEvents, ShotOf
  <2>2. /\ keptShots \in Seq(ShotEvents) /\ Len(keptShots) <= PendingKept
        /\ Embeds(keptShots, Append(pending.shots, shot))
    <3>. HIDE DEF shot
    <3>. QED
      BY <1>4, <2>1, KeptEvents
  <2>3. published' = published /\ (pending' = pending \/ (published.inMatch /\ pending' = [pending EXCEPT !.shots = keptShots]))
    BY <1>8, Zenon DEF OnShot, ShotOf
  <2>. HIDE DEF keptShots, shot
  <2>4. pending' = pending \/ (/\ published.inMatch /\ pending'.shots = keptShots /\ pending'.deaths = pending.deaths
                               /\ pending' \in [shots : Seq(ShotEvents), deaths : Seq(DeathEvents)])
    BY <1>4, <2>2, <2>3
  <2>5. KeepsShot(message)
    BY <1>8, <2>1, <2>2, <2>3, <2>4, Zenon DEF KeepsShot, shot
  <2>6. PendingFits'
    BY <1>4, <2>2, <2>4 DEF PendingFits
  <2>7. pending' \in [shots : Seq(ShotEvents), deaths : Seq(DeathEvents)]
    BY <1>4, <2>4, Zenon
  <2>8. QED
    BY <1>1, <1>3, <1>4, <2>3, <2>5, <2>6, <2>7, Zenon
<1>9. CASE message.kind = "death" /\ OnDeath(message)
  <2>1. death \in DeathEvents /\ Entity(message.match, message.victim) \in Entities
    BY <1>3, <1>5, <1>9, MessageKinds DEF DeathEvents, DeathOf, Entity, Entities, Matches
  <2>2. /\ keptDeaths \in Seq(DeathEvents) /\ Len(keptDeaths) <= PendingKept
        /\ Embeds(keptDeaths, Append(pending.deaths, death))
    <3>. HIDE DEF death
    <3>. QED
      BY <1>4, <2>1, KeptEvents
  <2>. DEFINE victim == Entity(message.match, message.victim)
  <2>3. \/ published' = published /\ pending' = pending
        \/ /\ published.inMatch /\ pending' = [pending EXCEPT !.deaths = keptDeaths]
           /\ published' = [published EXCEPT !.dead = @ \cup {victim}]
    BY <1>9, Zenon DEF OnDeath, DeathOf
  <2>. HIDE DEF keptDeaths, death, victim
  <2>4. pending' = pending \/ (/\ published.inMatch /\ pending'.deaths = keptDeaths /\ pending'.shots = pending.shots
                               /\ pending' \in [shots : Seq(ShotEvents), deaths : Seq(DeathEvents)])
    BY <1>4, <2>2, <2>3
  <2>5. /\ published' \in Published
        /\ published'.started = published.started /\ published'.inMatch = published.inMatch
        /\ published'.ended = published.ended /\ published'.recent = published.recent
    <3>1. victim \in Entities
      BY <2>1 DEF victim
    <3>2. QED
      BY <1>4, <2>3, <3>1 DEF Published
  <2>6. KeepsDeath(message)
    BY <1>9, <2>1, <2>2, <2>4, <2>5, Zenon DEF KeepsDeath, death
  <2>7. PendingFits'
    BY <1>4, <2>2, <2>4 DEF PendingFits
  <2>8. pending' \in [shots : Seq(ShotEvents), deaths : Seq(DeathEvents)]
    BY <1>4, <2>4, Zenon
  <2>9. QED
    BY <1>1, <1>3, <2>5, <2>6, <2>7, <2>8, Zenon
<1>10. QED
  BY <1>1, <1>6, <1>7, <1>8, <1>9, Zenon

(* What the Inbox keeps of the states told, the newest of them.            *)
LEMMA StateIsKept ==
  ASSUME NEW recent \in Seq(States), NEW state \in States, Len(recent) <= RecentStatesKept
  PROVE  LET kept == KeepState(recent, state) IN
         /\ kept \in Seq(States) /\ kept # <<>> /\ Len(kept) <= RecentStatesKept
         /\ Embeds(kept, Append(recent, state))
<1>. DEFINE whole == Append(recent, state)
            kept == KeepState(recent, state)
<1>1. whole \in Seq(States) /\ Len(whole) = Len(recent) + 1 /\ DOMAIN whole = 1 .. Len(recent) + 1
      /\ Len(recent) \in Nat /\ whole # <<>>
  OBVIOUS
<1>2. CASE Len(recent) = RecentStatesKept
  <2>0. kept = Append(Tail(recent), state) /\ recent # <<>>
    BY <1>2, Bounds DEF KeepState
  <2>1. kept \in Seq(States) /\ Len(kept) = Len(recent) /\ DOMAIN kept = 1 .. Len(recent)
        /\ \A i \in 1 .. Len(recent) : kept[i] = whole[i + 1] /\ i + 1 \in 1 .. Len(recent) + 1
    BY <2>0
  <2>. HIDE DEF whole, kept
  <2>. DEFINE from == [i \in DOMAIN kept |-> i + 1]
  <2>2. from \in [DOMAIN kept -> DOMAIN whole] /\ (\A k \in DOMAIN kept : kept[k] = whole[from[k]])
        /\ \A k, l \in DOMAIN kept : k < l => from[k] < from[l]
    BY <1>1, <2>1
  <2>3. Embeds(kept, whole)
    <3>. HIDE DEF from
    <3>. QED
      BY <2>2, Zenon DEF Embeds
  <2>4. kept # <<>>
    BY <1>2, <2>1, Bounds
  <2>5. QED
    BY <1>2, <2>1, <2>3, <2>4 DEF whole, kept
<1>3. CASE Len(recent) # RecentStatesKept
  <2>1. kept = whole
    BY <1>3 DEF KeepState
  <2>. HIDE DEF whole, kept
  <2>. DEFINE from == [i \in DOMAIN whole |-> i]
  <2>2. from \in [DOMAIN whole -> DOMAIN whole] /\ (\A k \in DOMAIN whole : whole[k] = whole[from[k]])
        /\ \A k, l \in DOMAIN whole : k < l => from[k] < from[l]
    BY <1>1
  <2>3. Embeds(whole, whole)
    <3>. HIDE DEF from
    <3>. QED
      BY <2>2, Zenon DEF Embeds
  <2>4. Len(recent) + 1 <= RecentStatesKept
    BY <1>1, <1>3, Bounds
  <2>5. QED
    BY <1>1, <2>1, <2>3, <2>4 DEF whole, kept
<1>4. QED
  BY <1>2, <1>3

(* What the Inbox makes of an Authoritative State, told whenever.          *)
LEMMA WhatArrives ==
  ASSUME ViewTyped, Len(published.recent) <= RecentStatesKept, ReceiveState
  PROVE  /\ UNCHANGED <<truth, reliable, told, pending, frame, converted, shown, handed>>
         /\ published' \in Published
         /\ published'.started = published.started /\ published'.inMatch = published.inMatch
         /\ published'.ended = published.ended
         /\ published.inMatch
         /\ published'.recent # <<>> /\ Len(published'.recent) <= RecentStatesKept
         /\ \E state \in told :
              /\ state.bodies # {} => state.match = published.started
              /\ published.recent # <<>> => state.tick > published.recent[Len(published.recent)].tick
              /\ Embeds(published'.recent, Append(published.recent, state))
<1>1. PICK state \in told : OnAuthoritativeState(state)
  BY DEF ReceiveState
<1>2. /\ published.inMatch
      /\ state.bodies # {} => state.match = published.started
      /\ published.recent # <<>> => state.tick > Last(published.recent).tick
  BY <1>1, Zenon DEF OnAuthoritativeState
<1>. DEFINE kept == KeepState(published.recent, state)
<1>3. published' = [published EXCEPT !.recent = kept]
  BY <1>1, Zenon DEF OnAuthoritativeState
<1>4. published \in Published /\ state \in States /\ published.recent \in Seq(States)
  BY DEF ViewTyped, Published
<1>5. /\ kept \in Seq(States) /\ kept # <<>> /\ Len(kept) <= RecentStatesKept
      /\ Embeds(kept, Append(published.recent, state))
  BY <1>4, StateIsKept, Zenon
<1>. HIDE DEF kept
<1>6. /\ published' \in Published /\ published'.started = published.started
      /\ published'.inMatch = published.inMatch
      /\ published'.ended = published.ended /\ published'.recent = kept
  BY <1>3, <1>4, <1>5, PublishedWithState, Zenon
<1>7. UNCHANGED <<truth, reliable, told, pending, frame, converted, shown, handed>>
  BY Zenon DEF ReceiveState
<1>8. QED
  BY <1>2, <1>5, <1>6, <1>7, Zenon DEF Last

-----------------------------------------------------------------------------
(* What a frame takes and is handed of the kept shots.                     *)
HandedShots == [i \in DOMAIN Taken(pending.shots, frame.match) |->
                  [of |-> Taken(pending.shots, frame.match)[i].of, to |-> frame.match]]

TakenShots ==
  [shots : Seq([of : Matches \X Nat, to : Nat]), deaths : Seq(Entities), ends : Seq(Nat)]

(* The Shots a frame is handed are kept ones of its match, in order.       *)
LEMMA ShotsHanded ==
  ASSUME ViewTyped, frame.open
  PROVE  /\ HandedShots \in Seq([of : Matches \X Nat, to : Nat])
         /\ \E from \in [DOMAIN HandedShots -> DOMAIN pending.shots] :
              /\ \A k \in DOMAIN HandedShots :
                   /\ HandedShots[k] = [of |-> pending.shots[from[k]].of, to |-> frame.match]
                   /\ pending.shots[from[k]].match = frame.match
              /\ \A k, l \in DOMAIN HandedShots : k < l => from[k] < from[l]
<1>. DEFINE s == pending.shots
            positions == {i \in DOMAIN s : s[i].match = frame.match}
            kept == Subsequence(s, positions)
            Shots == [of : Matches \X Nat, to : Nat]
            given == [i \in DOMAIN kept |-> [of |-> kept[i].of, to |-> frame.match]]
<1>0. s \in Seq(ShotEvents) /\ frame.match \in Nat
  <2>1. frame \in Reads
    BY DEF ViewTyped, NoFrame
  <2>2. QED
    BY <2>1, Bounds DEF ViewTyped, Reads
<1>1. HandedShots = given
  BY Zenon DEF HandedShots, Taken
<1>2. positions \in SUBSET DOMAIN s /\ \A i \in positions : s[i].match = frame.match
  OBVIOUS
<1>. HIDE DEF positions, s
<1>3. /\ kept \in Seq(ShotEvents)
      /\ \E from \in [DOMAIN kept -> positions] :
              /\ \A k \in DOMAIN kept : kept[k] = s[from[k]]
              /\ \A k, l \in DOMAIN kept : k < l => from[k] < from[l]
  BY <1>0, <1>2, KeptInOrder
<1>. HIDE DEF kept
<1>4. PICK from \in [DOMAIN kept -> positions] :
              /\ \A k \in DOMAIN kept : kept[k] = s[from[k]]
              /\ \A k, l \in DOMAIN kept : k < l => from[k] < from[l]
  BY <1>3
<1>5. DOMAIN kept = 1 .. Len(kept) /\ Len(kept) \in Nat /\ \A i \in DOMAIN kept : kept[i] \in ShotEvents
  BY <1>3
<1>6. \A i \in DOMAIN kept : [of |-> kept[i].of, to |-> frame.match] \in Shots
  BY <1>0, <1>5 DEF ShotEvents
<1>7. given \in [1 .. Len(kept) -> Shots] /\ DOMAIN given = DOMAIN kept
      /\ \A i \in DOMAIN kept : given[i] = [of |-> kept[i].of, to |-> frame.match]
  BY <1>5, <1>6
<1>. HIDE DEF given, Shots
<1>8. given \in Seq(Shots)
  BY <1>5, <1>7
<1>9. from \in [DOMAIN given -> DOMAIN s]
  BY <1>2, <1>4, <1>7
<1>10. \A k \in DOMAIN given : given[k] = [of |-> s[from[k]].of, to |-> frame.match]
                               /\ s[from[k]].match = frame.match
  BY <1>2, <1>4, <1>7
<1>11. \A k, l \in DOMAIN given : k < l => from[k] < from[l]
  BY <1>4, <1>7
<1>12. QED
  BY <1>1, <1>8, <1>9, <1>10, <1>11 DEF s, Shots

(* What is left when a frame has taken its events is of later matches.     *)
LEMMA LaterLeft ==
  ASSUME NEW T, NEW events \in Seq(T), NEW match
  PROVE  LET left == Left(events, match) IN
         /\ left \in Seq(T) /\ Len(left) <= Len(events) /\ Embeds(left, events)
         /\ \A i \in DOMAIN left : left[i].match > match
<1>. DEFINE positions == {i \in DOMAIN events : events[i].match > match}
            left == Subsequence(events, positions)
<1>1. \A i \in positions : events[i].match > match
  OBVIOUS
<1>. HIDE DEF positions
<1>2. \E from \in [DOMAIN left -> positions] : \A k \in DOMAIN left : left[k] = events[from[k]]
  <2>1. positions \in SUBSET DOMAIN events
    BY DEF positions
  <2>2. QED
    BY <2>1, KeptInOrder
<1>. HIDE DEF left
<1>3. \A i \in DOMAIN left : left[i].match > match
  BY <1>1, <1>2
<1>4. left = Left(events, match)
  BY Zenon DEF left, positions, Left
<1>5. QED
  BY <1>3, <1>4, EventsLeft

(* What a frame is handed, and what it leaves (Session::TakeShots).        *)
LEMMA WhatIsHanded ==
  ASSUME ViewTyped, PendingFits, frame.open,
         NEW elapsed, NEW caught, NEW fire, FrameRuns(elapsed, caught, fire)
  PROVE  /\ pending' \in [shots : Seq(ShotEvents), deaths : Seq(DeathEvents)]
         /\ PendingFits'
         /\ Embeds(pending'.shots, pending.shots) /\ Embeds(pending'.deaths, pending.deaths)
         /\ \A i \in DOMAIN pending'.shots : pending'.shots[i].match > frame.match
         /\ \A i \in DOMAIN pending'.deaths : pending'.deaths[i].match > frame.match
         /\ handed' = [shots |-> handed.shots \o HandedShots, deaths |-> handed.deaths \o DeathsHanded,
                       ends |-> handed.ends \o Stingers]
         /\ handed' \in TakenShots
         /\ Stingers \in Seq(Nat)
         /\ frame' = NoFrame
<1>. DEFINE shots == Left(pending.shots, frame.match)
            deaths == Left(pending.deaths, frame.match)
<1>1. /\ pending' = [shots |-> shots, deaths |-> deaths]
      /\ frame' = NoFrame
      /\ handed' = [shots |-> handed.shots \o HandedShots, deaths |-> handed.deaths \o DeathsHanded,
                    ends |-> handed.ends \o Stingers]
  BY Zenon DEF FrameRuns, HandedShots, DeathsHanded
<1>2. /\ pending.shots \in Seq(ShotEvents) /\ pending.deaths \in Seq(DeathEvents)
      /\ handed.shots \in Seq([of : Matches \X Nat, to : Nat]) /\ handed.deaths \in Seq(Entities)
      /\ handed.ends \in Seq(Nat)
  BY DEF ViewTyped
<1>3. /\ shots \in Seq(ShotEvents) /\ Len(shots) <= Len(pending.shots) /\ Embeds(shots, pending.shots)
      /\ \A i \in DOMAIN shots : shots[i].match > frame.match
  BY <1>2, LaterLeft
<1>4. /\ deaths \in Seq(DeathEvents) /\ Len(deaths) <= Len(pending.deaths) /\ Embeds(deaths, pending.deaths)
      /\ \A i \in DOMAIN deaths : deaths[i].match > frame.match
  BY <1>2, LaterLeft
<1>. HIDE DEF shots, deaths
<1>5. pending'.shots = shots /\ pending'.deaths = deaths
      /\ pending' \in [shots : Seq(ShotEvents), deaths : Seq(DeathEvents)]
  BY <1>1, <1>3, <1>4
<1>6. PendingFits'
  <2>1. Len(shots) \in Nat /\ Len(deaths) \in Nat /\ Len(pending.shots) \in Nat /\ Len(pending.deaths) \in Nat
    BY <1>2, <1>3, <1>4
  <2>2. QED
    BY <1>3, <1>4, <1>5, <2>1, Bounds DEF PendingFits
<1>7. frame.match \in Nat
  <2>1. frame \in Reads
    BY DEF ViewTyped, NoFrame
  <2>2. QED
    BY <2>1, Bounds DEF Reads
<1>8. Stingers \in Seq(Nat)
  BY <1>7 DEF Stingers
<1>9. handed' \in TakenShots
  <2>. DEFINE S == [of : Matches \X Nat, to : Nat]
              ss == handed.shots \o HandedShots
              dd == handed.deaths \o DeathsHanded
              ee == handed.ends \o Stingers
  <2>1. HandedShots \in Seq(S) /\ DeathsHanded \in Seq(Entities)
    BY ShotsHanded, HandedDeaths, Zenon
  <2>2. ss \in Seq(S) /\ dd \in Seq(Entities) /\ ee \in Seq(Nat)
    <3>. HIDE DEF S
    <3>. QED
      BY <1>2, <1>8, <2>1 DEF S
  <2>3. handed' = [shots |-> ss, deaths |-> dd, ends |-> ee]
    BY <1>1, Zenon
  <2>. HIDE DEF S, ss, dd, ee
  <2>4. handed' \in [shots : Seq(S), deaths : Seq(Entities), ends : Seq(Nat)]
    BY <2>2, <2>3
  <2>5. QED
    BY <2>4, Zenon DEF TakenShots, S
<1>10. QED
  BY <1>1, <1>3, <1>4, <1>5, <1>6, <1>8, <1>9, Zenon

ToldInLine ==
  /\ truth.on => truth.match >= 1 /\ Cardinality(truth.alive) >= 2
  /\ \A s \in told :
       /\ s.bodies # {} /\ s.tick <= truth.tick /\ s.match <= truth.match
       /\ s.match = truth.match => truth.alive \subseteq s.bodies
  /\ \A s, t \in told :
       /\ s.match < t.match => s.tick < t.tick
       /\ s.match = t.match /\ s.tick < t.tick => t.bodies \subseteq s.bodies

RecentInLine ==
  /\ ~published.inMatch => published.recent = <<>>
  /\ Len(published.recent) <= RecentStatesKept
  /\ \A i \in DOMAIN published.recent :
       published.recent[i] \in told /\ published.recent[i].match = published.started
  /\ RecentRise

UpdatesInLine ==
  /\ \A i \in DOMAIN converted.updates :
       converted.updates[i] \in told /\ converted.updates[i].match = converted.match
  /\ UpdatesRise

ShownKeepsUp == shown.last # Nothing => KeepsUp(shown)

Base == ViewTyped /\ PendingFits /\ ToldInLine /\ RecentInLine /\ UpdatesInLine /\ ShownKeepsUp

-----------------------------------------------------------------------------
LEMMA BaseInitially == ViewInit => Base
<1>. SUFFICES ASSUME ViewInit PROVE Base
  OBVIOUS
<1>1. /\ truth = [match |-> 0, on |-> FALSE, tick |-> 0, alive |-> {}, shots |-> 0]
      /\ reliable = <<>> /\ told = {}
      /\ published = [started |-> 0, inMatch |-> FALSE, ended |-> FALSE, recent |-> <<>>, dead |-> {}]
      /\ pending = [shots |-> <<>>, deaths |-> <<>>]
      /\ frame = NoFrame
      /\ converted = [match |-> 0, updates |-> <<>>]
      /\ handed = [shots |-> <<>>, deaths |-> <<>>, ends |-> <<>>]
  BY DEF ViewInit
<1>2. LastMatch \in Nat
  BY Bounds
<1>3. truth \in [match : 0 .. LastMatch, on : BOOLEAN, tick : Nat, alive : SUBSET ViewPlayers, shots : Nat]
  BY <1>1, <1>2
<1>4. published \in Published /\ pending \in [shots : Seq(ShotEvents), deaths : Seq(DeathEvents)]
      /\ reliable \in Seq(Messages) /\ converted \in [match : Nat, updates : Seq(States)]
  BY <1>1 DEF Published
<1>5. handed \in [shots : Seq([of : Matches \X Nat, to : Nat]), deaths : Seq(Entities), ends : Seq(Nat)]
  BY <1>1
<1>6. shown \in Worlds /\ shown.last = Nothing
  <2>1. <<>> \in OfEntities(Seq(Nat) \ {<<>>}) /\ <<>> \in OfEntities(Int)
    BY EmptyIsOfEntities
  <2>2. Nothing \in Optional(Nat) /\ Nothing \in Optional(Int) /\ Nothing \in Optional(Entities)
    BY DEF Optional
  <2>3. NoClock \in [now : Optional(Int), behind : Int]
    BY <2>2 DEF NoClock
  <2>4. shown = [clock |-> NoClock, first |-> Nothing, last |-> Nothing, bodies |-> <<>>, dead |-> {},
              remote |-> <<>>, seen |-> Nothing, spectating |-> FALSE, watched |-> Nothing,
              firing |-> FALSE, endHeard |-> FALSE, match |-> 0, on |-> FALSE, early |-> {}, stalled |-> FALSE]
    BY Zenon DEF ViewInit
  <2>5. 0 \in 0 .. LastMatch /\ {} \in SUBSET Entities /\ FALSE \in BOOLEAN
    BY <1>2
  <2>6. QED
    BY <2>1, <2>2, <2>3, <2>4, <2>5, Zenon DEF Worlds
<1>7. ViewTyped
  BY <1>1, <1>3, <1>4, <1>5, <1>6, Zenon DEF ViewTyped
<1>8. PendingFits /\ ToldInLine /\ RecentInLine /\ UpdatesInLine /\ ShownKeepsUp
  <2>1. PendingFits
    BY <1>1, Bounds DEF PendingFits
  <2>2. ToldInLine
    BY <1>1 DEF ToldInLine
  <2>3. RecentInLine
    BY <1>1, Bounds DEF RecentInLine, RecentRise
  <2>4. UpdatesInLine
    BY <1>1 DEF UpdatesInLine, UpdatesRise
  <2>5. ShownKeepsUp
    BY <1>6 DEF ShownKeepsUp
  <2>6. QED
    BY <2>1, <2>2, <2>3, <2>4, <2>5
<1>9. QED
  BY <1>7, <1>8 DEF Base

LEMMA TruthAtStart ==
  ASSUME NEW t \in Truths, NEW n \in 0 .. LastMatch
  PROVE  LET next == [t EXCEPT !.match = n, !.on = TRUE, !.alive = ViewPlayers] IN
         /\ next.match = n /\ next.tick = t.tick /\ next.alive = ViewPlayers /\ next.shots = t.shots
         /\ next.on = TRUE /\ next \in Truths
<1>1. TRUE \in BOOLEAN /\ ViewPlayers \in SUBSET ViewPlayers
  OBVIOUS
<1>2. QED
  BY <1>1, Zenon DEF Truths

LEMMA BaseAtStart == Base /\ ServerStart => Base'
<1>. SUFFICES ASSUME Base, ServerStart PROVE Base'
  OBVIOUS
<1>. USE DEF Base
<1>1. /\ ~truth.on /\ truth.match < LastMatch
      /\ truth' = [truth EXCEPT !.match = @ + 1, !.on = TRUE, !.alive = ViewPlayers]
      /\ reliable' = reliable \o <<[kind |-> "start", match |-> truth.match + 1]>>
      /\ UNCHANGED <<told, published, pending, frame, converted, shown, handed>>
  BY Zenon DEF ServerStart, Tell
<1>2. /\ truth \in [match : 0 .. LastMatch, on : BOOLEAN, tick : Nat, alive : SUBSET ViewPlayers, shots : Nat]
      /\ reliable \in Seq(Messages)
  BY DEF ViewTyped
<1>3. truth' \in [match : 0 .. LastMatch, on : BOOLEAN, tick : Nat, alive : SUBSET ViewPlayers, shots : Nat]
      /\ truth'.match = truth.match + 1 /\ truth'.alive = ViewPlayers /\ truth'.tick = truth.tick
  <2>1. truth.match + 1 \in 0 .. LastMatch
    BY <1>1, <1>2, Bounds
  <2>2. truth' = [truth EXCEPT !.match = truth.match + 1, !.on = TRUE, !.alive = ViewPlayers]
    BY <1>1, Zenon
  <2>3. QED
    BY <1>2, <2>1, <2>2, TruthAtStart, Zenon DEF Truths
<1>4. [kind |-> "start", match |-> truth.match + 1] \in Messages
  BY <1>1, <1>2, Bounds DEF Messages, Matches
<1>5. reliable' \in Seq(Messages)
  <2>. DEFINE m == [kind |-> "start", match |-> truth.match + 1]
  <2>. HIDE DEF m
  <2>1. m \in Messages
    BY <1>4 DEF m
  <2>2. reliable' = reliable \o <<m>>
    BY <1>1 DEF m
  <2>3. QED
    BY <1>2, <2>1, <2>2
<1>6. ViewTyped'
  BY <1>1, <1>3, <1>5, Zenon DEF ViewTyped
<1>7. ToldInLine'
  <2>1. truth'.match >= 1 /\ Cardinality(truth'.alive) >= 2
    BY <1>2, <1>3, ViewPlayersAreFinite
  <2>2. \A s \in told : s.match <= truth.match /\ s.tick <= truth.tick /\ s.bodies # {} /\ s \in States
    BY DEF ToldInLine, ViewTyped
  <2>3. \A s \in told : s.tick <= truth'.tick /\ s.match <= truth'.match /\ s.match # truth'.match
    BY <1>2, <1>3, <2>2 DEF States, Matches
  <2>4. QED
    BY <1>1, <2>1, <2>2, <2>3 DEF ToldInLine
<1>8. PendingFits' /\ RecentInLine' /\ UpdatesInLine' /\ ShownKeepsUp'
  <2>1. PendingFits'
    BY <1>1 DEF PendingFits
  <2>2. RecentInLine'
    BY <1>1 DEF RecentInLine, RecentRise
  <2>3. UpdatesInLine'
    BY <1>1 DEF UpdatesInLine, UpdatesRise
  <2>4. ShownKeepsUp'
    BY <1>1 DEF ShownKeepsUp, KeepsUp
  <2>5. QED
    BY <2>1, <2>2, <2>3, <2>4
<1>9. QED
  BY <1>6, <1>7, <1>8

(* States are told in tick order, each of no one gone before.              *)
LEMMA BaseAtTick == Base /\ ServerTicks => Base'
<1>. SUFFICES ASSUME Base, ServerTicks PROVE Base'
  OBVIOUS
<1>. USE DEF Base
<1>1. truth \in Truths /\ reliable \in Seq(Messages) /\ told \subseteq States
  BY DEF ViewTyped, Truths
<1>2. truth.on
  BY Zenon DEF ServerTicks
<1>3. truth.match \in Matches /\ Cardinality(truth.alive) >= 2
  BY <1>1, <1>2, Bounds DEF ToldInLine, Truths, Matches
<1>4. /\ \E messages, left : TickTells(messages, left)
      /\ UNCHANGED <<published, pending, frame, converted, shown, handed>>
  BY <1>3, WhatATickTells
<1>5. PICK messages, left : TickTells(messages, left)
  BY <1>4
<1>. DEFINE state == [tick |-> truth.tick + 1, match |-> truth.match, bodies |-> left]
<1>6. /\ reliable' = reliable \o messages /\ messages \in Seq(Messages)
      /\ left \subseteq truth.alive /\ left # {}
      /\ truth'.match = truth.match /\ truth'.tick = truth.tick + 1 /\ truth'.alive = left
      /\ truth'.on = ~(Cardinality(left) <= 1) /\ truth' \in Truths
      /\ told' = told \cup {state}
  BY <1>3, <1>5, Zenon DEF TickTells, Truths
<1>7. state \in States
  BY <1>1, <1>3, <1>6 DEF States, Truths
<1>8. reliable' \in Seq(Messages) /\ told' \subseteq States
  BY <1>1, <1>6, <1>7
<1>9. ViewTyped'
  BY <1>4, <1>6, <1>8, Zenon DEF ViewTyped, Truths
<1>10. ToldInLine'
  <2>1. ASSUME truth'.on PROVE truth'.match >= 1 /\ Cardinality(truth'.alive) >= 2
    <3>1. left \subseteq ViewPlayers
      BY <1>1, <1>6 DEF Truths
    <3>2. Cardinality(left) \in Nat
      BY <3>1, ViewPlayersAreFinite, FS_Subset, FS_CardinalityType
    <3>3. ~(Cardinality(left) <= 1)
      BY <1>6, <2>1, Zenon
    <3>4. QED
      BY <1>3, <1>6, <3>2, <3>3 DEF Matches
  <2>2. ASSUME NEW s \in told
        PROVE /\ s.bodies # {} /\ s.tick <= truth.tick /\ s.match <= truth.match
              /\ s.match = truth.match => truth.alive \subseteq s.bodies
              /\ s.tick \in Nat /\ s.match \in Nat
    BY <1>1 DEF ToldInLine, States, Matches
  <2>3. state.bodies # {} /\ state.tick = truth.tick + 1 /\ state.match = truth.match /\ state.bodies = left
    BY <1>6
  <2>4. truth.tick \in Nat /\ truth.match \in Nat
    BY <1>1 DEF Truths
  <2>. HIDE DEF state
  <2>5. ASSUME NEW s \in told'
        PROVE /\ s.bodies # {} /\ s.tick <= truth'.tick /\ s.match <= truth'.match
              /\ s.match = truth'.match => truth'.alive \subseteq s.bodies
    <3>1. CASE s \in told
      BY <1>6, <2>2, <2>4, <3>1
    <3>2. CASE s = state
      BY <1>6, <2>3, <2>4, <3>2
    <3>3. QED
      BY <1>6, <3>1, <3>2
  <2>6. ASSUME NEW s \in told', NEW t \in told'
        PROVE /\ s.match < t.match => s.tick < t.tick
              /\ s.match = t.match /\ s.tick < t.tick => t.bodies \subseteq s.bodies
    <3>1. CASE s \in told /\ t \in told
      BY <3>1 DEF ToldInLine
    <3>2. CASE s \in told /\ t = state
      BY <1>6, <2>2, <2>3, <2>4, <3>2
    <3>3. CASE s = state /\ t \in told
      BY <1>6, <2>2, <2>3, <2>4, <3>3
    <3>4. CASE s = state /\ t = state
      BY <2>3, <2>4, <3>4
    <3>5. QED
      BY <1>6, <3>1, <3>2, <3>3, <3>4
  <2>7. QED
    BY <2>1, <2>5, <2>6, Zenon DEF ToldInLine
<1>11. PendingFits' /\ RecentInLine' /\ UpdatesInLine' /\ ShownKeepsUp'
  <2>0. told \subseteq told'
    BY <1>6
  <2>1. PendingFits'
    BY <1>4 DEF PendingFits
  <2>2. RecentInLine'
    BY <1>4, <2>0 DEF RecentInLine, RecentRise
  <2>3. UpdatesInLine'
    BY <1>4, <2>0 DEF UpdatesInLine, UpdatesRise
  <2>4. ShownKeepsUp'
    BY <1>4 DEF ShownKeepsUp, KeepsUp
  <2>5. QED
    BY <2>1, <2>2, <2>3, <2>4
<1>12. QED
  BY <1>9, <1>10, <1>11

(* A new match or an ended one has no states, whatever was kept.           *)
LEMMA BaseAtReceipt == Base /\ ReceiveReliable => Base'
<1>. SUFFICES ASSUME Base, ReceiveReliable PROVE Base'
  OBVIOUS
<1>1. /\ reliable' \in Seq(Messages)
      /\ UNCHANGED <<truth, told, frame, converted, shown, handed>>
      /\ published' \in Published
      /\ pending' \in [shots : Seq(ShotEvents), deaths : Seq(DeathEvents)]
      /\ PendingFits'
      /\ \/ Starts(reliable[1]) \/ Ends(reliable[1]) \/ KeepsShot(reliable[1]) \/ KeepsDeath(reliable[1])
  BY WhatIsReceived, Zenon DEF Base
<1>2. ViewTyped'
  BY <1>1, Zenon DEF Base, ViewTyped
<1>3. \/ published'.recent = <<>>
      \/ published'.recent = published.recent /\ published'.inMatch = published.inMatch
         /\ published'.started = published.started
  BY <1>1, Zenon DEF Starts, Ends, KeepsShot, KeepsDeath
<1>4. RecentInLine'
  BY <1>1, <1>3, Bounds DEF Base, RecentInLine, RecentRise
<1>5. ToldInLine' /\ UpdatesInLine' /\ ShownKeepsUp'
  <2>1. ToldInLine'
    BY <1>1 DEF Base, ToldInLine
  <2>2. UpdatesInLine'
    BY <1>1 DEF Base, UpdatesInLine, UpdatesRise
  <2>3. ShownKeepsUp'
    BY <1>1 DEF Base, ShownKeepsUp, KeepsUp
  <2>4. QED
    BY <2>1, <2>2, <2>3
<1>6. QED
  BY <1>1, <1>2, <1>4, <1>5 DEF Base

(* A state kept is newer than those kept, and of the same match.           *)
LEMMA BaseAtArrival == Base /\ ReceiveState => Base'
<1>. SUFFICES ASSUME Base, ReceiveState PROVE Base'
  OBVIOUS
<1>1. Len(published.recent) <= RecentStatesKept
  BY DEF Base, RecentInLine
<1>2. /\ UNCHANGED <<truth, reliable, told, pending, frame, converted, shown, handed>>
      /\ published' \in Published
      /\ published'.started = published.started /\ published'.inMatch = published.inMatch
      /\ published.inMatch
      /\ Len(published'.recent) <= RecentStatesKept
      /\ \E state \in told :
              /\ state.bodies # {} => state.match = published.started
              /\ published.recent # <<>> => state.tick > published.recent[Len(published.recent)].tick
              /\ Embeds(published'.recent, Append(published.recent, state))
  BY <1>1, WhatArrives, Zenon DEF Base
<1>. DEFINE recent == published.recent
            kept == published'.recent
<1>3. PICK state \in told :
              /\ state.bodies # {} => state.match = published.started
              /\ recent # <<>> => state.tick > recent[Len(recent)].tick
              /\ Embeds(kept, Append(recent, state))
  BY <1>2
<1>. DEFINE whole == Append(recent, state)
<1>4. recent \in Seq(States) /\ state \in States /\ kept \in Seq(States)
  BY <1>2 DEF Base, ViewTyped, Published
<1>5. state.match = published.started
  BY <1>3 DEF Base, ToldInLine
<1>6. /\ \A i \in DOMAIN recent : recent[i] \in told /\ recent[i].match = published.started
      /\ \A i, j \in DOMAIN recent : i < j => recent[i].tick < recent[j].tick
  BY DEF Base, RecentInLine, RecentRise
<1>7. /\ DOMAIN whole = 1 .. Len(recent) + 1 /\ Len(recent) \in Nat /\ DOMAIN recent = 1 .. Len(recent)
      /\ \A i \in 1 .. Len(recent) : whole[i] = recent[i]
      /\ whole[Len(recent) + 1] = state
      /\ whole \in Seq(States)
  BY <1>4
<1>. HIDE DEF whole, kept, recent
<1>8. \A i \in DOMAIN whole : whole[i] \in told /\ whole[i].match = published.started
  BY <1>5, <1>6, <1>7
<1>9. ASSUME NEW i \in DOMAIN whole, NEW j \in DOMAIN whole, i < j
      PROVE  whole[i].tick < whole[j].tick
  <2>1. i \in DOMAIN recent /\ whole[i] = recent[i]
    BY <1>7, <1>9
  <2>2. CASE j \in DOMAIN recent
    BY <1>6, <1>7, <1>9, <2>1, <2>2
  <2>3. CASE j = Len(recent) + 1
    <3>1. recent # <<>> /\ Len(recent) \in DOMAIN recent
      BY <1>7, <2>1
    <3>2. state.tick > recent[Len(recent)].tick
      BY <1>3, <3>1
    <3>3. i = Len(recent) \/ recent[i].tick < recent[Len(recent)].tick
      BY <1>6, <1>7, <2>1, <3>1
    <3>4. recent[i].tick \in Nat /\ recent[Len(recent)].tick \in Nat /\ state.tick \in Nat
      <4>1. recent[i] \in States /\ recent[Len(recent)] \in States
        BY <1>4, <2>1, <3>1
      <4>2. QED
        BY <1>4, <4>1 DEF States
    <3>5. QED
      BY <1>7, <2>1, <2>3, <3>2, <3>3, <3>4
  <2>4. QED
    BY <1>7, <2>2, <2>3
<1>10. PICK from \in [DOMAIN kept -> DOMAIN whole] :
    /\ \A k \in DOMAIN kept : kept[k] = whole[from[k]]
    /\ \A k, l \in DOMAIN kept : k < l => from[k] < from[l]
  BY <1>3, Zenon DEF Embeds, whole
<1>11. /\ \A i \in DOMAIN kept : kept[i] \in told /\ kept[i].match = published.started
       /\ \A i, j \in DOMAIN kept : i < j => kept[i].tick < kept[j].tick
  BY <1>8, <1>9, <1>10
<1>12. RecentInLine'
  <2>1. RecentRise'
    BY <1>11 DEF RecentRise, kept
  <2>2. \A i \in DOMAIN published'.recent :
          published'.recent[i] \in told' /\ published'.recent[i].match = published'.started
    BY <1>2, <1>11 DEF kept
  <2>3. QED
    BY <1>2, <2>1, <2>2, Zenon DEF RecentInLine
<1>13. ViewTyped'
  BY <1>2, Zenon DEF Base, ViewTyped
<1>14. PendingFits' /\ ToldInLine' /\ UpdatesInLine' /\ ShownKeepsUp'
  <2>0. PendingFits'
    BY <1>2 DEF Base, PendingFits
  <2>1. ToldInLine'
    BY <1>2 DEF Base, ToldInLine
  <2>2. UpdatesInLine'
    BY <1>2 DEF Base, UpdatesInLine, UpdatesRise
  <2>3. ShownKeepsUp'
    BY <1>2 DEF Base, ShownKeepsUp, KeepsUp
  <2>4. QED
    BY <2>0, <2>1, <2>2, <2>3
<1>15. QED
  BY <1>12, <1>13, <1>14 DEF Base

(* What a frame reads.                                                     *)
LEMMA WhatIsRead ==
  ASSUME Base, FrameBegins, published.started <= LastMatch
  PROVE  /\ ~frame.open
         /\ converted' = [match |-> published.started, updates |-> UpdatesOf(published)]
         /\ frame' = [open |-> TRUE, match |-> published.started, ended |-> published.ended,
                      on |-> published.inMatch]
         /\ UNCHANGED <<truth, reliable, told, published, pending, shown, handed>>
         /\ converted'.updates \in Seq(States) /\ UpdatesInLine'
         /\ converted'.updates = <<>> <=> published.recent = <<>>
<1>1. /\ ~frame.open
      /\ converted' = [match |-> published.started, updates |-> UpdatesOf(published)]
      /\ frame' = [open |-> TRUE, match |-> published.started, ended |-> published.ended,
                   on |-> published.inMatch]
      /\ UNCHANGED <<truth, reliable, told, published, pending, shown, handed>>
  BY Zenon DEF FrameBegins
<1>. DEFINE updates == UpdatesOf(published)
<1>2. converted'.match = published.started /\ converted'.updates = updates
  BY <1>1
<1>3. /\ published.recent \in Seq(States) /\ converted.updates \in Seq(States) /\ RecentRise /\ UpdatesRise
  BY DEF Base, ViewTyped, Published, RecentInLine, UpdatesInLine
<1>4. /\ updates \in Seq(States)
      /\ \A i, j \in DOMAIN updates : i < j => updates[i].tick < updates[j].tick
      /\ \A i \in DOMAIN updates :
              \/ \E j \in DOMAIN published.recent : updates[i] = published.recent[j]
              \/ published.started = converted.match
                 /\ \E j \in DOMAIN converted.updates : updates[i] = converted.updates[j]
      /\ updates = <<>> <=> published.recent = <<>>
  BY <1>3, UpdatesRead, Zenon
<1>. HIDE DEF updates
<1>5. /\ \A i \in DOMAIN published.recent :
            published.recent[i] \in told /\ published.recent[i].match = published.started
      /\ \A i \in DOMAIN converted.updates :
            converted.updates[i] \in told /\ converted.updates[i].match = converted.match
  BY DEF Base, RecentInLine, UpdatesInLine
<1>6. \A i \in DOMAIN updates : updates[i] \in told /\ updates[i].match = published.started
  BY <1>4, <1>5
<1>7. UpdatesInLine'
  <2>1. UpdatesRise'
    BY <1>2, <1>4 DEF UpdatesRise
  <2>2. told' = told
    BY <1>1
  <2>3. \A i \in DOMAIN converted'.updates :
           converted'.updates[i] \in told' /\ converted'.updates[i].match = converted'.match
    BY <1>2, <1>6, <2>2
  <2>4. QED
    BY <2>1, <2>3, Zenon DEF UpdatesInLine
<1>8. QED
  BY <1>1, <1>2, <1>4, <1>7, Zenon

(* A frame's updates are states of the match it reads.                     *)
LEMMA BaseAtBeginning == Base /\ FrameBegins /\ published.started <= LastMatch => Base'
<1>. SUFFICES ASSUME Base, FrameBegins, published.started <= LastMatch PROVE Base'
  OBVIOUS
<1>1. /\ converted' = [match |-> published.started, updates |-> UpdatesOf(published)]
      /\ frame' = [open |-> TRUE, match |-> published.started, ended |-> published.ended,
                   on |-> published.inMatch]
      /\ UNCHANGED <<truth, reliable, told, published, pending, shown, handed>>
      /\ converted'.updates \in Seq(States) /\ UpdatesInLine'
  BY WhatIsRead, Zenon
<1>2. published.started \in Nat /\ published.ended \in BOOLEAN /\ published.inMatch \in BOOLEAN
  BY DEF Base, ViewTyped, Published
<1>3. frame' \in Reads
  <2>1. published.started \in 0 .. LastMatch
    BY <1>2, Bounds
  <2>2. QED
    BY <1>1, <1>2, <2>1 DEF Reads
<1>4. converted' \in [match : Nat, updates : Seq(States)]
  <2>. DEFINE updates == UpdatesOf(published)
  <2>1. converted' = [match |-> published.started, updates |-> updates]
    BY <1>1, Zenon
  <2>. HIDE DEF updates
  <2>2. QED
    BY <1>1, <1>2, <2>1
<1>5. ViewTyped'
  BY <1>1, <1>3, <1>4, Zenon DEF Base, ViewTyped
<1>6. PendingFits' /\ ToldInLine' /\ RecentInLine' /\ ShownKeepsUp'
  <2>1. PendingFits'
    BY <1>1 DEF Base, PendingFits
  <2>2. ToldInLine'
    BY <1>1 DEF Base, ToldInLine
  <2>3. RecentInLine'
    BY <1>1 DEF Base, RecentInLine, RecentRise
  <2>4. ShownKeepsUp'
    BY <1>1 DEF Base, ShownKeepsUp, KeepsUp
  <2>5. QED
    BY <2>1, <2>2, <2>3, <2>4
<1>7. QED
  BY <1>1, <1>5, <1>6 DEF Base

LEMMA FrameIsRun ==
  ASSUME FrameShows
  PROVE  /\ frame.open
         /\ UNCHANGED <<truth, reliable, told, published, converted>>
         /\ \E elapsed \in 0 .. 1, fire \in {FALSE, shown.spectating} :
              \E caught \in CaughtUp(shown.clock, elapsed) : FrameRuns(elapsed, caught, fire)
  BY Zenon DEF FrameShows

(* What a frame does, in the terms the proofs below are in.                *)
LEMMA AFrame ==
  ASSUME Base, FrameShows
  PROVE  /\ frame.open /\ frame' = NoFrame /\ UNCHANGED <<truth, reliable, told, published, converted>>
         /\ ShowsFrame
         /\ converted.updates # <<>> =>
              \E begun, fresh, recorded, time :
                /\ ShowsUpdates(begun, fresh, recorded, time)
                /\ fresh = Fresh(begun, converted.updates) /\ recorded = AllRecorded(begun, fresh)
                /\ time = recorded.clock.now[1] - InterpolationDelay
                /\ begun.match = shown.match
         /\ pending' \in [shots : Seq(ShotEvents), deaths : Seq(DeathEvents)]
         /\ PendingFits'
         /\ Embeds(pending'.shots, pending.shots) /\ Embeds(pending'.deaths, pending.deaths)
         /\ \A i \in DOMAIN pending'.shots : pending'.shots[i].match > frame.match
         /\ \A i \in DOMAIN pending'.deaths : pending'.deaths[i].match > frame.match
         /\ handed' = [shots |-> handed.shots \o HandedShots, deaths |-> handed.deaths \o DeathsHanded,
                       ends |-> handed.ends \o Stingers]
         /\ handed' \in TakenShots
         /\ Stingers \in Seq(Nat)
<1>1. /\ frame.open /\ UNCHANGED <<truth, reliable, told, published, converted>>
  BY FrameIsRun
<1>2. PICK elapsed \in 0 .. 1, fire \in {FALSE, shown.spectating} :
              \E caught \in CaughtUp(shown.clock, elapsed) : FrameRuns(elapsed, caught, fire)
  BY FrameIsRun
<1>3. PICK caught \in CaughtUp(shown.clock, elapsed) : FrameRuns(elapsed, caught, fire)
  BY <1>2
<1>4. fire \in BOOLEAN
  BY DEF Base, ViewTyped, Worlds
<1>5. ViewTyped /\ UpdatesRise /\ (shown.last # Nothing => KeepsUp(shown)) /\ PendingFits
  BY DEF Base, UpdatesInLine, ShownKeepsUp
<1>. DEFINE begun == Advanced(elapsed, caught)
            fresh == FreshAt(elapsed, caught)
            recorded == RecordedAt(elapsed, caught)
            time == SampleTime(elapsed, caught)
<1>6. ShowsFrame /\ (converted.updates # <<>> => ShowsUpdates(begun, fresh, recorded, time))
  BY <1>1, <1>3, <1>4, <1>5, WhatIsShown
<1>7. /\ fresh = Fresh(begun, converted.updates) /\ recorded = AllRecorded(begun, fresh)
      /\ time = recorded.clock.now[1] - InterpolationDelay
  BY Zenon DEF FreshAt, RecordedAt, SampleTime
<1>8. begun.match = shown.match
  <2>1. caught \in -elapsed .. elapsed
    BY Zenon DEF CaughtUp
  <2>2. elapsed \in Nat /\ caught \in Int /\ shown \in Worlds
    BY <2>1 DEF Base, ViewTyped
  <2>3. QED
    BY <2>2, AdvancedWorld
<1>. HIDE DEF begun, fresh, recorded, time
<1>9. converted.updates # <<>> =>
        \E begun_, fresh_, recorded_, time_ :
                /\ ShowsUpdates(begun_, fresh_, recorded_, time_)
                /\ fresh_ = Fresh(begun_, converted.updates) /\ recorded_ = AllRecorded(begun_, fresh_)
                /\ time_ = recorded_.clock.now[1] - InterpolationDelay
                /\ begun_.match = shown.match
  BY <1>6, <1>7, <1>8, Zenon
<1>10. /\ pending' \in [shots : Seq(ShotEvents), deaths : Seq(DeathEvents)]
       /\ PendingFits'
       /\ Embeds(pending'.shots, pending.shots) /\ Embeds(pending'.deaths, pending.deaths)
       /\ \A i \in DOMAIN pending'.shots : pending'.shots[i].match > frame.match
       /\ \A i \in DOMAIN pending'.deaths : pending'.deaths[i].match > frame.match
       /\ handed' = [shots |-> handed.shots \o HandedShots, deaths |-> handed.deaths \o DeathsHanded,
                     ends |-> handed.ends \o Stingers]
       /\ handed' \in TakenShots
       /\ Stingers \in Seq(Nat)
       /\ frame' = NoFrame
  BY <1>1, <1>3, <1>5, WhatIsHanded, Zenon
<1>11. QED
  BY <1>1, <1>6, <1>9, <1>10, Zenon

(* The clock stays near the newest update recorded.                        *)
LEMMA BaseAtFrame == Base /\ FrameShows => Base'
<1>. SUFFICES ASSUME Base, FrameShows PROVE Base'
  OBVIOUS
<1>1. /\ frame.open /\ frame' = NoFrame /\ UNCHANGED <<truth, reliable, told, published, converted>>
      /\ ShowsFrame
      /\ pending' \in [shots : Seq(ShotEvents), deaths : Seq(DeathEvents)]
      /\ PendingFits' /\ handed' \in TakenShots
  BY AFrame
<1>5. ViewTyped
  BY DEF Base
<1>6. /\ shown' \in Worlds
      /\ converted.updates = <<>> => NothingInIt(shown')
  BY <1>1, Zenon DEF ShowsFrame
<1>7. ShownKeepsUp'
  <2>1. CASE converted.updates = <<>>
    BY <1>6, <2>1 DEF ShownKeepsUp, NothingInIt
  <2>2. CASE converted.updates # <<>>
    <3>1. PICK begun, fresh, recorded, time : ShowsUpdates(begun, fresh, recorded, time)
      BY <2>2, AFrame, Zenon
    <3>2. KeepsUp(recorded) /\ shown'.clock = recorded.clock /\ shown'.first = recorded.first
          /\ shown'.last = recorded.last
      BY <3>1, Zenon DEF ShowsUpdates
    <3>3. QED
      BY <3>2 DEF ShownKeepsUp, KeepsUp
  <2>3. QED
    BY <2>1, <2>2
<1>9. ViewTyped'
  BY <1>1, <1>5, <1>6, Zenon DEF ViewTyped, TakenShots
<1>10. ToldInLine' /\ RecentInLine' /\ UpdatesInLine'
  <2>2. ToldInLine'
    BY <1>1 DEF Base, ToldInLine
  <2>3. RecentInLine'
    BY <1>1 DEF Base, RecentInLine, RecentRise
  <2>4. UpdatesInLine'
    BY <1>1 DEF Base, UpdatesInLine, UpdatesRise
  <2>5. QED
    BY <2>2, <2>3, <2>4
<1>11. QED
  BY <1>1, <1>7, <1>9, <1>10 DEF Base

Opens(message) == IF message.kind = "start" THEN 1 ELSE 0

(* The messages that lead from one match to another.                       *)
Chain(s, first, last) ==
  /\ s = <<>> => first = last
  /\ s # <<>> => s[1].match = first + Opens(s[1]) /\ s[Len(s)].match = last
  /\ \A i \in 1 .. Len(s) - 1 : s[i + 1].match = s[i].match + Opens(s[i + 1])
  /\ \A i \in DOMAIN s : s[i].match <= last
  /\ first <= last

MatchesInLine == Chain(reliable, published.started, truth.match)

LEMMA ChainsJoin ==
  ASSUME NEW r \in Seq(Messages), NEW m \in Seq(Messages), NEW a \in Nat, NEW b \in Nat, NEW c \in Nat,
         Chain(r, a, b), Chain(m, b, c)
  PROVE  Chain(r \o m, a, c)
<1>. DEFINE all == r \o m
            R == Len(r)
            M == Len(m)
<1>1. /\ Len(all) = R + M /\ DOMAIN all = 1 .. R + M
      /\ \A i \in 1 .. R : all[i] = r[i]
      /\ \A i \in R + 1 .. R + M : all[i] = m[i - R]
      /\ R \in Nat /\ M \in Nat /\ DOMAIN r = 1 .. R /\ DOMAIN m = 1 .. M
      /\ (R # 0 => r # <<>>) /\ (M # 0 => m # <<>>) /\ (R = 0 => r = <<>>) /\ (M = 0 => m = <<>>)
      /\ (all = <<>> => R = 0 /\ M = 0)  /\ (all # <<>> => R # 0 \/ M # 0)
  OBVIOUS
<1>. HIDE DEF all
<1>2. /\ \A i \in 1 .. R : r[i].match \in Nat
      /\ \A i \in 1 .. M : m[i].match \in Nat
  BY <1>1, MessageKinds DEF Matches
<1>. HIDE DEF R, M
<1>3. /\ (R = 0 => a = b) /\ (M = 0 => b = c)
      /\ R # 0 => r[1].match = a + Opens(r[1]) /\ r[R].match = b
      /\ M # 0 => m[1].match = b + Opens(m[1]) /\ m[M].match = c
      /\ a <= b /\ b <= c
  BY <1>1 DEF Chain, R, M
<1>a. \A i \in 1 .. R - 1 : r[i + 1].match = r[i].match + Opens(r[i + 1])
  BY Zenon DEF Chain, R
<1>b. \A i \in 1 .. M - 1 : m[i + 1].match = m[i].match + Opens(m[i + 1])
  BY Zenon DEF Chain, M
<1>c. /\ \A i \in 1 .. R : r[i].match <= b
      /\ \A i \in 1 .. M : m[i].match <= c
  BY <1>1 DEF Chain
<1>4. all = <<>> => a = c
  BY <1>1, <1>3
<1>5. ASSUME all # <<>> PROVE all[1].match = a + Opens(all[1]) /\ all[Len(all)].match = c
  <2>1. CASE R = 0
    <3>1. M # 0 /\ all[1] = m[1] /\ all[Len(all)] = m[M]
      <4>1. M # 0 /\ 1 \in R + 1 .. R + M /\ R + M \in R + 1 .. R + M /\ 1 - R = 1 /\ R + M - R = M
        BY <1>1, <1>5, <2>1
      <4>2. all[1] = m[1 - R] /\ all[R + M] = m[R + M - R]
        BY <1>1, <4>1
      <4>3. QED
        BY <1>1, <4>1, <4>2
    <3>2. QED
      BY <1>3, <2>1, <3>1
  <2>2. CASE R # 0 /\ M = 0
    <3>1. all[1] = r[1] /\ all[Len(all)] = r[R]
      BY <1>1, <2>2
    <3>2. QED
      BY <1>3, <2>2, <3>1
  <2>3. CASE R # 0 /\ M # 0
    <3>1. all[1] = r[1] /\ all[Len(all)] = m[M]
      <4>1. 1 \in 1 .. R /\ R + M \in R + 1 .. R + M /\ R + M - R = M
        BY <1>1, <2>3
      <4>2. all[R + M] = m[R + M - R] /\ all[1] = r[1]
        BY <1>1, <4>1
      <4>3. QED
        BY <1>1, <4>1, <4>2
    <3>2. QED
      BY <1>3, <2>3, <3>1
  <2>4. QED
    BY <2>1, <2>2, <2>3
<1>6. ASSUME NEW i \in 1 .. Len(all) - 1 PROVE all[i + 1].match = all[i].match + Opens(all[i + 1])
  <2>0. i \in 1 .. R + M - 1 /\ R \in Nat /\ M \in Nat
    BY <1>1
  <2>1. CASE i + 1 <= R
    <3>1. i \in 1 .. R /\ i + 1 \in 1 .. R /\ i \in 1 .. R - 1
      BY <2>0, <2>1
    <3>2. all[i] = r[i] /\ all[i + 1] = r[i + 1]
      BY <1>1, <3>1
    <3>3. QED
      BY <1>a, <3>1, <3>2
  <2>2. CASE i = R
    <3>1. R # 0 /\ M # 0 /\ R \in 1 .. R /\ R + 1 \in R + 1 .. R + M /\ R + 1 - R = 1
      BY <2>0, <2>2
    <3>2. all[R] = r[R] /\ all[R + 1] = m[R + 1 - R]
      BY <1>1, <3>1
    <3>3. QED
      BY <1>3, <2>2, <3>1, <3>2
  <2>3. CASE i > R
    <3>1. /\ i \in R + 1 .. R + M /\ i + 1 \in R + 1 .. R + M /\ i - R \in 1 .. M - 1
          /\ i + 1 - R = (i - R) + 1
      BY <2>0, <2>3
    <3>2. all[i] = m[i - R] /\ all[i + 1] = m[i + 1 - R]
      BY <1>1, <3>1
    <3>3. QED
      BY <1>b, <3>1, <3>2
  <2>4. QED
    BY <2>0, <2>1, <2>2, <2>3
<1>7. ASSUME NEW i \in DOMAIN all PROVE all[i].match <= c
  <2>0. i \in 1 .. R + M /\ R \in Nat /\ M \in Nat
    BY <1>1
  <2>1. CASE i <= R
    <3>1. i \in 1 .. R
      BY <2>0, <2>1
    <3>2. all[i] = r[i] /\ r[i].match \in Nat /\ r[i].match <= b
      BY <1>1, <1>2, <1>c, <3>1
    <3>3. QED
      BY <1>3, <3>2
  <2>2. CASE i > R
    <3>1. i \in R + 1 .. R + M /\ i - R \in 1 .. M
      BY <2>0, <2>2
    <3>2. all[i] = m[i - R]
      BY <1>1, <3>1
    <3>3. QED
      BY <1>c, <3>1, <3>2
  <2>3. QED
    BY <2>0, <2>1, <2>2
<1>8. a <= c
  BY <1>3
<1>9. QED
  BY <1>4, <1>5, <1>6, <1>7, <1>8, Zenon DEF Chain, all

-----------------------------------------------------------------------------
LEMMA MatchesAtStart == Base /\ MatchesInLine /\ ServerStart => MatchesInLine'
<1>. SUFFICES ASSUME Base, MatchesInLine, ServerStart PROVE MatchesInLine'
  OBVIOUS
<1>. DEFINE m == [kind |-> "start", match |-> truth.match + 1]
<1>1. /\ truth.match < LastMatch
      /\ truth' = [truth EXCEPT !.match = @ + 1, !.on = TRUE, !.alive = ViewPlayers]
      /\ reliable' = reliable \o <<m>>
      /\ published' = published
  BY Zenon DEF ServerStart, Tell
<1>2. truth \in Truths /\ reliable \in Seq(Messages) /\ published.started \in Nat
  BY DEF Base, ViewTyped, Truths, Published
<1>3. truth.match \in Nat /\ truth'.match = truth.match + 1
  BY <1>1, <1>2 DEF Truths
<1>4. m \in Messages /\ m.match = truth.match + 1 /\ m.kind = "start"
  BY <1>1, <1>3, Bounds DEF Messages, Matches
<1>. HIDE DEF m
<1>5. <<m>> \in Seq(Messages)
  BY <1>4
<1>6. Chain(<<m>>, truth.match, truth.match + 1)
  <2>. DEFINE s == <<m>>
  <2>1. Len(s) = 1 /\ DOMAIN s = 1 .. 1 /\ s # <<>> /\ s[1] = m /\ s[Len(s)] = m /\ Opens(m) = 1
    BY <1>4 DEF Opens
  <2>. HIDE DEF s
  <2>2. /\ s[1].match = truth.match + Opens(s[1]) /\ s[Len(s)].match = truth.match + 1
        /\ \A i \in 1 .. Len(s) - 1 : FALSE
        /\ \A i \in DOMAIN s : s[i].match <= truth.match + 1
        /\ truth.match <= truth.match + 1
    BY <1>3, <1>4, <2>1
  <2>3. Chain(s, truth.match, truth.match + 1)
    BY <2>1, <2>2, Zenon DEF Chain
  <2>4. QED
    BY <2>3 DEF s
<1>7. Chain(reliable \o <<m>>, published.started, truth.match + 1)
  <2>1. Chain(reliable, published.started, truth.match) /\ truth.match + 1 \in Nat
    BY <1>3 DEF MatchesInLine
  <2>2. QED
    BY <1>2, <1>3, <1>5, <1>6, <2>1, ChainsJoin
<1>8. QED
  BY <1>1, <1>3, <1>7 DEF MatchesInLine

(* What a tick does, in the terms the proofs below are in.                 *)
LEMMA ATick ==
  ASSUME Base, ServerTicks
  PROVE  /\ truth \in Truths /\ truth.match \in Matches /\ reliable \in Seq(Messages)
         /\ \E messages, left : TickTells(messages, left)
         /\ UNCHANGED <<published, pending, frame, converted, shown, handed>>
<1>1. truth \in Truths /\ reliable \in Seq(Messages)
  BY DEF Base, ViewTyped, Truths
<1>2. truth.on
  BY Zenon DEF ServerTicks
<1>3. truth.match \in Matches
  BY <1>1, <1>2, Bounds DEF Base, ToldInLine, Truths, Matches
<1>4. QED
  BY <1>1, <1>3, WhatATickTells, Zenon DEF Base

LEMMA MatchesAtTick == Base /\ MatchesInLine /\ ServerTicks => MatchesInLine'
<1>. SUFFICES ASSUME Base, MatchesInLine, ServerTicks PROVE MatchesInLine'
  OBVIOUS
<1>1. /\ truth \in Truths /\ truth.match \in Matches /\ reliable \in Seq(Messages)
      /\ published' = published
  BY ATick
<1>2. PICK messages, left : TickTells(messages, left)
  BY ATick, Zenon
<1>3. /\ reliable' = reliable \o messages /\ messages \in Seq(Messages) /\ truth'.match = truth.match
      /\ \A i \in DOMAIN messages : messages[i].match = truth.match /\ messages[i].kind # "start"
  BY <1>2, Zenon DEF TickTells
<1>4. truth.match \in Nat /\ published.started \in Nat
  BY <1>1 DEF Matches, Base, ViewTyped, Published
<1>5. Chain(messages, truth.match, truth.match)
  <2>1. \A i \in DOMAIN messages : Opens(messages[i]) = 0 /\ messages[i].match = truth.match
    BY <1>3 DEF Opens
  <2>2. DOMAIN messages = 1 .. Len(messages) /\ Len(messages) \in Nat
        /\ (messages # <<>> => Len(messages) # 0)
    BY <1>3
  <2>3. QED
    BY <1>4, <2>1, <2>2 DEF Chain
<1>6. Chain(reliable \o messages, published.started, truth.match)
  BY <1>1, <1>3, <1>4, <1>5, ChainsJoin DEF MatchesInLine
<1>7. QED
  BY <1>1, <1>3, <1>6 DEF MatchesInLine

(* What is received, in the terms the proofs below are in.                 *)
LEMMA MatchesAtReceipt == Base /\ MatchesInLine /\ ReceiveReliable => MatchesInLine'
<1>. SUFFICES ASSUME Base, MatchesInLine, ReceiveReliable PROVE MatchesInLine'
  OBVIOUS
<1>1. /\ reliable # <<>> /\ reliable[1] \in Messages
      /\ reliable' \in Seq(Messages) /\ Len(reliable) \in Nat /\ DOMAIN reliable = 1 .. Len(reliable)
      /\ Len(reliable) >= 1
      /\ Len(reliable') = Len(reliable) - 1 /\ DOMAIN reliable' = 1 .. Len(reliable) - 1
      /\ \A i \in 1 .. Len(reliable) - 1 : reliable'[i] = reliable[i + 1]
      /\ truth' = truth
      /\ \/ Starts(reliable[1]) \/ Ends(reliable[1]) \/ KeepsShot(reliable[1]) \/ KeepsDeath(reliable[1])
  BY WhatIsReceived, Zenon DEF Base
<1>2. /\ reliable[1].match = published.started + Opens(reliable[1])
      /\ reliable[Len(reliable)].match = truth.match
      /\ \A i \in 1 .. Len(reliable) - 1 : reliable[i + 1].match = reliable[i].match + Opens(reliable[i + 1])
      /\ \A i \in 1 .. Len(reliable) : reliable[i].match <= truth.match
  BY <1>1 DEF MatchesInLine, Chain
<1>3. published.started \in Nat
  BY DEF Base, ViewTyped, Published
<1>4. published'.started = reliable[1].match
  <2>1. CASE Starts(reliable[1])
    BY <1>2, <1>3, <2>1 DEF Starts, Opens
  <2>2. CASE Ends(reliable[1])
    BY <1>2, <1>3, <2>2 DEF Ends, Opens
  <2>3. CASE KeepsShot(reliable[1])
    BY <1>2, <1>3, <2>3 DEF KeepsShot, Opens
  <2>4. CASE KeepsDeath(reliable[1])
    BY <1>2, <1>3, <2>4 DEF KeepsDeath, Opens
  <2>5. QED
    BY <1>1, <2>1, <2>2, <2>3, <2>4
<1>5. Chain(reliable', published'.started, truth.match)
  <2>1. reliable' = <<>> => Len(reliable) = 1
    <3>1. reliable' = <<>> => Len(reliable') = 0
      OBVIOUS
    <3>2. Len(reliable') = Len(reliable) - 1 /\ Len(reliable) \in Nat
      BY <1>1, Zenon
    <3>3. QED
      BY <3>1, <3>2
  <2>2. reliable' # <<>> => Len(reliable) - 1 >= 1
    BY <1>1
  <2>3. reliable' = <<>> => published'.started = truth.match
    BY <1>2, <1>4, <2>1
  <2>4. ASSUME reliable' # <<>>
        PROVE  /\ reliable'[1].match = published'.started + Opens(reliable'[1])
               /\ reliable'[Len(reliable')].match = truth.match
    <3>1. reliable'[1] = reliable[1 + 1] /\ 1 \in 1 .. Len(reliable) - 1
      BY <1>1, <2>2, <2>4
    <3>2. reliable'[Len(reliable')] = reliable[Len(reliable)]
      BY <1>1, <2>2, <2>4
    <3>3. QED
      BY <1>2, <1>4, <3>1, <3>2
  <2>5. ASSUME NEW i \in 1 .. Len(reliable') - 1
        PROVE  reliable'[i + 1].match = reliable'[i].match + Opens(reliable'[i + 1])
    <3>1. reliable'[i] = reliable[i + 1] /\ reliable'[i + 1] = reliable[(i + 1) + 1]
          /\ i + 1 \in 1 .. Len(reliable) - 1
      BY <1>1
    <3>2. QED
      BY <1>2, <3>1
  <2>6. \A i \in DOMAIN reliable' : reliable'[i].match <= truth.match
    BY <1>1, <1>2
  <2>7. published'.started <= truth.match
    BY <1>1, <1>2, <1>4
  <2>8. QED
    BY <2>3, <2>4, <2>5, <2>6, <2>7, Zenon DEF Chain
<1>6. QED
  BY <1>1, <1>5 DEF MatchesInLine

-----------------------------------------------------------------------------
FramesInLine ==
  /\ shown.match <= published.started
  /\ ~frame.open => shown.match = converted.match
  /\ frame.open => /\ frame.match = converted.match
                   /\ shown.match <= frame.match /\ frame.match <= published.started
                   /\ frame.match = published.started /\ frame.ended => published.ended
                   /\ frame.match = shown.match /\ shown.endHeard => frame.ended
  /\ shown.match = published.started /\ shown.endHeard => published.ended
  /\ \A i \in DOMAIN handed.ends :
       handed.ends[i] <= shown.match /\ (~shown.endHeard => handed.ends[i] < shown.match)
  /\ \A i, j \in DOMAIN handed.ends : i < j => handed.ends[i] < handed.ends[j]

LEMMA MatchNumbers ==
  ASSUME Base
  PROVE  /\ published.started \in Nat /\ shown.match \in Nat /\ converted.match \in Nat
         /\ shown.match \in 0 .. LastMatch
         /\ published.ended \in BOOLEAN /\ published.inMatch \in BOOLEAN
         /\ shown.endHeard \in BOOLEAN /\ shown.on \in BOOLEAN /\ shown.spectating \in BOOLEAN
         /\ frame.open => /\ frame \in Reads /\ frame.match \in Nat /\ frame.match \in 0 .. LastMatch
                          /\ frame.ended \in BOOLEAN /\ frame.on \in BOOLEAN
         /\ truth.match \in 0 .. LastMatch /\ truth.match \in Nat
<1>1. shown \in Worlds /\ published \in Published /\ (frame = NoFrame \/ frame \in Reads)
      /\ converted \in [match : Nat, updates : Seq(States)] /\ truth \in Truths
  BY Zenon DEF Base, ViewTyped, Truths
<1>2. shown.match \in 0 .. LastMatch /\ shown.endHeard \in BOOLEAN /\ shown.on \in BOOLEAN
      /\ shown.spectating \in BOOLEAN
  BY <1>1 DEF Worlds
<1>3. frame.open => frame \in Reads
  BY <1>1 DEF NoFrame
<1>4. frame \in Reads => frame.match \in 0 .. LastMatch /\ frame.ended \in BOOLEAN /\ frame.on \in BOOLEAN
  BY DEF Reads
<1>5. truth.match \in 0 .. LastMatch
  BY <1>1 DEF Truths
<1>6. published.started \in Nat /\ converted.match \in Nat
      /\ published.ended \in BOOLEAN /\ published.inMatch \in BOOLEAN
  BY <1>1 DEF Published
<1>7. \A n \in 0 .. LastMatch : n \in Nat
  BY Bounds
<1>8. QED
  BY <1>2, <1>3, <1>4, <1>5, <1>6, <1>7, Zenon

LEMMA FramesAtReceipt == Base /\ FramesInLine /\ ReceiveReliable => FramesInLine'
<1>. SUFFICES ASSUME Base, FramesInLine, ReceiveReliable PROVE FramesInLine'
  OBVIOUS
<1>1. /\ UNCHANGED <<frame, converted, shown, handed>>
      /\ \/ Starts(reliable[1]) \/ Ends(reliable[1]) \/ KeepsShot(reliable[1]) \/ KeepsDeath(reliable[1])
  BY WhatIsReceived, Zenon DEF Base
<1>2. published.started \in Nat /\ shown.match \in Nat /\ (frame.open => frame.match \in Nat)
  BY MatchNumbers
<1>3. \/ published'.started = published.started + 1
      \/ published'.started = published.started /\ published'.ended
      \/ published'.started = published.started /\ published'.ended = published.ended
  BY <1>1, Zenon DEF Starts, Ends, KeepsShot, KeepsDeath
<1>4. QED
  BY <1>1, <1>2, <1>3 DEF FramesInLine

(* A frame is never of an earlier match than the last frame.               *)
LEMMA FramesAtBeginning ==
  Base /\ FramesInLine /\ FrameBegins /\ published.started <= LastMatch => FramesInLine'
<1>. SUFFICES ASSUME Base, FramesInLine, FrameBegins, published.started <= LastMatch PROVE FramesInLine'
  OBVIOUS
<1>1. /\ ~frame.open
      /\ converted'.match = published.started
      /\ frame'.open /\ frame'.match = published.started /\ frame'.ended = published.ended
      /\ UNCHANGED <<published, shown, handed>>
  BY WhatIsRead
<1>2. published.started \in Nat
  BY MatchNumbers
<1>3. QED
  BY <1>1, <1>2 DEF FramesInLine

(* A Match end is heard once (MatchEndStinger).                            *)
LEMMA FramesAtFrame == Base /\ FramesInLine /\ FrameShows => FramesInLine'
<1>. SUFFICES ASSUME Base, FramesInLine, FrameShows PROVE FramesInLine'
  OBVIOUS
<1>1. /\ frame.open /\ frame' = NoFrame /\ UNCHANGED <<truth, reliable, told, published, converted>>
      /\ ShowsFrame
      /\ handed'.ends = handed.ends \o Stingers
      /\ handed' \in TakenShots
  BY AFrame
<1>2. shown'.match = frame.match /\ shown'.endHeard = frame.ended
  BY <1>1, Zenon DEF ShowsFrame
<1>3. published.started \in Nat /\ shown.match \in Nat /\ frame.match \in Nat
  BY <1>1, MatchNumbers
<1>4. handed.ends \in Seq(Nat) /\ Stingers = IF frame.ended /\ ~shown.endHeard THEN <<frame.match>> ELSE <<>>
  BY DEF Base, ViewTyped, Stingers
<1>. DEFINE ends == handed.ends
            all == ends \o Stingers
<1>5. \A i \in DOMAIN ends : ends[i] \in Nat /\ ends[i] <= frame.match
      /\ (~frame.ended => ends[i] < frame.match) /\ (~shown.endHeard => ends[i] < frame.match)
  BY <1>1, <1>3, <1>4 DEF FramesInLine
<1>6. \A i, j \in DOMAIN ends : i < j => ends[i] < ends[j]
  BY DEF FramesInLine
<1>7. /\ \A i \in DOMAIN all : all[i] <= frame.match /\ (~frame.ended => all[i] < frame.match)
      /\ \A i, j \in DOMAIN all : i < j => all[i] < all[j]
  <2>1. CASE frame.ended /\ ~shown.endHeard
    <3>1. /\ DOMAIN all = 1 .. Len(ends) + 1 /\ Len(ends) \in Nat /\ DOMAIN ends = 1 .. Len(ends)
          /\ \A i \in 1 .. Len(ends) : all[i] = ends[i]
          /\ all[Len(ends) + 1] = frame.match
      BY <1>3, <1>4, <2>1
    <3>. HIDE DEF all, ends
    <3>2. QED
      BY SMTT(30), <1>3, <1>5, <1>6, <2>1, <3>1
  <2>2. CASE ~(frame.ended /\ ~shown.endHeard)
    <3>1. all = ends
      <4>1. Stingers = <<>> /\ ends \in Seq(Nat)
        BY <1>4, <2>2
      <4>. HIDE DEF ends
      <4>2. ends \o <<>> = ends
        BY <4>1
      <4>3. QED
        BY <4>1, <4>2
    <3>. HIDE DEF all, ends
    <3>2. QED
      BY <1>5, <1>6, <3>1
  <2>3. QED
    BY <2>1, <2>2
<1>8. \A i \in DOMAIN handed'.ends :
       handed'.ends[i] <= shown'.match /\ (~shown'.endHeard => handed'.ends[i] < shown'.match)
  BY <1>1, <1>2, <1>7
<1>9. \A i, j \in DOMAIN handed'.ends : i < j => handed'.ends[i] < handed'.ends[j]
  BY <1>1, <1>7
<1>10. ~frame'.open
  BY <1>1 DEF NoFrame
<1>11. /\ shown'.match <= published'.started
       /\ shown'.match = converted'.match
       /\ shown'.match = published'.started /\ shown'.endHeard => published'.ended
  BY <1>1, <1>2, <1>3 DEF FramesInLine
<1>12. QED
  BY <1>8, <1>9, <1>10, <1>11, Zenon DEF FramesInLine

OfTheirMatches(events, started) ==
  /\ \A i \in DOMAIN events : events[i].match = events[i].of[1] /\ events[i].match <= started
  /\ \A i, j \in DOMAIN events : i < j => events[i].match <= events[j].match

LEMMA LeftOfTheirMatches ==
  ASSUME NEW kept, NEW events, NEW started, Embeds(kept, events), OfTheirMatches(events, started)
  PROVE  OfTheirMatches(kept, started)
<1>1. PICK from \in [DOMAIN kept -> DOMAIN events] :
    /\ \A k \in DOMAIN kept : kept[k] = events[from[k]]
    /\ \A k, l \in DOMAIN kept : k < l => from[k] < from[l]
  BY DEF Embeds
<1>2. \A k \in DOMAIN kept : from[k] \in DOMAIN events
  BY <1>1
<1>3. /\ \A i \in DOMAIN kept : kept[i].match = kept[i].of[1] /\ kept[i].match <= started
      /\ \A i, j \in DOMAIN kept : i < j => kept[i].match <= kept[j].match
  BY <1>1, <1>2, Zenon DEF OfTheirMatches
<1>4. QED
  BY <1>3, Zenon DEF OfTheirMatches

LEMMA AppendedOfItsMatch ==
  ASSUME NEW T, NEW events \in Seq(T), NEW event \in T, NEW started \in Nat,
         \A x \in T : x.match \in Nat,
         OfTheirMatches(events, started), event.match = started, event.of[1] = started
  PROVE  OfTheirMatches(Append(events, event), started)
<1>. DEFINE all == Append(events, event)
            n == Len(events)
<1>1. /\ n \in Nat /\ DOMAIN all = 1 .. n + 1 /\ DOMAIN events = 1 .. n
      /\ \A i \in 1 .. n : all[i] = events[i] /\ events[i] \in T
      /\ all[n + 1] = event
  OBVIOUS
<1>. HIDE DEF all, n
<1>2. /\ \A i \in 1 .. n : events[i].match = events[i].of[1] /\ events[i].match <= started
      /\ \A i, j \in 1 .. n : i < j => events[i].match <= events[j].match
  BY <1>1 DEF OfTheirMatches
<1>3. \A i \in DOMAIN all : all[i].match = all[i].of[1] /\ all[i].match <= started
  <2>1. ASSUME NEW i \in DOMAIN all PROVE all[i].match = all[i].of[1] /\ all[i].match <= started
    <3>1. i \in 1 .. n \/ i = n + 1
      BY <1>1
    <3>2. QED
      BY <1>1, <1>2, <3>1
  <2>2. QED
    BY <2>1
<1>4. ASSUME NEW i \in DOMAIN all, NEW j \in DOMAIN all, i < j PROVE all[i].match <= all[j].match
  <2>1. i \in 1 .. n /\ (j \in 1 .. n \/ j = n + 1)
    BY <1>1, <1>4
  <2>2. CASE j \in 1 .. n
    BY <1>1, <1>2, <1>4, <2>1, <2>2
  <2>3. CASE j = n + 1
    BY <1>1, <1>2, <2>1, <2>3
  <2>4. QED
    BY <2>1, <2>2, <2>3
<1>5. QED
  BY <1>3, <1>4, Zenon DEF OfTheirMatches, all

-----------------------------------------------------------------------------
(* The shots told and to come, m; kept, p; and handed, h; of n fired.      *)
ShotsFit(m, p, h, n) ==
  /\ \A i \in DOMAIN m : m[i].kind = "shot" => m[i].shot <= n
  /\ \A i, j \in DOMAIN m : i < j /\ m[i].kind = "shot" /\ m[j].kind = "shot" => m[i].shot < m[j].shot
  /\ \A k \in DOMAIN p : p[k].of[2] <= n
  /\ \A k \in DOMAIN p, i \in DOMAIN m : m[i].kind = "shot" => p[k].of[2] < m[i].shot
  /\ \A k \in DOMAIN p, l \in DOMAIN h : h[l].of[2] < p[k].of[2]
  /\ \A j, k \in DOMAIN p : j < k => p[j].of[2] < p[k].of[2]
  /\ \A l \in DOMAIN h : h[l].of[2] <= n
  /\ \A l \in DOMAIN h, i \in DOMAIN m : m[i].kind = "shot" => h[l].of[2] < m[i].shot
  /\ \A j, k \in DOMAIN h : j < k => h[j].of[2] < h[k].of[2]

ShotsTaken == [of : Matches \X Nat, to : Nat]

LEMMA ShotNumbers ==
  /\ \A e \in ShotEvents : e.of[2] \in Nat /\ e.match \in Nat
  /\ \A e \in ShotsTaken : e.of[2] \in Nat
  /\ \A e \in Messages : e.kind = "shot" => e.shot \in Nat
<1>1. \A e \in ShotEvents : e.of[2] \in Nat /\ e.match \in Nat
  BY DEF ShotEvents
<1>2. \A e \in ShotsTaken : e.of[2] \in Nat
  BY DEF ShotsTaken
<1>3. \A e \in Messages : e.kind = "shot" => e.shot \in Nat
  BY MessageKinds
<1>4. QED
  BY <1>1, <1>2, <1>3, Zenon

LEMMA ShotsTold ==
  ASSUME NEW m \in Seq(Messages), NEW x \in Seq(Messages), NEW p \in Seq(ShotEvents),
         NEW h \in Seq(ShotsTaken), NEW n \in Nat, NEW later \in {n, n + 1},
         ShotsFit(m, p, h, n),
         \A i \in DOMAIN x : x[i].kind = "shot" => x[i].shot = n + 1 /\ later = n + 1,
         \A i, j \in DOMAIN x : i < j => x[i].kind # x[j].kind
  PROVE  ShotsFit(m \o x, p, h, later)
<1>. DEFINE all == m \o x
            M == Len(m)
            X == Len(x)
<1>1. /\ DOMAIN all = 1 .. M + X /\ M \in Nat /\ X \in Nat
      /\ \A i \in 1 .. M : all[i] = m[i]
      /\ \A i \in M + 1 .. M + X : all[i] = x[i - M]
      /\ DOMAIN m = 1 .. M /\ DOMAIN x = 1 .. X
  OBVIOUS
<1>2. /\ \A i \in 1 .. M : m[i] \in Messages
      /\ \A i \in DOMAIN p : p[i] \in ShotEvents
      /\ \A i \in DOMAIN h : h[i] \in ShotsTaken
  BY <1>1
<1>. HIDE DEF all, M, X
<1>3. ASSUME NEW i \in DOMAIN all
      PROVE  \/ i \in 1 .. M /\ all[i] = m[i]
             \/ i \in M + 1 .. M + X /\ i - M \in 1 .. X /\ all[i] = x[i - M]
  BY <1>1
<1>4. ASSUME NEW i \in DOMAIN all, all[i].kind = "shot"
      PROVE  /\ all[i].shot <= later
             /\ \A k \in DOMAIN p : p[k].of[2] < all[i].shot
             /\ \A l \in DOMAIN h : h[l].of[2] < all[i].shot
  <2>1. CASE i \in 1 .. M /\ all[i] = m[i]
    <3>1. m[i].shot \in Nat
      BY <1>2, <1>4, <2>1, ShotNumbers
    <3>2. m[i].shot <= n
      BY <1>1, <1>4, <2>1 DEF ShotsFit
    <3>3. /\ \A k \in DOMAIN p : p[k].of[2] < all[i].shot
          /\ \A l \in DOMAIN h : h[l].of[2] < all[i].shot
      BY <1>1, <1>4, <2>1 DEF ShotsFit
    <3>4. QED
      BY <2>1, <3>1, <3>2, <3>3
  <2>2. CASE i \in M + 1 .. M + X /\ i - M \in 1 .. X /\ all[i] = x[i - M]
    <3>1. all[i].shot = n + 1 /\ later = n + 1
      BY <1>1, <1>4, <2>2
    <3>2. \A k \in DOMAIN p : p[k].of[2] <= n /\ p[k].of[2] \in Nat
      BY <1>2, ShotNumbers DEF ShotsFit
    <3>3. \A l \in DOMAIN h : h[l].of[2] <= n /\ h[l].of[2] \in Nat
      BY <1>2, ShotNumbers DEF ShotsFit
    <3>4. QED
      BY <3>1, <3>2, <3>3
  <2>3. QED
    BY <1>3, <2>1, <2>2
<1>5. ASSUME NEW i \in DOMAIN all, NEW j \in DOMAIN all, i < j, all[i].kind = "shot", all[j].kind = "shot"
      PROVE  all[i].shot < all[j].shot
  <2>1. CASE j \in 1 .. M
    <3>1. i \in 1 .. M /\ all[i] = m[i] /\ all[j] = m[j]
      BY <1>1, <1>5, <2>1
    <3>2. QED
      BY <1>1, <1>5, <2>1, <3>1 DEF ShotsFit
  <2>2. CASE i \in 1 .. M /\ j \notin 1 .. M
    <3>1. all[i] = m[i] /\ j \in M + 1 .. M + X /\ j - M \in 1 .. X /\ all[j] = x[j - M]
      BY <1>1, <1>3, <2>2
    <3>2. all[j].shot = n + 1
      BY <1>1, <1>5, <3>1
    <3>3. m[i].shot <= n /\ m[i].shot \in Nat
      BY <1>1, <1>2, <1>5, <2>2, <3>1, ShotNumbers DEF ShotsFit
    <3>4. QED
      BY <3>1, <3>2, <3>3
  <2>3. CASE i \notin 1 .. M
    <3>1. /\ i - M \in 1 .. X /\ j - M \in 1 .. X /\ i - M < j - M
          /\ all[i] = x[i - M] /\ all[j] = x[j - M]
      <4>1. i \in 1 .. M + X /\ j \in 1 .. M + X /\ i < j /\ M \in Nat /\ X \in Nat
        BY <1>1, <1>5
      <4>2. i \in M + 1 .. M + X /\ j \in M + 1 .. M + X
        BY <2>3, <4>1
      <4>3. i - M \in 1 .. X /\ j - M \in 1 .. X /\ i - M < j - M
        BY <4>1, <4>2
      <4>4. QED
        BY <1>1, <4>2, <4>3
    <3>2. QED
      BY SMTT(30), <1>1, <1>5, <3>1
  <2>4. QED
    BY <2>1, <2>2, <2>3
<1>6. \A k \in DOMAIN p : p[k].of[2] <= later
  BY <1>2, ShotNumbers DEF ShotsFit
<1>7. \A l \in DOMAIN h : h[l].of[2] <= later
  BY <1>2, ShotNumbers DEF ShotsFit
<1>8. ShotsFit(all, p, h, later)
  <2>1. /\ \A i \in DOMAIN all : all[i].kind = "shot" => all[i].shot <= later
        /\ \A k \in DOMAIN p, i \in DOMAIN all : all[i].kind = "shot" => p[k].of[2] < all[i].shot
        /\ \A l \in DOMAIN h, i \in DOMAIN all : all[i].kind = "shot" => h[l].of[2] < all[i].shot
    BY <1>4, Zenon
  <2>2. \A i, j \in DOMAIN all : i < j /\ all[i].kind = "shot" /\ all[j].kind = "shot" => all[i].shot < all[j].shot
    BY <1>5, Zenon
  <2>3. QED
    BY <1>6, <1>7, <2>1, <2>2, Zenon DEF ShotsFit
<1>9. QED
  BY <1>8 DEF all

(* One less to come.                                                       *)
LEMMA ShotsReceived ==
  ASSUME NEW m \in Seq(Messages), NEW t \in Seq(Messages), NEW p, NEW h, NEW n,
         ShotsFit(m, p, h, n), m # <<>>, DOMAIN t = 1 .. Len(m) - 1,
         \A i \in 1 .. Len(m) - 1 : t[i] = m[i + 1]
  PROVE  /\ ShotsFit(t, p, h, n)
         /\ m[1].kind = "shot" => \A i \in DOMAIN t : t[i].kind = "shot" => m[1].shot < t[i].shot
<1>1. /\ \A i \in DOMAIN t : i + 1 \in DOMAIN m /\ t[i] = m[i + 1] /\ i \in Nat /\ 1 < i + 1
      /\ \A i, j \in DOMAIN t : i < j => i + 1 < j + 1
      /\ 1 \in DOMAIN m
  OBVIOUS
<1>2. /\ \A i \in DOMAIN t : t[i].kind = "shot" => t[i].shot <= n
      /\ \A i, j \in DOMAIN t : i < j /\ t[i].kind = "shot" /\ t[j].kind = "shot" => t[i].shot < t[j].shot
      /\ \A k \in DOMAIN p, i \in DOMAIN t : t[i].kind = "shot" => p[k].of[2] < t[i].shot
      /\ \A l \in DOMAIN h, i \in DOMAIN t : t[i].kind = "shot" => h[l].of[2] < t[i].shot
  <2>1. \A i \in DOMAIN t : t[i].kind = "shot" => t[i].shot <= n
    BY <1>1, Zenon DEF ShotsFit
  <2>2. \A i, j \in DOMAIN t : i < j /\ t[i].kind = "shot" /\ t[j].kind = "shot" => t[i].shot < t[j].shot
    BY <1>1, Zenon DEF ShotsFit
  <2>3. \A k \in DOMAIN p, i \in DOMAIN t : t[i].kind = "shot" => p[k].of[2] < t[i].shot
    BY <1>1, Zenon DEF ShotsFit
  <2>4. \A l \in DOMAIN h, i \in DOMAIN t : t[i].kind = "shot" => h[l].of[2] < t[i].shot
    BY <1>1, Zenon DEF ShotsFit
  <2>5. QED
    BY <2>1, <2>2, <2>3, <2>4, Zenon
<1>3. m[1].kind = "shot" => \A i \in DOMAIN t : t[i].kind = "shot" => m[1].shot < t[i].shot
  BY <1>1, Zenon DEF ShotsFit
<1>4. ShotsFit(t, p, h, n)
  BY <1>2, Zenon DEF ShotsFit
<1>5. QED
  BY <1>3, <1>4

(* One more kept, of the first to come.                                    *)
LEMMA ShotKept ==
  ASSUME NEW m \in Seq(Messages), NEW p \in Seq(ShotEvents), NEW q, NEW h, NEW n, NEW e \in ShotEvents,
         ShotsFit(m, p, h, n), Embeds(q, Append(p, e)), e.of[2] <= n,
         \A i \in DOMAIN m : m[i].kind = "shot" => e.of[2] < m[i].shot,
         \A k \in DOMAIN p : p[k].of[2] < e.of[2],
         \A l \in DOMAIN h : h[l].of[2] < e.of[2]
  PROVE  ShotsFit(m, q, h, n)
<1>. DEFINE all == Append(p, e)
            P == Len(p)
<1>1. /\ P \in Nat /\ DOMAIN all = 1 .. P + 1 /\ DOMAIN p = 1 .. P
      /\ \A i \in 1 .. P : all[i] = p[i]
      /\ all[P + 1] = e
  OBVIOUS
<1>. HIDE DEF all, P
<1>2. ASSUME NEW k \in DOMAIN all
      PROVE  /\ all[k].of[2] <= n
             /\ \A i \in DOMAIN m : m[i].kind = "shot" => all[k].of[2] < m[i].shot
             /\ \A l \in DOMAIN h : h[l].of[2] < all[k].of[2]
  <2>1. CASE k \in DOMAIN p /\ all[k] = p[k]
    BY <2>1, Zenon DEF ShotsFit
  <2>2. CASE k = P + 1
    BY <1>1, <2>2, Zenon
  <2>3. QED
    BY <1>1, <2>1, <2>2
<1>3. ASSUME NEW j \in DOMAIN all, NEW k \in DOMAIN all, j < k PROVE all[j].of[2] < all[k].of[2]
  <2>1. j \in DOMAIN p /\ all[j] = p[j]
    BY <1>1, <1>3
  <2>2. CASE k \in DOMAIN p /\ all[k] = p[k]
    BY <1>3, <2>1, <2>2, Zenon DEF ShotsFit
  <2>3. CASE k = P + 1
    BY <1>1, <2>1, <2>3, Zenon
  <2>4. QED
    BY <1>1, <2>2, <2>3
<1>4. ShotsFit(m, all, h, n)
  BY <1>2, <1>3, Zenon DEF ShotsFit
<1>5. PICK from \in [DOMAIN q -> DOMAIN all] :
    /\ \A k \in DOMAIN q : q[k] = all[from[k]]
    /\ \A k, l \in DOMAIN q : k < l => from[k] < from[l]
  BY Zenon DEF Embeds, all
<1>6. \A k \in DOMAIN q : from[k] \in DOMAIN all
  BY <1>5
<1>7. QED
  BY <1>4, <1>5, <1>6, Zenon DEF ShotsFit

(* Some handed, g, of match, and of the others those after it kept.        *)
LEMMA ShotsGiven ==
  ASSUME NEW m, NEW p \in Seq(ShotEvents), NEW q \in Seq(ShotEvents), NEW h \in Seq(ShotsTaken),
         NEW g \in Seq(ShotsTaken), NEW n, NEW match, NEW started, match \in Nat,
         ShotsFit(m, p, h, n), OfTheirMatches(p, started), Embeds(q, p),
         \A i \in DOMAIN q : q[i].match > match,
         NEW given \in [DOMAIN g -> DOMAIN p],
         \A k \in DOMAIN g : g[k].of = p[given[k]].of /\ p[given[k]].match = match,
         \A k, l \in DOMAIN g : k < l => given[k] < given[l]
  PROVE  ShotsFit(m, q, h \o g, n)
<1>. DEFINE all == h \o g
            H == Len(h)
            G == Len(g)
<1>1. /\ H \in Nat /\ G \in Nat /\ DOMAIN all = 1 .. H + G /\ DOMAIN h = 1 .. H /\ DOMAIN g = 1 .. G
      /\ \A i \in 1 .. H : all[i] = h[i]
      /\ \A i \in H + 1 .. H + G : all[i] = g[i - H]
  OBVIOUS
<1>2. DOMAIN p = 1 .. Len(p) /\ Len(p) \in Nat /\ \A k \in DOMAIN p : p[k].match \in Nat
  <2>1. \A k \in DOMAIN p : p[k] \in ShotEvents
    OBVIOUS
  <2>2. QED
    BY <2>1, ShotNumbers
<1>3. PICK from \in [DOMAIN q -> DOMAIN p] :
    /\ \A k \in DOMAIN q : q[k] = p[from[k]]
    /\ \A k, l \in DOMAIN q : k < l => from[k] < from[l]
  BY Zenon DEF Embeds
<1>4. /\ \A k \in DOMAIN q : from[k] \in DOMAIN p /\ from[k] \in Nat
      /\ \A k \in DOMAIN g : given[k] \in DOMAIN p /\ given[k] \in Nat
  BY <1>2, <1>3
<1>. HIDE DEF all, H, G
<1>5. ASSUME NEW k \in DOMAIN q, NEW l \in DOMAIN g PROVE g[l].of[2] < q[k].of[2]
  <2>1. p[from[k]].match > match /\ p[given[l]].match = match
    BY <1>3
  <2>2. given[l] < from[k]
    <3>1. SUFFICES ASSUME ~(given[l] < from[k]) PROVE FALSE
      OBVIOUS
    <3>2. from[k] = given[l] \/ from[k] < given[l]
      BY <1>4, <3>1
    <3>3. p[from[k]].match <= p[given[l]].match
      BY <1>2, <1>4, <3>2 DEF OfTheirMatches
    <3>4. QED
      BY <1>2, <1>4, <2>1, <3>3
  <2>3. p[given[l]].of[2] < p[from[k]].of[2]
    BY <1>4, <2>2, Zenon DEF ShotsFit
  <2>4. QED
    BY <1>3, <2>3
<1>6. ASSUME NEW l \in DOMAIN all
      PROVE  \/ l \in DOMAIN h /\ all[l] = h[l]
             \/ l - H \in DOMAIN g /\ all[l] = g[l - H]
  BY <1>1
<1>7. ASSUME NEW l \in DOMAIN all
      PROVE  /\ all[l].of[2] <= n
             /\ \A i \in DOMAIN m : m[i].kind = "shot" => all[l].of[2] < m[i].shot
             /\ \A k \in DOMAIN q : all[l].of[2] < q[k].of[2]
  <2>1. CASE l \in DOMAIN h /\ all[l] = h[l]
    <3>1. \A k \in DOMAIN q : h[l].of[2] < p[from[k]].of[2]
      BY <1>4, <2>1, Zenon DEF ShotsFit
    <3>2. QED
      BY <1>3, <2>1, <3>1, Zenon DEF ShotsFit
  <2>2. CASE l - H \in DOMAIN g /\ all[l] = g[l - H]
    <3>1. g[l - H].of = p[given[l - H]].of /\ given[l - H] \in DOMAIN p
      BY <1>4, <2>2
    <3>2. p[given[l - H]].of[2] <= n
          /\ \A i \in DOMAIN m : m[i].kind = "shot" => p[given[l - H]].of[2] < m[i].shot
      BY <3>1, Zenon DEF ShotsFit
    <3>3. \A k \in DOMAIN q : g[l - H].of[2] < q[k].of[2]
      BY <1>5, <2>2, Zenon
    <3>4. QED
      BY <2>2, <3>1, <3>2, <3>3, Zenon
  <2>3. QED
    BY <1>6, <2>1, <2>2
<1>8. ASSUME NEW j \in DOMAIN all, NEW k \in DOMAIN all, j < k PROVE all[j].of[2] < all[k].of[2]
  <2>0. j \in 1 .. H + G /\ k \in 1 .. H + G /\ H \in Nat /\ G \in Nat
    BY <1>1
  <2>1. CASE k \in 1 .. H
    <3>1. j \in 1 .. H
      BY <1>8, <2>0, <2>1
    <3>2. all[j] = h[j] /\ all[k] = h[k] /\ j \in DOMAIN h /\ k \in DOMAIN h
      BY <1>1, <2>1, <3>1
    <3>3. QED
      BY <1>8, <3>2, Zenon DEF ShotsFit
  <2>2. CASE j \in 1 .. H /\ k \notin 1 .. H
    <3>1. k \in H + 1 .. H + G /\ k - H \in 1 .. G
      BY <2>0, <2>2
    <3>2. all[j] = h[j] /\ all[k] = g[k - H] /\ j \in DOMAIN h /\ k - H \in DOMAIN g
      BY <1>1, <2>2, <3>1
    <3>3. given[k - H] \in DOMAIN p /\ g[k - H].of = p[given[k - H]].of
      BY <1>4, <3>2
    <3>4. h[j].of[2] < p[given[k - H]].of[2]
      BY <3>2, <3>3, Zenon DEF ShotsFit
    <3>5. QED
      BY <3>2, <3>3, <3>4
  <2>3. CASE j \notin 1 .. H
    <3>1. j \in H + 1 .. H + G /\ k \in H + 1 .. H + G
      BY <1>8, <2>0, <2>3
    <3>2. j - H \in 1 .. G /\ k - H \in 1 .. G /\ j - H < k - H
      BY <1>8, <2>0, <3>1
    <3>3. all[j] = g[j - H] /\ all[k] = g[k - H] /\ j - H \in DOMAIN g /\ k - H \in DOMAIN g
      BY <1>1, <3>1, <3>2
    <3>4. /\ given[j - H] \in DOMAIN p /\ given[k - H] \in DOMAIN p /\ given[j - H] < given[k - H]
          /\ g[j - H].of = p[given[j - H]].of /\ g[k - H].of = p[given[k - H]].of
      BY <1>4, <3>2, <3>3
    <3>5. p[given[j - H]].of[2] < p[given[k - H]].of[2]
      BY <3>4, Zenon DEF ShotsFit
    <3>6. QED
      BY <3>3, <3>4, <3>5
  <2>4. QED
    BY <2>1, <2>2, <2>3
<1>9. \A k \in DOMAIN q : /\ q[k].of[2] <= n
                         /\ \A i \in DOMAIN m : m[i].kind = "shot" => q[k].of[2] < m[i].shot
  BY <1>3, <1>4, Zenon DEF ShotsFit
<1>10. \A j, k \in DOMAIN q : j < k => q[j].of[2] < q[k].of[2]
  BY <1>3, <1>4, Zenon DEF ShotsFit
<1>11. /\ \A i \in DOMAIN m : m[i].kind = "shot" => m[i].shot <= n
       /\ \A i, j \in DOMAIN m : i < j /\ m[i].kind = "shot" /\ m[j].kind = "shot" => m[i].shot < m[j].shot
  BY Zenon DEF ShotsFit
<1>12. ShotsFit(m, q, all, n)
  <2>1. \A k \in DOMAIN q : q[k].of[2] <= n
    BY <1>9, Zenon
  <2>2. \A k \in DOMAIN q, i \in DOMAIN m : m[i].kind = "shot" => q[k].of[2] < m[i].shot
    BY <1>9, Zenon
  <2>3. \A k \in DOMAIN q, l \in DOMAIN all : all[l].of[2] < q[k].of[2]
    BY <1>7, Zenon
  <2>4. \A l \in DOMAIN all : all[l].of[2] <= n
    BY <1>7, Zenon
  <2>5. \A l \in DOMAIN all, i \in DOMAIN m : m[i].kind = "shot" => all[l].of[2] < m[i].shot
    BY <1>7, Zenon
  <2>6. \A j, k \in DOMAIN all : j < k => all[j].of[2] < all[k].of[2]
    BY <1>8, Zenon
  <2>7. QED
    BY <1>10, <1>11, <2>1, <2>2, <2>3, <2>4, <2>5, <2>6, Zenon DEF ShotsFit
<1>13. QED
  BY <1>12 DEF all

PendingOfTheirs == /\ OfTheirMatches(pending.shots, published.started)
                   /\ OfTheirMatches(pending.deaths, published.started)
ShotsInLine == ShotsFit(reliable, pending.shots, handed.shots, truth.shots)
HandedOfTheirs == \A i \in DOMAIN handed.shots : handed.shots[i].to = handed.shots[i].of[1]

LEMMA EventTypes ==
  ASSUME Base
  PROVE  /\ reliable \in Seq(Messages) /\ pending.shots \in Seq(ShotEvents) /\ pending.deaths \in Seq(DeathEvents)
         /\ handed.shots \in Seq(ShotsTaken) /\ handed.deaths \in Seq(Entities) /\ truth.shots \in Nat
         /\ \A e \in DeathEvents : e.match \in Nat /\ e.of \in Entities
         /\ \A e \in ShotEvents : e.match \in Nat
<1>1. \A e \in DeathEvents : e.match \in Nat /\ e.of \in Entities
  BY DEF DeathEvents
<1>2. \A e \in ShotEvents : e.match \in Nat
  BY DEF ShotEvents
<1>3. QED
  BY <1>1, <1>2 DEF Base, ViewTyped, ShotsTaken

LEMMA OfEarlierMatches ==
  ASSUME NEW T, NEW events \in Seq(T), \A x \in T : x.match \in Nat, NEW a \in Nat, NEW b \in Nat, a <= b,
         OfTheirMatches(events, a)
  PROVE  OfTheirMatches(events, b)
<1>1. \A i \in DOMAIN events : events[i].match \in Nat
  OBVIOUS
<1>2. QED
  BY <1>1 DEF OfTheirMatches

(* An event received in a match is of that match.                          *)
LEMMA ReceivedIsOfItsMatch ==
  ASSUME Base, MatchesInLine, reliable # <<>>, reliable[1].kind # "start"
  PROVE  reliable[1].match = published.started
<1>1. Opens(reliable[1]) = 0 /\ published.started \in Nat
  BY MatchNumbers DEF Opens
<1>2. reliable[1].match = published.started + Opens(reliable[1])
  BY Zenon DEF MatchesInLine, Chain
<1>3. QED
  BY <1>1, <1>2

(* What is kept is of the match it came in.                                *)
LEMMA PendingAtReceipt ==
  Base /\ MatchesInLine /\ PendingOfTheirs /\ ReceiveReliable => PendingOfTheirs'
<1>. SUFFICES ASSUME Base, MatchesInLine, PendingOfTheirs, ReceiveReliable PROVE PendingOfTheirs'
  OBVIOUS
<1>1. /\ reliable # <<>>
      /\ \/ Starts(reliable[1]) \/ Ends(reliable[1]) \/ KeepsShot(reliable[1]) \/ KeepsDeath(reliable[1])
  BY WhatIsReceived, Zenon DEF Base
<1>2. published.started \in Nat
  BY MatchNumbers
<1>3. /\ pending.shots \in Seq(ShotEvents) /\ pending.deaths \in Seq(DeathEvents)
      /\ \A e \in DeathEvents : e.match \in Nat /\ e.of \in Entities
      /\ \A e \in ShotEvents : e.match \in Nat
  BY EventTypes
<1>4. CASE pending' = pending /\ published'.started \in {published.started, published.started + 1}
  <2>1. published'.started \in Nat /\ published.started <= published'.started
    BY <1>2, <1>4
  <2>2. /\ OfTheirMatches(pending.shots, published'.started)
        /\ OfTheirMatches(pending.deaths, published'.started)
    BY <1>2, <1>3, <2>1, OfEarlierMatches DEF PendingOfTheirs
  <2>3. QED
    BY <1>4, <2>2 DEF PendingOfTheirs
<1>5. CASE /\ reliable[1].kind = "shot" /\ published' = published /\ pending'.deaths = pending.deaths
           /\ ShotOf(reliable[1]) \in ShotEvents
           /\ Embeds(pending'.shots, Append(pending.shots, ShotOf(reliable[1])))
  <2>1. ShotOf(reliable[1]).match = published.started /\ ShotOf(reliable[1]).of[1] = published.started
    BY <1>1, <1>5, ReceivedIsOfItsMatch DEF ShotOf
  <2>2. OfTheirMatches(Append(pending.shots, ShotOf(reliable[1])), published.started)
    BY <1>2, <1>3, <1>5, <2>1, AppendedOfItsMatch DEF PendingOfTheirs
  <2>3. OfTheirMatches(pending'.shots, published.started)
    BY <1>5, <2>2, LeftOfTheirMatches
  <2>4. QED
    BY <1>5, <2>3 DEF PendingOfTheirs
<1>6. CASE /\ reliable[1].kind = "death" /\ published'.started = published.started
           /\ pending'.shots = pending.shots
           /\ DeathOf(reliable[1]) \in DeathEvents
           /\ Embeds(pending'.deaths, Append(pending.deaths, DeathOf(reliable[1])))
  <2>1. DeathOf(reliable[1]).match = published.started /\ DeathOf(reliable[1]).of[1] = published.started
    BY <1>1, <1>6, ReceivedIsOfItsMatch DEF DeathOf, Entity
  <2>2. OfTheirMatches(Append(pending.deaths, DeathOf(reliable[1])), published.started)
    BY <1>2, <1>3, <1>6, <2>1, AppendedOfItsMatch DEF PendingOfTheirs
  <2>3. OfTheirMatches(pending'.deaths, published.started)
    BY <1>6, <2>2, LeftOfTheirMatches
  <2>4. QED
    BY <1>6, <2>3 DEF PendingOfTheirs
<1>7. QED
  BY <1>1, <1>4, <1>5, <1>6, Zenon DEF Starts, Ends, KeepsShot, KeepsDeath

LEMMA PendingAtFrame == Base /\ PendingOfTheirs /\ FrameShows => PendingOfTheirs'
<1>. SUFFICES ASSUME Base, PendingOfTheirs, FrameShows PROVE PendingOfTheirs'
  OBVIOUS
<1>1. /\ Embeds(pending'.shots, pending.shots) /\ Embeds(pending'.deaths, pending.deaths)
      /\ published' = published
  BY AFrame, Zenon
<1>2. /\ OfTheirMatches(pending'.shots, published.started)
      /\ OfTheirMatches(pending'.deaths, published.started)
  BY <1>1, LeftOfTheirMatches, Zenon DEF PendingOfTheirs
<1>3. QED
  BY <1>1, <1>2, Zenon DEF PendingOfTheirs

-----------------------------------------------------------------------------
LEMMA ShotsAtStart == Base /\ ShotsInLine /\ ServerStart => ShotsInLine'
<1>. SUFFICES ASSUME Base, ShotsInLine, ServerStart PROVE ShotsInLine'
  OBVIOUS
<1>. DEFINE x == <<[kind |-> "start", match |-> truth.match + 1]>>
<1>1. /\ truth.match < LastMatch /\ reliable' = reliable \o x
      /\ truth' = [truth EXCEPT !.match = @ + 1, !.on = TRUE, !.alive = ViewPlayers]
      /\ pending' = pending /\ handed' = handed
  BY Zenon DEF ServerStart, Tell
<1>2. truth \in Truths
  BY DEF Base, ViewTyped, Truths
<1>3. truth'.shots = truth.shots /\ truth.match + 1 \in Matches
  BY <1>1, <1>2, Bounds DEF Truths, Matches
<1>4. /\ x \in Seq(Messages) /\ DOMAIN x = {1} /\ x[1].kind # "shot"
  BY <1>3 DEF Messages
<1>5. /\ reliable \in Seq(Messages) /\ pending.shots \in Seq(ShotEvents)
      /\ handed.shots \in Seq(ShotsTaken) /\ truth.shots \in Nat
  BY EventTypes
<1>. HIDE DEF x
<1>6. /\ \A i \in DOMAIN x : x[i].kind = "shot" => FALSE
      /\ \A i, j \in DOMAIN x : i < j => FALSE
  BY <1>4
<1>7. ShotsFit(reliable \o x, pending.shots, handed.shots, truth.shots)
  BY <1>4, <1>5, <1>6, ShotsTold DEF ShotsInLine
<1>8. QED
  BY <1>1, <1>3, <1>7, Zenon DEF ShotsInLine

LEMMA ShotsAtTick == Base /\ ShotsInLine /\ ServerTicks => ShotsInLine'
<1>. SUFFICES ASSUME Base, ShotsInLine, ServerTicks PROVE ShotsInLine'
  OBVIOUS
<1>1. pending' = pending /\ handed' = handed
  BY ATick, Zenon
<1>2. PICK messages, left : TickTells(messages, left)
  BY ATick, Zenon
<1>3. /\ reliable' = reliable \o messages /\ messages \in Seq(Messages)
      /\ truth'.shots \in {truth.shots, truth.shots + 1}
  BY <1>2, Zenon DEF TickTells
<1>4. /\ \A i \in DOMAIN messages :
             messages[i].kind = "shot" => messages[i].shot = truth.shots + 1 /\ truth'.shots = truth.shots + 1
      /\ \A i, j \in DOMAIN messages : i < j => messages[i].kind # messages[j].kind
  BY <1>2, Zenon DEF TickTells
<1>5. /\ reliable \in Seq(Messages) /\ pending.shots \in Seq(ShotEvents)
      /\ handed.shots \in Seq(ShotsTaken) /\ truth.shots \in Nat
  BY EventTypes
<1>6. ShotsFit(reliable \o messages, pending.shots, handed.shots, truth'.shots)
  BY <1>3, <1>4, <1>5, ShotsTold DEF ShotsInLine
<1>7. QED
  BY <1>1, <1>3, <1>6, Zenon DEF ShotsInLine

(* A Shot received is newer than those kept and those handed.              *)
LEMMA ShotsAtReceipt == Base /\ ShotsInLine /\ ReceiveReliable => ShotsInLine'
<1>. SUFFICES ASSUME Base, ShotsInLine, ReceiveReliable PROVE ShotsInLine'
  OBVIOUS
<1>1. /\ reliable # <<>> /\ reliable[1] \in Messages
      /\ reliable' \in Seq(Messages) /\ DOMAIN reliable' = 1 .. Len(reliable) - 1
      /\ 1 \in DOMAIN reliable
      /\ \A i \in 1 .. Len(reliable) - 1 : reliable'[i] = reliable[i + 1]
      /\ truth' = truth /\ handed' = handed
      /\ \/ Starts(reliable[1]) \/ Ends(reliable[1]) \/ KeepsShot(reliable[1]) \/ KeepsDeath(reliable[1])
  BY WhatIsReceived DEF Base
<1>2. /\ reliable \in Seq(Messages) /\ pending.shots \in Seq(ShotEvents)
      /\ handed.shots \in Seq(ShotsTaken) /\ truth.shots \in Nat
  BY EventTypes
<1>3. /\ ShotsFit(reliable', pending.shots, handed.shots, truth.shots)
      /\ reliable[1].kind = "shot" =>
           \A i \in DOMAIN reliable' : reliable'[i].kind = "shot" => reliable[1].shot < reliable'[i].shot
  BY <1>1, <1>2, ShotsReceived DEF ShotsInLine
<1>4. CASE pending'.shots = pending.shots
  BY <1>1, <1>3, <1>4, Zenon DEF ShotsInLine
<1>5. CASE /\ reliable[1].kind = "shot"
           /\ ShotOf(reliable[1]) \in ShotEvents
           /\ Embeds(pending'.shots, Append(pending.shots, ShotOf(reliable[1])))
  <2>1. ShotOf(reliable[1]).of[2] = reliable[1].shot
    BY DEF ShotOf
  <2>2. /\ reliable[1].shot <= truth.shots
        /\ \A k \in DOMAIN pending.shots : pending.shots[k].of[2] < reliable[1].shot
        /\ \A l \in DOMAIN handed.shots : handed.shots[l].of[2] < reliable[1].shot
    BY <1>1, <1>5, Zenon DEF ShotsInLine, ShotsFit
  <2>3. ShotsFit(reliable', pending'.shots, handed.shots, truth.shots)
    BY <1>1, <1>2, <1>3, <1>5, <2>1, <2>2, ShotKept
  <2>4. QED
    BY <1>1, <2>3, Zenon DEF ShotsInLine
<1>6. QED
  BY <1>1, <1>4, <1>5, Zenon DEF Starts, Ends, KeepsShot, KeepsDeath

(* Shots are handed in order, those of the frame's match alone.            *)
LEMMA ShotsAtFrame == Base /\ ShotsInLine /\ PendingOfTheirs /\ FrameShows => ShotsInLine'
<1>. SUFFICES ASSUME Base, ShotsInLine, PendingOfTheirs, FrameShows PROVE ShotsInLine'
  OBVIOUS
<1>1. /\ frame.open /\ reliable' = reliable /\ truth' = truth
      /\ pending' \in [shots : Seq(ShotEvents), deaths : Seq(DeathEvents)]
      /\ Embeds(pending'.shots, pending.shots)
      /\ \A i \in DOMAIN pending'.shots : pending'.shots[i].match > frame.match
      /\ handed' = [shots |-> handed.shots \o HandedShots, deaths |-> handed.deaths \o DeathsHanded,
                    ends |-> handed.ends \o Stingers]
  BY AFrame, Zenon
<1>2. /\ reliable \in Seq(Messages) /\ pending.shots \in Seq(ShotEvents)
      /\ handed.shots \in Seq(ShotsTaken) /\ truth.shots \in Nat
  BY EventTypes
<1>3. HandedShots \in Seq(ShotsTaken)
      /\ \E from \in [DOMAIN HandedShots -> DOMAIN pending.shots] :
              /\ \A k \in DOMAIN HandedShots :
                   /\ HandedShots[k] = [of |-> pending.shots[from[k]].of, to |-> frame.match]
                   /\ pending.shots[from[k]].match = frame.match
              /\ \A k, l \in DOMAIN HandedShots : k < l => from[k] < from[l]
  BY <1>1, ShotsHanded, Zenon DEF Base, ShotsTaken
<1>4. PICK from \in [DOMAIN HandedShots -> DOMAIN pending.shots] :
              /\ \A k \in DOMAIN HandedShots :
                   /\ HandedShots[k] = [of |-> pending.shots[from[k]].of, to |-> frame.match]
                   /\ pending.shots[from[k]].match = frame.match
              /\ \A k, l \in DOMAIN HandedShots : k < l => from[k] < from[l]
  BY <1>3, Zenon
<1>5. \A k \in DOMAIN HandedShots :
        HandedShots[k].of = pending.shots[from[k]].of /\ pending.shots[from[k]].match = frame.match
  BY <1>4
<1>6. frame.match \in Nat
  BY <1>1, MatchNumbers
<1>7. pending'.shots \in Seq(ShotEvents)
  BY <1>1
<1>8. OfTheirMatches(pending.shots, published.started)
      /\ ShotsFit(reliable, pending.shots, handed.shots, truth.shots)
  BY DEF PendingOfTheirs, ShotsInLine
<1>. DEFINE g == HandedShots
<1>. HIDE DEF g
<1>9. /\ g \in Seq(ShotsTaken) /\ from \in [DOMAIN g -> DOMAIN pending.shots]
      /\ \A k \in DOMAIN g : g[k].of = pending.shots[from[k]].of /\ pending.shots[from[k]].match = frame.match
      /\ \A k, l \in DOMAIN g : k < l => from[k] < from[l]
  BY <1>3, <1>4, <1>5, Zenon DEF g
<1>10. ShotsFit(reliable, pending'.shots, handed.shots \o g, truth.shots)
  BY <1>1, <1>2, <1>6, <1>7, <1>8, <1>9, ShotsGiven
<1>11. handed'.shots = handed.shots \o g
  BY <1>1 DEF g
<1>12. QED
  BY <1>1, <1>10, <1>11, Zenon DEF ShotsInLine

(* A frame is handed shots of its own match.                               *)
LEMMA HandedAtFrame == Base /\ PendingOfTheirs /\ HandedOfTheirs /\ FrameShows => HandedOfTheirs'
<1>. SUFFICES ASSUME Base, PendingOfTheirs, HandedOfTheirs, FrameShows PROVE HandedOfTheirs'
  OBVIOUS
<1>1. /\ frame.open
      /\ handed' = [shots |-> handed.shots \o HandedShots, deaths |-> handed.deaths \o DeathsHanded,
                    ends |-> handed.ends \o Stingers]
  BY AFrame, Zenon
<1>2. handed.shots \in Seq(ShotsTaken)
  BY EventTypes
<1>3. HandedShots \in Seq(ShotsTaken)
      /\ \E from \in [DOMAIN HandedShots -> DOMAIN pending.shots] :
              \A k \in DOMAIN HandedShots :
                   /\ HandedShots[k] = [of |-> pending.shots[from[k]].of, to |-> frame.match]
                   /\ pending.shots[from[k]].match = frame.match
  BY <1>1, ShotsHanded, Zenon DEF Base, ShotsTaken
<1>4. PICK from \in [DOMAIN HandedShots -> DOMAIN pending.shots] :
              \A k \in DOMAIN HandedShots :
                   /\ HandedShots[k] = [of |-> pending.shots[from[k]].of, to |-> frame.match]
                   /\ pending.shots[from[k]].match = frame.match
  BY <1>3, Zenon
<1>5. \A k \in DOMAIN HandedShots : HandedShots[k].to = HandedShots[k].of[1]
  <2>. SUFFICES ASSUME NEW k \in DOMAIN HandedShots PROVE HandedShots[k].to = HandedShots[k].of[1]
    OBVIOUS
  <2>1. from[k] \in DOMAIN pending.shots /\ pending.shots[from[k]].match = frame.match
        /\ HandedShots[k].of = pending.shots[from[k]].of /\ HandedShots[k].to = frame.match
    BY <1>4
  <2>2. pending.shots[from[k]].match = pending.shots[from[k]].of[1]
    BY <2>1, Zenon DEF PendingOfTheirs, OfTheirMatches
  <2>3. QED
    BY <2>1, <2>2
<1>. DEFINE g == HandedShots
<1>6. handed'.shots = handed.shots \o g
  BY <1>1
<1>7. g \in Seq(ShotsTaken) /\ \A k \in DOMAIN g : g[k].to = g[k].of[1]
  BY <1>3, <1>5
<1>. HIDE DEF g
<1>8. \A i \in DOMAIN (handed.shots \o g) :
         \/ i \in DOMAIN handed.shots /\ (handed.shots \o g)[i] = handed.shots[i]
         \/ i - Len(handed.shots) \in DOMAIN g /\ (handed.shots \o g)[i] = g[i - Len(handed.shots)]
  BY <1>2, <1>7
<1>. DEFINE all == handed.shots \o g
<1>9. \A i \in DOMAIN all : all[i].to = all[i].of[1]
  <2>. SUFFICES ASSUME NEW i \in DOMAIN all PROVE all[i].to = all[i].of[1]
    OBVIOUS
  <2>1. CASE i \in DOMAIN handed.shots /\ all[i] = handed.shots[i]
    BY <2>1, Zenon DEF HandedOfTheirs
  <2>2. CASE i - Len(handed.shots) \in DOMAIN g /\ all[i] = g[i - Len(handed.shots)]
    BY <1>7, <2>2, Zenon
  <2>3. QED
    BY <1>8, <2>1, <2>2
<1>10. QED
  BY <1>6, <1>9, Zenon DEF HandedOfTheirs

VictimOf(message) == Entity(message.match, message.victim)

(* The deaths told and to come, m; kept, p; and handed, h: of the dead, D, *)
(* and no two of one.                                                      *)
DeathsFit(m, p, h, D) ==
  /\ \A i \in DOMAIN m : m[i].kind = "death" => VictimOf(m[i]) \in D
  /\ \A i, j \in DOMAIN m : i # j /\ m[i].kind = "death" /\ m[j].kind = "death" => VictimOf(m[i]) # VictimOf(m[j])
  /\ \A k \in DOMAIN p : p[k].of \in D
  /\ \A k \in DOMAIN p, i \in DOMAIN m : m[i].kind = "death" => p[k].of # VictimOf(m[i])
  /\ \A k \in DOMAIN p, l \in DOMAIN h : h[l] # p[k].of
  /\ \A j, k \in DOMAIN p : j # k => p[j].of # p[k].of
  /\ \A l \in DOMAIN h : h[l] \in D
  /\ \A l \in DOMAIN h, i \in DOMAIN m : m[i].kind = "death" => h[l] # VictimOf(m[i])
  /\ \A j, k \in DOMAIN h : j # k => h[j] # h[k]

LEMMA DeathsTold ==
  ASSUME NEW m \in Seq(Messages), NEW x \in Seq(Messages), NEW p, NEW h, NEW D, NEW later, D \subseteq later,
         DeathsFit(m, p, h, D),
         \A i \in DOMAIN x : x[i].kind = "death" => VictimOf(x[i]) \in later \ D,
         \A i, j \in DOMAIN x : i < j => x[i].kind # x[j].kind
  PROVE  DeathsFit(m \o x, p, h, later)
<1>. DEFINE all == m \o x
            M == Len(m)
            X == Len(x)
<1>1. /\ DOMAIN all = 1 .. M + X /\ M \in Nat /\ X \in Nat
      /\ \A i \in 1 .. M : all[i] = m[i]
      /\ \A i \in M + 1 .. M + X : all[i] = x[i - M]
      /\ DOMAIN m = 1 .. M /\ DOMAIN x = 1 .. X
  OBVIOUS
<1>. HIDE DEF all, M, X
<1>2. ASSUME NEW i \in DOMAIN all
      PROVE  \/ i \in DOMAIN m /\ all[i] = m[i]
             \/ i \notin DOMAIN m /\ i - M \in DOMAIN x /\ all[i] = x[i - M]
  BY <1>1
<1>3. ASSUME NEW i \in DOMAIN all, all[i].kind = "death"
      PROVE  /\ VictimOf(all[i]) \in later
             /\ \A k \in DOMAIN p : p[k].of # VictimOf(all[i])
             /\ \A l \in DOMAIN h : h[l] # VictimOf(all[i])
  <2>1. CASE i \in DOMAIN m /\ all[i] = m[i]
    <3>1. VictimOf(m[i]) \in D
      BY <1>3, <2>1, Zenon DEF DeathsFit
    <3>2. /\ \A k \in DOMAIN p : p[k].of # VictimOf(m[i])
          /\ \A l \in DOMAIN h : h[l] # VictimOf(m[i])
      BY <1>3, <2>1, Zenon DEF DeathsFit
    <3>3. QED
      BY <2>1, <3>1, <3>2
  <2>2. CASE i - M \in DOMAIN x /\ all[i] = x[i - M]
    <3>1. VictimOf(all[i]) \in later /\ VictimOf(all[i]) \notin D
      BY <1>3, <2>2
    <3>2. /\ \A k \in DOMAIN p : p[k].of \in D
          /\ \A l \in DOMAIN h : h[l] \in D
      BY Zenon DEF DeathsFit
    <3>3. QED
      BY <3>1, <3>2
  <2>3. QED
    BY <1>2, <2>1, <2>2
<1>4. ASSUME NEW i \in DOMAIN all, NEW j \in DOMAIN all, i # j, all[i].kind = "death", all[j].kind = "death"
      PROVE  VictimOf(all[i]) # VictimOf(all[j])
  <2>1. CASE i \in DOMAIN m /\ all[i] = m[i] /\ j \in DOMAIN m /\ all[j] = m[j]
    BY <1>4, <2>1, Zenon DEF DeathsFit
  <2>2. ASSUME NEW a \in DOMAIN m, NEW b \in DOMAIN x, m[a].kind = "death", x[b].kind = "death"
        PROVE  VictimOf(m[a]) # VictimOf(x[b])
    <3>1. VictimOf(m[a]) \in D
      BY <2>2, Zenon DEF DeathsFit
    <3>2. VictimOf(x[b]) \notin D
      BY <2>2
    <3>3. QED
      BY <3>1, <3>2
  <2>3. CASE i \in DOMAIN m /\ all[i] = m[i] /\ j - M \in DOMAIN x /\ all[j] = x[j - M]
    BY <1>4, <2>2, <2>3
  <2>4. CASE j \in DOMAIN m /\ all[j] = m[j] /\ i - M \in DOMAIN x /\ all[i] = x[i - M]
    <3>1. VictimOf(m[j]) # VictimOf(x[i - M])
      BY <1>4, <2>2, <2>4
    <3>2. QED
      BY <2>4, <3>1
  <2>5. CASE i - M \in DOMAIN x /\ all[i] = x[i - M] /\ j - M \in DOMAIN x /\ all[j] = x[j - M]
    <3>1. i \in Int /\ j \in Int /\ M \in Int
      BY <1>1
    <3>2. i - M < j - M \/ j - M < i - M
      BY <1>4, <3>1
    <3>3. x[i - M].kind # x[j - M].kind
      BY <2>5, <3>2
    <3>4. QED
      BY <1>4, <2>5, <3>3
  <2>6. QED
    BY <1>2, <2>1, <2>3, <2>4, <2>5
<1>5. /\ \A k \in DOMAIN p : p[k].of \in later
      /\ \A l \in DOMAIN h : h[l] \in later
  BY DEF DeathsFit
<1>6. /\ \A i \in DOMAIN all : all[i].kind = "death" => VictimOf(all[i]) \in later
      /\ \A k \in DOMAIN p, i \in DOMAIN all : all[i].kind = "death" => p[k].of # VictimOf(all[i])
      /\ \A l \in DOMAIN h, i \in DOMAIN all : all[i].kind = "death" => h[l] # VictimOf(all[i])
  BY <1>3, Zenon
<1>7. \A i, j \in DOMAIN all :
        i # j /\ all[i].kind = "death" /\ all[j].kind = "death" => VictimOf(all[i]) # VictimOf(all[j])
  BY <1>4, Zenon
<1>8. DeathsFit(all, p, h, later)
  BY <1>5, <1>6, <1>7, Zenon DEF DeathsFit
<1>9. QED
  BY <1>8 DEF all

(* One less to come.                                                       *)
LEMMA DeathsReceived ==
  ASSUME NEW m \in Seq(Messages), NEW t \in Seq(Messages), NEW p, NEW h, NEW D,
         DeathsFit(m, p, h, D), m # <<>>, DOMAIN t = 1 .. Len(m) - 1,
         \A i \in 1 .. Len(m) - 1 : t[i] = m[i + 1]
  PROVE  /\ DeathsFit(t, p, h, D)
         /\ m[1].kind = "death" => \A i \in DOMAIN t : t[i].kind = "death" => VictimOf(m[1]) # VictimOf(t[i])
<1>1. /\ \A i \in DOMAIN t : i + 1 \in DOMAIN m /\ t[i] = m[i + 1] /\ 1 # i + 1
      /\ \A i, j \in DOMAIN t : i # j => i + 1 # j + 1
      /\ 1 \in DOMAIN m
  OBVIOUS
<1>2. \A i \in DOMAIN t : t[i].kind = "death" => VictimOf(t[i]) \in D
  BY <1>1, ZenonT(60) DEF DeathsFit
<1>3. \A i, j \in DOMAIN t :
        i # j /\ t[i].kind = "death" /\ t[j].kind = "death" => VictimOf(t[i]) # VictimOf(t[j])
  BY <1>1 DEF DeathsFit
<1>4. \A k \in DOMAIN p, i \in DOMAIN t : t[i].kind = "death" => p[k].of # VictimOf(t[i])
  BY <1>1 DEF DeathsFit
<1>5. \A l \in DOMAIN h, i \in DOMAIN t : t[i].kind = "death" => h[l] # VictimOf(t[i])
  BY <1>1 DEF DeathsFit
<1>6. m[1].kind = "death" => \A i \in DOMAIN t : t[i].kind = "death" => VictimOf(m[1]) # VictimOf(t[i])
  BY <1>1 DEF DeathsFit
<1>7. DeathsFit(t, p, h, D)
  BY <1>2, <1>3, <1>4, <1>5, Zenon DEF DeathsFit
<1>8. QED
  BY <1>6, <1>7

(* One more kept, of the first to come.                                    *)
LEMMA DeathKept ==
  ASSUME NEW m, NEW p \in Seq(DeathEvents), NEW q \in Seq(DeathEvents), NEW h, NEW D,
         NEW e \in DeathEvents,
         DeathsFit(m, p, h, D), Embeds(q, Append(p, e)), e.of \in D,
         \A i \in DOMAIN m : m[i].kind = "death" => e.of # VictimOf(m[i]),
         \A k \in DOMAIN p : p[k].of # e.of,
         \A l \in DOMAIN h : h[l] # e.of
  PROVE  DeathsFit(m, q, h, D)
<1>. DEFINE all == Append(p, e)
            P == Len(p)
<1>1. /\ P \in Nat /\ DOMAIN all = 1 .. P + 1 /\ DOMAIN p = 1 .. P
      /\ \A i \in 1 .. P : all[i] = p[i]
      /\ all[P + 1] = e
  OBVIOUS
<1>. HIDE DEF all, P
<1>0. ASSUME NEW k \in DOMAIN all PROVE (k \in DOMAIN p /\ all[k] = p[k]) \/ (k = P + 1 /\ all[k] = e)
  BY <1>1
<1>2. ASSUME NEW k \in DOMAIN all
      PROVE  /\ all[k].of \in D
             /\ \A i \in DOMAIN m : m[i].kind = "death" => all[k].of # VictimOf(m[i])
             /\ \A l \in DOMAIN h : h[l] # all[k].of
  <2>1. CASE k \in DOMAIN p /\ all[k] = p[k]
    BY <2>1, Zenon DEF DeathsFit
  <2>2. CASE all[k] = e
    BY <2>2, Zenon
  <2>3. QED
    BY <1>0, <2>1, <2>2
<1>3. ASSUME NEW j \in DOMAIN all, NEW k \in DOMAIN all, j # k PROVE all[j].of # all[k].of
  <2>1. CASE j \in DOMAIN p /\ all[j] = p[j] /\ k \in DOMAIN p /\ all[k] = p[k]
    BY <1>3, <2>1, Zenon DEF DeathsFit
  <2>2. CASE j \in DOMAIN p /\ all[j] = p[j] /\ all[k] = e
    BY <2>2
  <2>3. CASE all[j] = e /\ k \in DOMAIN p /\ all[k] = p[k]
    <3>1. p[k].of # e.of
      BY <2>3
    <3>2. QED
      BY <2>3, <3>1
  <2>4. QED
    BY <1>0, <1>3, <2>1, <2>2, <2>3
<1>4. PICK from \in [DOMAIN q -> DOMAIN all] :
    /\ \A k \in DOMAIN q : q[k] = all[from[k]]
    /\ \A k, l \in DOMAIN q : k < l => from[k] < from[l]
  BY Zenon DEF Embeds, all
<1>5. \A k \in DOMAIN q : from[k] \in DOMAIN all /\ from[k] \in Nat
  BY <1>1, <1>4
<1>6. ASSUME NEW j \in DOMAIN q, NEW k \in DOMAIN q, j # k PROVE from[j] # from[k]
  <2>1. j < k \/ k < j
    BY <1>6
  <2>2. from[j] < from[k] \/ from[k] < from[j]
    BY <1>4, <2>1
  <2>3. QED
    BY <1>5, <2>2
<1>7. \A j, k \in DOMAIN q : j # k => q[j].of # q[k].of
  BY <1>3, <1>4, <1>5, <1>6
<1>8. \A k \in DOMAIN q : /\ q[k].of \in D
                          /\ \A i \in DOMAIN m : m[i].kind = "death" => q[k].of # VictimOf(m[i])
                          /\ \A l \in DOMAIN h : h[l] # q[k].of
  BY <1>2, <1>4, <1>5
<1>9. /\ \A i \in DOMAIN m : m[i].kind = "death" => VictimOf(m[i]) \in D
      /\ \A i, j \in DOMAIN m :
           i # j /\ m[i].kind = "death" /\ m[j].kind = "death" => VictimOf(m[i]) # VictimOf(m[j])
  BY Zenon DEF DeathsFit
<1>10. /\ \A l \in DOMAIN h : h[l] \in D
       /\ \A l \in DOMAIN h, i \in DOMAIN m : m[i].kind = "death" => h[l] # VictimOf(m[i])
       /\ \A j, k \in DOMAIN h : j # k => h[j] # h[k]
  BY Zenon DEF DeathsFit
<1>11. /\ \A k \in DOMAIN q : q[k].of \in D
       /\ \A k \in DOMAIN q, i \in DOMAIN m : m[i].kind = "death" => q[k].of # VictimOf(m[i])
       /\ \A k \in DOMAIN q, l \in DOMAIN h : h[l] # q[k].of
  BY <1>8
<1>12. QED
  BY <1>7, <1>9, <1>10, <1>11, Zenon DEF DeathsFit

(* Some handed, g, of match, and of the others those after it kept.        *)
LEMMA DeathsGiven ==
  ASSUME NEW m, NEW p \in Seq(DeathEvents), NEW q \in Seq(DeathEvents), NEW h \in Seq(Entities),
         NEW g \in Seq(Entities), NEW D, NEW match \in Nat,
         DeathsFit(m, p, h, D), Embeds(q, p),
         \A i \in DOMAIN q : q[i].match > match,
         NEW given \in [DOMAIN g -> DOMAIN p],
         \A k \in DOMAIN g : g[k] = p[given[k]].of /\ p[given[k]].match = match,
         \A k, l \in DOMAIN g : k < l => given[k] < given[l]
  PROVE  DeathsFit(m, q, h \o g, D)
<1>. DEFINE all == h \o g
            H == Len(h)
            G == Len(g)
<1>1. /\ H \in Nat /\ G \in Nat /\ DOMAIN all = 1 .. H + G /\ DOMAIN h = 1 .. H /\ DOMAIN g = 1 .. G
      /\ \A i \in 1 .. H : all[i] = h[i]
      /\ \A i \in H + 1 .. H + G : all[i] = g[i - H]
  OBVIOUS
<1>2. DOMAIN p = 1 .. Len(p) /\ Len(p) \in Nat
  OBVIOUS
<1>3. PICK from \in [DOMAIN q -> DOMAIN p] :
    /\ \A k \in DOMAIN q : q[k] = p[from[k]]
    /\ \A k, l \in DOMAIN q : k < l => from[k] < from[l]
  BY Zenon DEF Embeds
<1>4. /\ \A k \in DOMAIN q : from[k] \in DOMAIN p /\ from[k] \in Nat
      /\ \A k \in DOMAIN g : given[k] \in DOMAIN p /\ given[k] \in Nat
  BY <1>2, <1>3
<1>5. ASSUME NEW j \in DOMAIN q, NEW k \in DOMAIN q, j # k PROVE from[j] # from[k]
  <2>1. j < k \/ k < j
    BY <1>5
  <2>2. from[j] < from[k] \/ from[k] < from[j]
    BY <1>3, <2>1
  <2>3. QED
    BY <1>4, <2>2
<1>6. ASSUME NEW j \in DOMAIN g, NEW k \in DOMAIN g, j # k PROVE given[j] # given[k]
  <2>1. j < k \/ k < j
    BY <1>6
  <2>2. given[j] < given[k] \/ given[k] < given[j]
    BY <2>1
  <2>3. QED
    BY <1>4, <2>2
<1>7. ASSUME NEW k \in DOMAIN q, NEW l \in DOMAIN g PROVE from[k] # given[l]
  <2>1. p[from[k]].match > match /\ p[given[l]].match = match
    BY <1>3
  <2>2. QED
    BY <2>1
<1>. HIDE DEF all, H, G
<1>8. ASSUME NEW l \in DOMAIN all
      PROVE  \/ l \in DOMAIN h /\ all[l] = h[l]
             \/ l - H \in DOMAIN g /\ all[l] = p[given[l - H]].of /\ given[l - H] \in DOMAIN p
  <2>1. CASE l \in 1 .. H
    BY <1>1, <2>1
  <2>2. CASE l \in H + 1 .. H + G
    <3>1. l - H \in 1 .. G
      BY <1>1, <2>2
    <3>2. l - H \in DOMAIN g /\ all[l] = g[l - H]
      BY <1>1, <2>2, <3>1
    <3>3. QED
      BY <1>4, <3>2
  <2>3. QED
    BY <1>1, <2>1, <2>2
<1>9. ASSUME NEW l \in DOMAIN all
      PROVE  /\ all[l] \in D
             /\ \A i \in DOMAIN m : m[i].kind = "death" => all[l] # VictimOf(m[i])
             /\ \A k \in DOMAIN q : all[l] # q[k].of
  <2>1. CASE l \in DOMAIN h /\ all[l] = h[l]
    <3>1. \A k \in DOMAIN p : h[l] # p[k].of
      BY <2>1, Zenon DEF DeathsFit
    <3>2. \A k \in DOMAIN q : all[l] # q[k].of
      BY <1>3, <1>4, <2>1, <3>1, Zenon
    <3>3. QED
      BY <2>1, <3>2, Zenon DEF DeathsFit
  <2>2. CASE l - H \in DOMAIN g /\ all[l] = p[given[l - H]].of /\ given[l - H] \in DOMAIN p
    <3>1. \A k \in DOMAIN q : p[given[l - H]].of # p[from[k]].of
      BY <1>4, <1>7, <2>2, Zenon DEF DeathsFit
    <3>2. \A k \in DOMAIN q : all[l] # q[k].of
      BY <1>3, <2>2, <3>1, Zenon
    <3>3. QED
      BY <2>2, <3>2 DEF DeathsFit
  <2>3. QED
    BY <1>8, <2>1, <2>2
<1>10. ASSUME NEW j \in DOMAIN all, NEW k \in DOMAIN all, j # k PROVE all[j] # all[k]
  <2>1. CASE j \in DOMAIN h /\ all[j] = h[j] /\ k \in DOMAIN h /\ all[k] = h[k]
    BY <1>10, <2>1, Zenon DEF DeathsFit
  <2>2. CASE j \in DOMAIN h /\ all[j] = h[j] /\ all[k] = p[given[k - H]].of /\ given[k - H] \in DOMAIN p
    BY <2>2 DEF DeathsFit
  <2>3. CASE k \in DOMAIN h /\ all[k] = h[k] /\ all[j] = p[given[j - H]].of /\ given[j - H] \in DOMAIN p
    <3>1. h[k] # p[given[j - H]].of
      BY <2>3, Zenon DEF DeathsFit
    <3>2. QED
      BY <2>3, <3>1
  <2>4. CASE /\ j - H \in DOMAIN g /\ all[j] = p[given[j - H]].of /\ given[j - H] \in DOMAIN p
             /\ k - H \in DOMAIN g /\ all[k] = p[given[k - H]].of /\ given[k - H] \in DOMAIN p
    <3>1. j - H # k - H
      BY <1>1, <1>10
    <3>2. given[j - H] # given[k - H]
      BY <1>6, <2>4, <3>1
    <3>3. p[given[j - H]].of # p[given[k - H]].of
      BY <2>4, <3>2, Zenon DEF DeathsFit
    <3>4. QED
      BY <2>4, <3>3
  <2>5. QED
    BY <1>8, <2>1, <2>2, <2>3, <2>4
<1>11. \A k \in DOMAIN q : /\ q[k].of \in D
                           /\ \A i \in DOMAIN m : m[i].kind = "death" => q[k].of # VictimOf(m[i])
  BY <1>3, <1>4 DEF DeathsFit
<1>12. \A j, k \in DOMAIN q : j # k => q[j].of # q[k].of
  BY <1>3, <1>4, <1>5 DEF DeathsFit
<1>13. /\ \A i \in DOMAIN m : m[i].kind = "death" => VictimOf(m[i]) \in D
       /\ \A i, j \in DOMAIN m :
            i # j /\ m[i].kind = "death" /\ m[j].kind = "death" => VictimOf(m[i]) # VictimOf(m[j])
  BY Zenon DEF DeathsFit
<1>14. /\ \A l \in DOMAIN all : all[l] \in D
       /\ \A l \in DOMAIN all, i \in DOMAIN m : m[i].kind = "death" => all[l] # VictimOf(m[i])
       /\ \A k \in DOMAIN q, l \in DOMAIN all : all[l] # q[k].of
  BY <1>9, Zenon
<1>15. \A j, k \in DOMAIN all : j # k => all[j] # all[k]
  BY <1>10, Zenon
<1>16. DeathsFit(m, q, all, D)
  BY <1>11, <1>12, <1>13, <1>14, <1>15, Zenon DEF DeathsFit
<1>17. QED
  BY <1>16 DEF all

-----------------------------------------------------------------------------
(* Whoever is dead, as the server has it.                                  *)
DeadNowOf(t) == {e \in Entities : e[1] <= t.match /\ (e[1] = t.match => e[2] \notin t.alive)}

DeathsInLine ==
  /\ DeathsFit(reliable, pending.deaths, handed.deaths, DeadNowOf(truth))
  /\ \A l \in DOMAIN handed.deaths : handed.deaths[l][1] <= shown.match

LEMMA DeathsAtStart == Base /\ DeathsInLine /\ ServerStart => DeathsInLine'
<1>. SUFFICES ASSUME Base, DeathsInLine, ServerStart PROVE DeathsInLine'
  OBVIOUS
<1>. DEFINE x == <<[kind |-> "start", match |-> truth.match + 1]>>
<1>1. /\ truth.match < LastMatch /\ reliable' = reliable \o x
      /\ truth' = [truth EXCEPT !.match = @ + 1, !.on = TRUE, !.alive = ViewPlayers]
      /\ pending' = pending /\ handed' = handed /\ shown' = shown
  BY Zenon DEF ServerStart, Tell
<1>2. truth \in Truths
  BY DEF Base, ViewTyped, Truths
<1>3. truth'.match = truth.match + 1 /\ truth.match + 1 \in Matches /\ truth.match \in Nat
  BY <1>1, <1>2, Bounds DEF Truths, Matches
<1>4. /\ x \in Seq(Messages) /\ DOMAIN x = {1} /\ x[1].kind # "death"
  BY <1>3 DEF Messages
<1>5. reliable \in Seq(Messages)
  BY EventTypes
<1>. HIDE DEF x
<1>6. /\ \A i \in DOMAIN x : x[i].kind = "death" => FALSE
      /\ \A i, j \in DOMAIN x : i < j => FALSE
  BY <1>4
<1>7. DeadNowOf(truth) \subseteq DeadNowOf(truth')
  <2>1. \A e \in Entities : e[1] \in Nat
    BY Bounds DEF Entities
  <2>2. QED
    BY <1>3, <2>1 DEF DeadNowOf
<1>8. DeathsFit(reliable \o x, pending.deaths, handed.deaths, DeadNowOf(truth'))
  BY <1>4, <1>5, <1>6, <1>7, DeathsTold DEF DeathsInLine
<1>9. QED
  BY <1>1, <1>8, Zenon DEF DeathsInLine

(* Whoever dies was alive, so nobody's Death was told before.              *)
LEMMA DeathsAtTick == Base /\ DeathsInLine /\ ServerTicks => DeathsInLine'
<1>. SUFFICES ASSUME Base, DeathsInLine, ServerTicks PROVE DeathsInLine'
  OBVIOUS
<1>1. pending' = pending /\ handed' = handed /\ shown' = shown /\ truth.match \in Matches
      /\ truth \in Truths
  BY ATick, Zenon
<1>2. PICK messages, left : TickTells(messages, left)
  BY ATick, Zenon
<1>3. /\ reliable' = reliable \o messages /\ messages \in Seq(Messages)
      /\ truth'.match = truth.match /\ truth'.alive = left /\ left \subseteq truth.alive
  BY <1>2, Zenon DEF TickTells
<1>4. /\ \A i \in DOMAIN messages :
             /\ messages[i].match = truth.match
             /\ messages[i].kind = "death" => messages[i].victim \in truth.alive \ left
      /\ \A i, j \in DOMAIN messages : i < j => messages[i].kind # messages[j].kind
  BY <1>2, Zenon DEF TickTells
<1>5. reliable \in Seq(Messages)
  BY EventTypes
<1>6. DeadNowOf(truth) \subseteq DeadNowOf(truth')
  BY <1>3 DEF DeadNowOf
<1>7. \A i \in DOMAIN messages :
        messages[i].kind = "death" => VictimOf(messages[i]) \in DeadNowOf(truth') \ DeadNowOf(truth)
  <2>. SUFFICES ASSUME NEW i \in DOMAIN messages, messages[i].kind = "death"
                PROVE  VictimOf(messages[i]) \in DeadNowOf(truth') \ DeadNowOf(truth)
    OBVIOUS
  <2>1. messages[i].match = truth.match /\ messages[i].victim \in truth.alive
        /\ messages[i].victim \notin left
    BY <1>4
  <2>2. truth.alive \subseteq ViewPlayers
    BY <1>1 DEF Truths
  <2>. DEFINE e == VictimOf(messages[i])
  <2>3. e \in Entities /\ e[1] = truth.match /\ e[2] = messages[i].victim
    BY <1>1, <2>1, <2>2 DEF VictimOf, Entity, Entities, Matches
  <2>. HIDE DEF e
  <2>4. truth.match \in Nat
    BY <1>1, Bounds DEF Matches
  <2>5. e \in DeadNowOf(truth') /\ e \notin DeadNowOf(truth)
    BY <1>3, <2>1, <2>3, <2>4 DEF DeadNowOf
  <2>6. QED
    BY <2>5 DEF e
<1>8. DeathsFit(reliable \o messages, pending.deaths, handed.deaths, DeadNowOf(truth'))
  BY <1>3, <1>4, <1>5, <1>6, <1>7, DeathsTold DEF DeathsInLine
<1>9. QED
  BY <1>1, <1>3, <1>8, Zenon DEF DeathsInLine

LEMMA DeathsAtReceipt == Base /\ DeathsInLine /\ ReceiveReliable => DeathsInLine'
<1>. SUFFICES ASSUME Base, DeathsInLine, ReceiveReliable PROVE DeathsInLine'
  OBVIOUS
<1>1. /\ reliable # <<>> /\ reliable[1] \in Messages
      /\ reliable' \in Seq(Messages) /\ DOMAIN reliable' = 1 .. Len(reliable) - 1
      /\ 1 \in DOMAIN reliable
      /\ \A i \in 1 .. Len(reliable) - 1 : reliable'[i] = reliable[i + 1]
      /\ truth' = truth /\ handed' = handed /\ shown' = shown
      /\ pending' \in [shots : Seq(ShotEvents), deaths : Seq(DeathEvents)]
      /\ \/ Starts(reliable[1]) \/ Ends(reliable[1]) \/ KeepsShot(reliable[1]) \/ KeepsDeath(reliable[1])
  BY WhatIsReceived DEF Base
<1>2. reliable \in Seq(Messages) /\ pending.deaths \in Seq(DeathEvents) /\ pending'.deaths \in Seq(DeathEvents)
  BY <1>1, EventTypes
<1>3. /\ DeathsFit(reliable', pending.deaths, handed.deaths, DeadNowOf(truth))
      /\ reliable[1].kind = "death" =>
           \A i \in DOMAIN reliable' : reliable'[i].kind = "death" => VictimOf(reliable[1]) # VictimOf(reliable'[i])
  BY <1>1, <1>2, DeathsReceived DEF DeathsInLine
<1>4. CASE pending'.deaths = pending.deaths
  BY <1>1, <1>3, <1>4, Zenon DEF DeathsInLine
<1>5. CASE /\ reliable[1].kind = "death"
           /\ DeathOf(reliable[1]) \in DeathEvents
           /\ Embeds(pending'.deaths, Append(pending.deaths, DeathOf(reliable[1])))
  <2>1. DeathOf(reliable[1]).of = VictimOf(reliable[1])
    BY DEF DeathOf, VictimOf
  <2>2. /\ VictimOf(reliable[1]) \in DeadNowOf(truth)
        /\ \A k \in DOMAIN pending.deaths : pending.deaths[k].of # VictimOf(reliable[1])
        /\ \A l \in DOMAIN handed.deaths : handed.deaths[l] # VictimOf(reliable[1])
    BY <1>1, <1>5, Zenon DEF DeathsInLine, DeathsFit
  <2>. DEFINE e == DeathOf(reliable[1])
  <2>. HIDE DEF e
  <2>a. /\ e \in DeathEvents /\ e.of \in DeadNowOf(truth)
        /\ \A k \in DOMAIN pending.deaths : pending.deaths[k].of # e.of
        /\ \A l \in DOMAIN handed.deaths : handed.deaths[l] # e.of
        /\ \A i \in DOMAIN reliable' : reliable'[i].kind = "death" => e.of # VictimOf(reliable'[i])
        /\ Embeds(pending'.deaths, Append(pending.deaths, e))
    BY <1>3, <1>5, <2>1, <2>2, Zenon DEF e
  <2>3. DeathsFit(reliable', pending'.deaths, handed.deaths, DeadNowOf(truth))
    BY <1>2, <1>3, <2>a, DeathKept
  <2>4. QED
    BY <1>1, <2>3, Zenon DEF DeathsInLine
<1>6. QED
  BY <1>1, <1>4, <1>5, Zenon DEF Starts, Ends, KeepsShot, KeepsDeath

(* Deaths are handed once, those of the frame's match alone.               *)
LEMMA DeathsAtFrame ==
  Base /\ FramesInLine /\ PendingOfTheirs /\ DeathsInLine /\ FrameShows => DeathsInLine'
<1>. SUFFICES ASSUME Base, FramesInLine, PendingOfTheirs, DeathsInLine, FrameShows PROVE DeathsInLine'
  OBVIOUS
<1>1. /\ frame.open /\ reliable' = reliable /\ truth' = truth /\ ShowsFrame
      /\ pending' \in [shots : Seq(ShotEvents), deaths : Seq(DeathEvents)]
      /\ Embeds(pending'.deaths, pending.deaths)
      /\ \A i \in DOMAIN pending'.deaths : pending'.deaths[i].match > frame.match
      /\ handed' = [shots |-> handed.shots \o HandedShots, deaths |-> handed.deaths \o DeathsHanded,
                    ends |-> handed.ends \o Stingers]
  BY AFrame, Zenon
<1>2. /\ pending.deaths \in Seq(DeathEvents) /\ pending'.deaths \in Seq(DeathEvents)
      /\ handed.deaths \in Seq(Entities)
  BY <1>1, EventTypes
<1>. DEFINE g == DeathsHanded
<1>. HIDE DEF g
<1>3. /\ g \in Seq(Entities)
      /\ \E from \in [DOMAIN g -> DOMAIN pending.deaths] :
              /\ \A k \in DOMAIN g : g[k] = pending.deaths[from[k]].of /\ pending.deaths[from[k]].match = frame.match
              /\ \A k, l \in DOMAIN g : k < l => from[k] < from[l]
  BY HandedDeaths, Zenon DEF Base, g
<1>4. PICK from \in [DOMAIN g -> DOMAIN pending.deaths] :
              /\ \A k \in DOMAIN g : g[k] = pending.deaths[from[k]].of /\ pending.deaths[from[k]].match = frame.match
              /\ \A k, l \in DOMAIN g : k < l => from[k] < from[l]
  BY <1>3, Zenon
<1>5. frame.match \in Nat /\ shown.match \in Nat
  BY <1>1, MatchNumbers
<1>6. DeathsFit(reliable, pending.deaths, handed.deaths, DeadNowOf(truth))
  BY DEF DeathsInLine
<1>7. DeathsFit(reliable, pending'.deaths, handed.deaths \o g, DeadNowOf(truth))
  <2>1. /\ from \in [DOMAIN g -> DOMAIN pending.deaths]
        /\ \A k \in DOMAIN g : g[k] = pending.deaths[from[k]].of /\ pending.deaths[from[k]].match = frame.match
        /\ \A k, l \in DOMAIN g : k < l => from[k] < from[l]
    BY <1>4
  <2>2. g \in Seq(Entities)
    BY <1>3
  <2>3. Embeds(pending'.deaths, pending.deaths)
        /\ \A i \in DOMAIN pending'.deaths : pending'.deaths[i].match > frame.match
    BY <1>1
  <2>4. QED
    BY <1>2, <1>5, <1>6, <2>1, <2>2, <2>3, DeathsGiven
<1>8. handed'.deaths = handed.deaths \o g
  BY <1>1 DEF g
<1>9. \A k \in DOMAIN g : g[k][1] = frame.match
  BY <1>4, Zenon DEF PendingOfTheirs, OfTheirMatches
<1>10. shown'.match = frame.match /\ shown.match <= frame.match
  BY <1>1, Zenon DEF ShowsFrame, FramesInLine
<1>. DEFINE all == handed.deaths \o g
<1>11. ASSUME NEW i \in DOMAIN all
       PROVE  \/ i \in DOMAIN handed.deaths /\ all[i] = handed.deaths[i]
              \/ i - Len(handed.deaths) \in DOMAIN g /\ all[i] = g[i - Len(handed.deaths)]
  BY <1>2, <1>3
<1>. HIDE DEF all
<1>12. \A i \in DOMAIN all : all[i][1] <= frame.match
  <2>. SUFFICES ASSUME NEW i \in DOMAIN all PROVE all[i][1] <= frame.match
    OBVIOUS
  <2>1. CASE i \in DOMAIN handed.deaths /\ all[i] = handed.deaths[i]
    <3>1. handed.deaths[i][1] <= shown.match /\ handed.deaths[i] \in Entities
      BY <1>2, <2>1 DEF DeathsInLine
    <3>2. handed.deaths[i][1] \in Nat
      BY <3>1, Bounds DEF Entities
    <3>3. QED
      BY <1>5, <1>10, <2>1, <3>1, <3>2
  <2>2. CASE i - Len(handed.deaths) \in DOMAIN g /\ all[i] = g[i - Len(handed.deaths)]
    BY <1>5, <1>9, <2>2
  <2>3. QED
    BY <1>11, <2>1, <2>2
<1>13. QED
  BY <1>1, <1>7, <1>8, <1>10, <1>12, Zenon DEF DeathsInLine, all

IsOf(w, s) ==
  /\ s.match = w.match /\ w.last = <<s.tick>> /\ DOMAIN w.bodies = ListedIn(s)

(* What is shown is of a state told of its match.                          *)
ShownIsOfAState ==
  /\ shown.last = Nothing => shown.first = Nothing /\ DOMAIN shown.bodies = {}
  /\ shown.last # Nothing => \E s \in told : IsOf(shown, s)
  /\ DOMAIN shown.remote \subseteq DOMAIN shown.bodies

ShownOfItsMatch ==
  \A e \in DOMAIN shown.remote :
    /\ e \in Entities /\ e[1] = shown.match /\ e[2] # Own
    /\ \E p \in ViewPlayers : e = Entity(shown.match, p)

(* The bodies shown are other players' of the frame's match.               *)
LEMMA ShownAreOfItsMatch == Base /\ ShownIsOfAState => ShownOfItsMatch
<1>. USE DEF ShownOfItsMatch
<1>. SUFFICES ASSUME Base, ShownIsOfAState, NEW e \in DOMAIN shown.remote
              PROVE  /\ e \in Entities /\ e[1] = shown.match /\ e[2] # Own
                     /\ \E p \in ViewPlayers : e = Entity(shown.match, p)
  OBVIOUS
<1>1. shown.last # Nothing /\ e \in DOMAIN shown.bodies
  BY DEF ShownIsOfAState
<1>2. PICK s \in told : IsOf(shown, s)
  BY <1>1, Zenon DEF ShownIsOfAState
<1>3. s \in States /\ e \in ListedIn(s) /\ s.match = shown.match
  BY <1>1, <1>2 DEF IsOf, Base, ViewTyped
<1>4. e \in Entities /\ e[1] = s.match /\ e[2] # Own
  BY <1>3, ListedAreEntities
<1>5. \E p \in ViewPlayers : e = Entity(s.match, p)
  <2>1. \E p \in s.bodies : e = Entity(s.match, p)
    BY <1>3, Zenon DEF ListedIn
  <2>2. s.bodies \subseteq ViewPlayers
    BY <1>3 DEF States
  <2>3. QED
    BY <2>1, <2>2
<1>6. QED
  BY <1>3, <1>4, <1>5

(* The newest update a frame has recorded, and of what match.              *)
LEMMA StateIsOfItsFrame ==
  Base /\ FramesInLine /\ ShownIsOfAState /\ FrameShows => ShownIsOfAState'
<1>. SUFFICES ASSUME Base, FramesInLine, ShownIsOfAState, FrameShows PROVE ShownIsOfAState'
  OBVIOUS
<1>1. /\ frame.open /\ told' = told /\ converted' = converted
      /\ ShowsFrame
      /\ converted.updates # <<>> =>
           \E begun, fresh, recorded, time :
             /\ ShowsUpdates(begun, fresh, recorded, time)
             /\ fresh = Fresh(begun, converted.updates)
  BY AFrame, Zenon
<1>2. shown'.match = frame.match
  BY <1>1, Zenon DEF ShowsFrame
<1>3. CASE converted.updates = <<>>
  <2>1. NothingInIt(shown')
    BY <1>1, <1>3, Zenon DEF ShowsFrame
  <2>2. /\ DOMAIN shown'.bodies = {} /\ DOMAIN shown'.remote = {}
        /\ shown'.first = Nothing /\ shown'.last = Nothing
    BY <2>1, Zenon DEF NothingInIt
  <2>3. QED
    BY <2>2 DEF ShownIsOfAState
<1>4. CASE converted.updates # <<>>
  <2>1. PICK begun, fresh, recorded, time :
             /\ ShowsUpdates(begun, fresh, recorded, time)
             /\ fresh = Fresh(begun, converted.updates)
    BY <1>1, <1>4, Zenon
  <2>2. /\ begun \in Worlds /\ begun.last = shown.last
        /\ begun.bodies = shown.bodies
        /\ recorded \in Worlds /\ KeepsUp(recorded)
        /\ shown'.last = recorded.last /\ shown'.bodies = recorded.bodies
        /\ fresh = <<>> => recorded = begun /\ shown.last # Nothing
        /\ fresh # <<>> => /\ recorded.last = <<fresh[Len(fresh)].tick>>
                           /\ DOMAIN recorded.bodies = ListedIn(fresh[Len(fresh)])
        /\ DOMAIN shown'.remote = DOMAIN shown'.bodies \ shown'.dead
    BY <2>1, Zenon DEF ShowsUpdates
  <2>3. converted.updates \in Seq(States) /\ told \subseteq States
        /\ \A i, j \in DOMAIN converted.updates : i < j => converted.updates[i].tick < converted.updates[j].tick
    BY Zenon DEF Base, ViewTyped, UpdatesInLine, UpdatesRise
  <2>4. /\ fresh \in Seq(States)
        /\ \A k \in DOMAIN fresh : \E i \in DOMAIN converted.updates : fresh[k] = converted.updates[i]
        /\ fresh = <<>> =>
             \A i \in DOMAIN converted.updates : begun.last # Nothing /\ converted.updates[i].tick <= begun.last[1]
    BY <2>1, <2>2, <2>3, FreshUpdates
  <2>5. \A i \in DOMAIN converted.updates :
          converted.updates[i] \in told /\ converted.updates[i].match = frame.match
    <3>1. frame.match = converted.match
      BY <1>1, Zenon DEF FramesInLine
    <3>2. QED
      BY <3>1, Zenon DEF Base, UpdatesInLine
  <2>6. shown'.last # Nothing
    BY <2>2, Zenon DEF KeepsUp
  <2>7. \E s \in told : IsOf(shown', s)
    <3>1. CASE fresh = <<>>
      <4>1. recorded = begun /\ shown.last # Nothing
        BY <2>2, <3>1
      <4>2. PICK s \in told : IsOf(shown, s)
        BY <4>1, Zenon DEF ShownIsOfAState
      <4>3. s.match = shown.match /\ shown.last = <<s.tick>> /\ DOMAIN shown.bodies = ListedIn(s)
        BY <4>2, Zenon DEF IsOf
      <4>4. 1 \in DOMAIN converted.updates
        BY <1>4, <2>3
      <4>. DEFINE u == converted.updates[1]
      <4>5. u \in told /\ u.match = frame.match
        BY <2>5, <4>4
      <4>6. u.tick <= s.tick
        BY <2>2, <2>4, <3>1, <4>3, <4>4
      <4>. HIDE DEF u
      <4>7. s.match \in Nat /\ u.match \in Nat /\ s.tick \in Nat /\ u.tick \in Nat
        BY <2>3, <4>2, <4>5, Bounds DEF States, Matches
      <4>8. s.match <= u.match
        <5>1. shown.match <= frame.match
          BY <1>1, Zenon DEF FramesInLine
        <5>2. QED
          BY <4>3, <4>5, <5>1
      <4>9. s.match < u.match => s.tick < u.tick
        BY <4>2, <4>5, Zenon DEF Base, ToldInLine
      <4>10. s.match = frame.match
        BY <4>5, <4>6, <4>7, <4>8, <4>9
      <4>11. IsOf(shown', s)
        BY <1>2, <2>2, <4>1, <4>3, <4>10 DEF IsOf
      <4>12. QED
        BY <4>11
    <3>2. CASE fresh # <<>>
      <4>1. Len(fresh) \in DOMAIN fresh
        BY <2>4, <3>2
      <4>. DEFINE s == fresh[Len(fresh)]
      <4>2. s \in told /\ s.match = frame.match
        BY <2>4, <2>5, <4>1
      <4>3. shown'.last = <<s.tick>> /\ DOMAIN shown'.bodies = ListedIn(s)
        BY <2>2, <3>2
      <4>. HIDE DEF s
      <4>4. IsOf(shown', s)
        BY <1>2, <4>2, <4>3, Zenon DEF IsOf
      <4>5. QED
        BY <4>2, <4>4
    <3>3. QED
      BY <3>1, <3>2
  <2>8. DOMAIN shown'.remote \subseteq DOMAIN shown'.bodies
    BY <2>2
  <2>9. QED
    BY <1>1, <2>6, <2>7, <2>8, Zenon DEF ShownIsOfAState
<1>5. QED
  BY <1>3, <1>4

-----------------------------------------------------------------------------
Over(match) == match < published.started \/ (match = published.started /\ ~published.inMatch)

(* The deaths of its match that frames with updates have been handed.      *)
Heeded == {e \in ToSet(handed.deaths) \ shown.early : e[1] = shown.match}

DeathsAreKept ==
  /\ Heeded # {} => Over(shown.match) \/ published.recent # <<>>
  /\ frame.open /\ converted.updates # <<>> => Over(frame.match) \/ published.recent # <<>>
  /\ frame.open /\ frame.match = shown.match /\ Heeded # {} /\ converted.updates = <<>> =>
       Over(shown.match) /\ ~frame.on
  /\ ~(Heeded \subseteq shown.dead) =>
       /\ Over(shown.match) /\ DOMAIN shown.remote = {} /\ ~shown.on
       /\ frame.open /\ frame.match = shown.match => converted.updates = <<>> /\ ~frame.on
  /\ DOMAIN shown.remote \cap shown.dead = {}
  /\ shown.match > 0 /\ Entity(shown.match, Own) \in shown.dead => shown.spectating
  /\ shown.spectating /\ DOMAIN shown.remote # {} =>
       shown.watched # Nothing /\ shown.watched[1] \in DOMAIN shown.remote

(* Only a match that is over has its states dropped.                       *)
LEMMA KeptAtReceipt ==
  Base /\ FramesInLine /\ DeathsAreKept /\ ReceiveReliable => DeathsAreKept'
<1>. SUFFICES ASSUME Base, FramesInLine, DeathsAreKept, ReceiveReliable PROVE DeathsAreKept'
  OBVIOUS
<1>1. /\ UNCHANGED <<frame, converted, shown, handed>>
      /\ \/ Starts(reliable[1]) \/ Ends(reliable[1]) \/ KeepsShot(reliable[1]) \/ KeepsDeath(reliable[1])
  BY WhatIsReceived, Zenon DEF Base
<1>2. published.started \in Nat /\ shown.match \in Nat /\ (frame.open => frame.match \in Nat)
  BY MatchNumbers
<1>3. shown.match <= published.started /\ (frame.open => frame.match <= published.started)
  BY Zenon DEF FramesInLine
<1>4. \/ published'.started = published.started + 1
      \/ published'.started = published.started /\ ~published'.inMatch
      \/ published'.started = published.started /\ published'.inMatch = published.inMatch
         /\ published'.recent = published.recent
  BY <1>1, Zenon DEF Starts, Ends, KeepsShot, KeepsDeath
<1>5. ASSUME NEW match \in Nat, match <= published.started
      PROVE  /\ Over(match) => Over(match)'
             /\ Over(match) \/ published.recent # <<>> => Over(match)' \/ published'.recent # <<>>
  BY <1>2, <1>4, <1>5 DEF Over
<1>6. Heeded' = Heeded
  BY <1>1 DEF Heeded
<1>7. /\ Over(shown.match) => Over(shown.match)'
      /\ Over(shown.match) \/ published.recent # <<>> => Over(shown.match)' \/ published'.recent # <<>>
  <2>. DEFINE n == shown.match
  <2>1. n \in Nat /\ n <= published.started /\ n' = n
    BY <1>1, <1>2, <1>3
  <2>. HIDE DEF n
  <2>2. /\ Over(n) => Over(n)'
        /\ Over(n) \/ published.recent # <<>> => Over(n)' \/ published'.recent # <<>>
    BY <1>2, <1>4, <2>1 DEF Over
  <2>3. QED
    BY <2>2 DEF n
<1>8. frame.open =>
      /\ Over(frame.match) => Over(frame.match)'
      /\ Over(frame.match) \/ published.recent # <<>> => Over(frame.match)' \/ published'.recent # <<>>
  <2>. SUFFICES ASSUME frame.open
                PROVE  /\ Over(frame.match) => Over(frame.match)'
                       /\ Over(frame.match) \/ published.recent # <<>> => Over(frame.match)' \/ published'.recent # <<>>
    OBVIOUS
  <2>. DEFINE n == frame.match
  <2>1. n \in Nat /\ n <= published.started /\ n' = n
    BY <1>1, <1>2, <1>3
  <2>. HIDE DEF n
  <2>2. /\ Over(n) => Over(n)'
        /\ Over(n) \/ published.recent # <<>> => Over(n)' \/ published'.recent # <<>>
    BY <1>2, <1>4, <2>1 DEF Over
  <2>3. QED
    BY <2>2 DEF n
<1>9. QED
  BY <1>1, <1>6, <1>7, <1>8, Zenon DEF DeathsAreKept

LEMMA KeptAtArrival == Base /\ DeathsAreKept /\ ReceiveState => DeathsAreKept'
<1>. SUFFICES ASSUME Base, DeathsAreKept, ReceiveState PROVE DeathsAreKept'
  OBVIOUS
<1>1. /\ UNCHANGED <<frame, converted, shown, handed>>
      /\ published'.started = published.started /\ published'.inMatch = published.inMatch
      /\ published'.recent # <<>>
  BY WhatArrives, Zenon DEF Base, RecentInLine
<1>2. /\ Heeded' = Heeded /\ (Over(shown.match)' <=> Over(shown.match))
      /\ (Over(frame.match)' <=> Over(frame.match))
  BY <1>1, Zenon DEF Heeded, Over
<1>3. QED
  BY <1>1, <1>2, Zenon DEF DeathsAreKept

LEMMA KeptAtBeginning ==
  Base /\ FramesInLine /\ DeathsAreKept /\ FrameBegins /\ published.started <= LastMatch => DeathsAreKept'
<1>. SUFFICES ASSUME Base, FramesInLine, DeathsAreKept, FrameBegins, published.started <= LastMatch
              PROVE  DeathsAreKept'
  OBVIOUS
<1>1. /\ frame' = [open |-> TRUE, match |-> published.started, ended |-> published.ended,
                   on |-> published.inMatch]
      /\ UNCHANGED <<published, shown, handed>>
      /\ converted'.updates = <<>> <=> published.recent = <<>>
  BY WhatIsRead, Zenon
<1>2. frame'.match = published.started /\ frame'.on = published.inMatch
  BY <1>1
<1>3. /\ Heeded' = Heeded /\ (Over(shown.match)' <=> Over(shown.match))
  BY <1>1, Zenon DEF Heeded, Over
<1>4. shown.match = published.started /\ Over(shown.match) => ~published.inMatch /\ published.recent = <<>>
  <2>1. shown.match \in Nat
    BY MatchNumbers
  <2>2. ~published.inMatch => published.recent = <<>>
    BY Zenon DEF Base, RecentInLine
  <2>3. QED
    BY <2>1, <2>2 DEF Over
<1>5. /\ Heeded' # {} => Over(shown.match)' \/ published'.recent # <<>>
      /\ DOMAIN shown'.remote \cap shown'.dead = {}
      /\ shown'.match > 0 /\ Entity(shown'.match, Own) \in shown'.dead => shown'.spectating
      /\ shown'.spectating /\ DOMAIN shown'.remote # {} =>
           shown'.watched # Nothing /\ shown'.watched[1] \in DOMAIN shown'.remote
  BY <1>1, <1>3, Zenon DEF DeathsAreKept
<1>6. converted'.updates # <<>> => published'.recent # <<>>
  BY <1>1
<1>7. frame'.match = shown'.match /\ Heeded' # {} /\ converted'.updates = <<>> => Over(shown.match)' /\ ~frame'.on
  <2>1. Heeded # {} => Over(shown.match) \/ published.recent # <<>>
    BY Zenon DEF DeathsAreKept
  <2>2. QED
    BY <1>1, <1>2, <1>3, <1>4, <2>1
<1>8. ~(Heeded' \subseteq shown'.dead) =>
       /\ Over(shown.match)' /\ DOMAIN shown'.remote = {} /\ ~shown'.on
       /\ frame'.match = shown'.match => converted'.updates = <<>> /\ ~frame'.on
  <2>1. ~(Heeded \subseteq shown.dead) => Over(shown.match) /\ DOMAIN shown.remote = {} /\ ~shown.on
    BY Zenon DEF DeathsAreKept
  <2>2. QED
    BY <1>1, <1>2, <1>3, <1>4, <2>1
<1>9. QED
  BY <1>5, <1>6, <1>7, <1>8, Zenon DEF DeathsAreKept

(* A frame heeds its Deaths, and those before it in its match.             *)
LEMMA KeptAtFrame ==
  Base /\ FramesInLine /\ DeathsInLine /\ ShownIsOfAState /\ ShownIsOfAState' /\ DeathsAreKept /\ FrameShows
    => DeathsAreKept'
<1>. SUFFICES ASSUME Base, FramesInLine, DeathsInLine, ShownIsOfAState, ShownIsOfAState', DeathsAreKept, FrameShows
              PROVE  DeathsAreKept'
  OBVIOUS
<1>1. /\ frame.open /\ frame' = NoFrame /\ UNCHANGED <<published, converted>>
      /\ ShowsFrame
      /\ converted.updates # <<>> =>
           \E begun, fresh, recorded, time : ShowsUpdates(begun, fresh, recorded, time)
      /\ handed' = [shots |-> handed.shots \o HandedShots, deaths |-> handed.deaths \o DeathsHanded,
                    ends |-> handed.ends \o Stingers]
  BY AFrame, Zenon
<1>2. frame'.open = FALSE
  BY <1>1 DEF NoFrame
<1>3. /\ shown'.match = frame.match /\ shown'.on = frame.on
      /\ shown'.early = (IF frame.match = shown.match THEN shown.early ELSE {})
                         \cup (IF converted.updates = <<>> THEN ToSet(DeathsHanded) ELSE {})
      /\ shown'.spectating <=> frame.match > 0 /\ Entity(frame.match, Own) \in shown'.dead
      /\ shown'.spectating /\ (\E p \in ViewPlayers : Entity(frame.match, p) \in DOMAIN shown'.remote) =>
           shown'.watched # Nothing /\ shown'.watched[1] \in DOMAIN shown'.remote
      /\ converted.updates = <<>> => NothingInIt(shown') /\ shown'.dead = ToSet(DeathsHanded)
  BY <1>1, Zenon DEF ShowsFrame
<1>4. /\ converted.updates = <<>> => DOMAIN shown'.remote = {}
      /\ converted.updates # <<>> =>
           /\ DOMAIN shown'.remote = DOMAIN shown'.bodies \ shown'.dead
           /\ shown'.dead = shown.dead \cup ToSet(DeathsHanded)
  <2>1. converted.updates = <<>> => DOMAIN shown'.remote = {}
    BY <1>3, Zenon DEF NothingInIt
  <2>2. ASSUME converted.updates # <<>>
        PROVE  /\ DOMAIN shown'.remote = DOMAIN shown'.bodies \ shown'.dead
               /\ shown'.dead = shown.dead \cup ToSet(DeathsHanded)
    <3>1. PICK begun, fresh, recorded, time : ShowsUpdates(begun, fresh, recorded, time)
      BY <1>1, <2>2, Zenon
    <3>2. QED
      BY <3>1, Zenon DEF ShowsUpdates
  <2>3. QED
    BY <2>1, <2>2
<1>5. frame.match \in Nat /\ shown.match \in Nat /\ shown.match <= frame.match
  <2>1. shown.match <= frame.match
    BY <1>1, Zenon DEF FramesInLine
  <2>2. QED
    BY <1>1, <2>1, MatchNumbers
<1>. DEFINE g == DeathsHanded
<1>6. handed.deaths \in Seq(Entities) /\ g \in Seq(Entities) /\ handed'.deaths = handed.deaths \o g
  BY <1>1, EventTypes, HandedDeaths DEF Base
<1>7. ToSet(handed'.deaths) = ToSet(handed.deaths) \cup ToSet(g)
  <2>. HIDE DEF g
  <2>1. ToSet(handed.deaths \o g) = ToSet(handed.deaths) \cup ToSet(g)
    <3>. DEFINE all == handed.deaths \o g
    <3>1. ASSUME NEW e \in ToSet(all) PROVE e \in ToSet(handed.deaths) \cup ToSet(g)
      <4>1. PICK i \in DOMAIN all : e = all[i]
        BY DEF ToSet
      <4>2. (i \in DOMAIN handed.deaths /\ e = handed.deaths[i]) \/ \E j \in DOMAIN g : e = g[j]
        BY <1>6, <4>1
      <4>3. QED
        BY <4>2 DEF ToSet
    <3>2. ASSUME NEW e \in ToSet(handed.deaths) PROVE e \in ToSet(all)
      <4>1. PICK i \in DOMAIN handed.deaths : e = handed.deaths[i]
        BY DEF ToSet
      <4>2. i \in DOMAIN all /\ e = all[i]
        BY <1>6, <4>1
      <4>3. QED
        BY <4>2 DEF ToSet
    <3>3. ASSUME NEW e \in ToSet(g) PROVE e \in ToSet(all)
      <4>1. PICK i \in DOMAIN g : e = g[i]
        BY DEF ToSet
      <4>2. Len(handed.deaths) + i \in DOMAIN all /\ e = all[Len(handed.deaths) + i]
        BY <1>6, <4>1
      <4>3. QED
        BY <4>2 DEF ToSet
    <3>4. QED
      BY <3>1, <3>2, <3>3
  <2>2. QED
    BY <1>6, <2>1
<1>8. \A e \in ToSet(handed.deaths) : e[1] <= shown.match /\ e[1] \in Nat
  <2>1. \A l \in DOMAIN handed.deaths : handed.deaths[l][1] <= shown.match /\ handed.deaths[l] \in Entities
    BY <1>6 DEF DeathsInLine
  <2>2. \A e \in Entities : e[1] \in Nat
    BY Bounds DEF Entities
  <2>3. QED
    BY <2>1, <2>2 DEF ToSet
<1>. HIDE DEF g
<1>9. Heeded' \subseteq (IF frame.match = shown.match THEN Heeded ELSE {})
                        \cup (IF converted.updates # <<>> THEN ToSet(g) ELSE {})
  <2>. SUFFICES ASSUME NEW e \in Heeded'
                PROVE  e \in (IF frame.match = shown.match THEN Heeded ELSE {})
                             \cup (IF converted.updates # <<>> THEN ToSet(g) ELSE {})
    OBVIOUS
  <2>1. e \in ToSet(handed'.deaths) /\ e \notin shown'.early /\ e[1] = frame.match
    BY <1>3 DEF Heeded
  <2>2. converted.updates = <<>> => e \notin ToSet(g)
    BY <1>3, <2>1 DEF g
  <2>3. CASE e \in ToSet(g)
    BY <2>2, <2>3
  <2>4. CASE e \in ToSet(handed.deaths)
    <3>1. frame.match = shown.match
      BY <1>5, <1>8, <2>1, <2>4
    <3>2. e \notin shown.early
      BY <1>3, <2>1, <3>1
    <3>3. e \in Heeded
      BY <2>1, <2>4, <3>1, <3>2 DEF Heeded
    <3>4. QED
      BY <3>1, <3>3
  <2>5. QED
    BY <1>7, <2>1, <2>3, <2>4
<1>10. (Over(frame.match) <=> Over(shown.match)')
  BY <1>1, <1>3 DEF Over
<1>11. Heeded' # {} => Over(shown.match)' \/ published'.recent # <<>>
  <2>1. Heeded # {} => Over(shown.match) \/ published.recent # <<>>
    BY Zenon DEF DeathsAreKept
  <2>2. converted.updates # <<>> => Over(frame.match) \/ published.recent # <<>>
    BY <1>1, Zenon DEF DeathsAreKept
  <2>3. Heeded' # {} => converted.updates # <<>> \/ (frame.match = shown.match /\ Heeded # {})
    BY <1>9
  <2>4. frame.match = shown.match /\ Over(shown.match) => Over(frame.match)
    BY DEF Over
  <2>5. QED
    BY <1>1, <1>10, <2>1, <2>2, <2>3, <2>4
<1>12. ~(Heeded' \subseteq shown'.dead) =>
         Over(shown.match)' /\ DOMAIN shown'.remote = {} /\ ~shown'.on
  <2>. SUFFICES ASSUME ~(Heeded' \subseteq shown'.dead)
                PROVE  Over(shown.match)' /\ DOMAIN shown'.remote = {} /\ ~shown'.on
    OBVIOUS
  <2>1. PICK e \in Heeded' : e \notin shown'.dead
    OBVIOUS
  <2>2. frame.match = shown.match /\ e \in Heeded
    BY <1>4, <1>9, <2>1 DEF g
  <2>3. CASE converted.updates # <<>>
    <3>1. e \notin shown.dead
      BY <1>4, <2>1, <2>3
    <3>2. converted.updates = <<>>
      BY <1>1, <2>2, <3>1 DEF DeathsAreKept
    <3>3. QED
      BY <2>3, <3>2
  <2>4. CASE converted.updates = <<>>
    <3>1. Over(shown.match) /\ ~frame.on
      BY <1>1, <2>2, <2>4 DEF DeathsAreKept
    <3>2. Over(frame.match)
      BY <2>2, <3>1 DEF Over
    <3>3. QED
      BY <1>3, <1>4, <1>10, <2>4, <3>1, <3>2
  <2>5. QED
    BY <2>3, <2>4
<1>13. DOMAIN shown'.remote \cap shown'.dead = {}
  BY <1>4
<1>14. shown'.match > 0 /\ Entity(shown'.match, Own) \in shown'.dead => shown'.spectating
  BY <1>3
<1>15. shown'.spectating /\ DOMAIN shown'.remote # {} =>
         shown'.watched # Nothing /\ shown'.watched[1] \in DOMAIN shown'.remote
  <2>. SUFFICES ASSUME shown'.spectating, NEW e \in DOMAIN shown'.remote
                PROVE  shown'.watched # Nothing /\ shown'.watched[1] \in DOMAIN shown'.remote
    OBVIOUS
  <2>1. \E p \in ViewPlayers : e = Entity(frame.match, p)
    <3>1. Base'
      BY BaseAtFrame
    <3>2. ShownIsOfAState'
      OBVIOUS
    <3>3. ShownOfItsMatch'
      BY <3>1, <3>2, ShownAreOfItsMatch, PTL
    <3>4. QED
      BY <1>3, <3>3, Zenon DEF ShownOfItsMatch
  <2>2. QED
    BY <1>3, <2>1
<1>16. QED
  BY <1>2, <1>11, <1>12, <1>13, <1>14, <1>15, Zenon DEF DeathsAreKept

EventsIInv ==
  /\ Base /\ MatchesInLine /\ FramesInLine
  /\ PendingOfTheirs /\ HandedOfTheirs /\ ShotsInLine /\ DeathsInLine
  /\ ShownIsOfAState /\ DeathsAreKept

LEMMA EventsInitially == ViewInit => EventsIInv
<1>. SUFFICES ASSUME ViewInit PROVE EventsIInv
  OBVIOUS
<1>1. Base
  BY BaseInitially
<1>2. /\ truth.match = 0 /\ truth.shots = 0 /\ reliable = <<>> /\ told = {}
      /\ published.started = 0 /\ published.inMatch = FALSE /\ published.ended = FALSE /\ published.recent = <<>>
      /\ pending.shots = <<>> /\ pending.deaths = <<>> /\ frame.open = FALSE
      /\ converted.match = 0 /\ converted.updates = <<>>
      /\ shown.match = 0 /\ shown.first = Nothing /\ shown.last = Nothing /\ shown.bodies = <<>> /\ shown.remote = <<>>
      /\ shown.dead = {} /\ shown.spectating = FALSE /\ shown.endHeard = FALSE
      /\ handed.shots = <<>> /\ handed.deaths = <<>> /\ handed.ends = <<>>
  BY DEF ViewInit, NoFrame
<1>3. DOMAIN shown.bodies = {} /\ DOMAIN shown.remote = {}
  BY <1>2
<1>4. MatchesInLine
  BY <1>2 DEF MatchesInLine, Chain
<1>5. FramesInLine
  BY <1>2 DEF FramesInLine
<1>6. PendingOfTheirs /\ HandedOfTheirs
  BY <1>2 DEF PendingOfTheirs, OfTheirMatches, HandedOfTheirs
<1>7. ShotsInLine
  BY <1>2 DEF ShotsInLine, ShotsFit
<1>8. DeathsInLine
  BY <1>2 DEF DeathsInLine, DeathsFit
<1>9. ShownIsOfAState
  BY <1>2, <1>3 DEF ShownIsOfAState
<1>10. Heeded = {}
  BY <1>2 DEF Heeded, ToSet
<1>11. DeathsAreKept
  BY <1>2, <1>3, <1>10 DEF DeathsAreKept
<1>12. QED
  BY <1>1, <1>4, <1>5, <1>6, <1>7, <1>8, <1>9, <1>11 DEF EventsIInv

(* The server's steps change nothing a client has.                         *)
LEMMA ClientKeepsItsOwn ==
  ASSUME FramesInLine, PendingOfTheirs, HandedOfTheirs, ShownIsOfAState, DeathsAreKept,
         UNCHANGED <<published, pending, frame, converted, shown, handed>>, told \subseteq told'
  PROVE  FramesInLine' /\ PendingOfTheirs' /\ HandedOfTheirs' /\ ShownIsOfAState' /\ DeathsAreKept'
<1>1. FramesInLine'
  BY Zenon DEF FramesInLine
<1>2. PendingOfTheirs' /\ HandedOfTheirs'
  BY Zenon DEF PendingOfTheirs, HandedOfTheirs
<1>3. ShownIsOfAState'
  BY DEF ShownIsOfAState, IsOf
<1>4. DeathsAreKept'
  <2>1. Heeded' = Heeded /\ Over(shown.match)' = Over(shown.match) /\ Over(frame.match)' = Over(frame.match)
    BY DEF Heeded, Over
  <2>2. QED
    BY <2>1, Zenon DEF DeathsAreKept
<1>5. QED
  BY <1>1, <1>2, <1>3, <1>4

LEMMA StartedIsBounded == Base /\ MatchesInLine => published.started <= LastMatch
<1>. SUFFICES ASSUME Base, MatchesInLine PROVE published.started <= LastMatch
  OBVIOUS
<1>1. published.started <= truth.match
  BY Zenon DEF MatchesInLine, Chain
<1>2. QED
  BY <1>1, MatchNumbers, Bounds

(* Every step keeps the strengthening of EventsInv.                        *)
LEMMA EventsStep == EventsIInv /\ [ViewNext]_viewVars => EventsIInv'
<1>. SUFFICES ASSUME EventsIInv, [ViewNext]_viewVars PROVE EventsIInv'
  OBVIOUS
<1>0. /\ Base /\ MatchesInLine /\ FramesInLine
      /\ PendingOfTheirs /\ HandedOfTheirs /\ ShotsInLine /\ DeathsInLine
      /\ ShownIsOfAState /\ DeathsAreKept
  BY Zenon DEF EventsIInv
<1>1. CASE ServerStart
  <2>1. UNCHANGED <<published, pending, frame, converted, shown, handed>> /\ told' = told
    BY <1>1, Zenon DEF ServerStart
  <2>2. FramesInLine' /\ PendingOfTheirs' /\ HandedOfTheirs' /\ ShownIsOfAState' /\ DeathsAreKept'
    BY <1>0, <2>1, ClientKeepsItsOwn
  <2>3. QED
    BY <1>0, <1>1, <2>2, BaseAtStart, MatchesAtStart, ShotsAtStart, DeathsAtStart, Zenon DEF EventsIInv
<1>2. CASE ServerTicks
  <2>1. UNCHANGED <<published, pending, frame, converted, shown, handed>>
    BY <1>0, <1>2, ATick, Zenon
  <2>2. told \subseteq told'
    <3>1. PICK messages, left : TickTells(messages, left)
      BY <1>0, <1>2, ATick, Zenon
    <3>2. told' = told \cup {[tick |-> truth.tick + 1, match |-> truth.match, bodies |-> left]}
      BY <3>1, Zenon DEF TickTells
    <3>3. QED
      BY <3>2
  <2>3. FramesInLine' /\ PendingOfTheirs' /\ HandedOfTheirs' /\ ShownIsOfAState' /\ DeathsAreKept'
    BY <1>0, <2>1, <2>2, ClientKeepsItsOwn
  <2>4. QED
    BY <1>0, <1>2, <2>3, BaseAtTick, MatchesAtTick, ShotsAtTick, DeathsAtTick, Zenon DEF EventsIInv
<1>3. CASE ReceiveReliable
  <2>1. UNCHANGED <<told, frame, converted, shown, handed>>
    BY <1>0, <1>3, WhatIsReceived, Zenon DEF Base
  <2>2. HandedOfTheirs' /\ ShownIsOfAState'
    BY <1>0, <2>1, Zenon DEF HandedOfTheirs, ShownIsOfAState, IsOf
  <2>3. QED
    BY <1>0, <1>3, <2>2, BaseAtReceipt, MatchesAtReceipt, FramesAtReceipt, PendingAtReceipt, ShotsAtReceipt,
       DeathsAtReceipt, KeptAtReceipt, Zenon DEF EventsIInv
<1>4. CASE ReceiveState
  <2>1. /\ UNCHANGED <<truth, reliable, told, pending, frame, converted, shown, handed>>
        /\ published'.started = published.started /\ published'.ended = published.ended
    BY <1>0, <1>4, WhatArrives, Zenon DEF Base, RecentInLine
  <2>2. HandedOfTheirs' /\ ShownIsOfAState'
    BY <1>0, <2>1, Zenon DEF HandedOfTheirs, ShownIsOfAState, IsOf
  <2>3. MatchesInLine' /\ FramesInLine' /\ PendingOfTheirs'
    BY <1>0, <2>1, Zenon DEF MatchesInLine, FramesInLine, PendingOfTheirs
  <2>4. ShotsInLine' /\ DeathsInLine'
    BY <1>0, <2>1, Zenon DEF ShotsInLine, DeathsInLine
  <2>5. QED
    BY <1>0, <1>4, <2>2, <2>3, <2>4, BaseAtArrival, KeptAtArrival, Zenon DEF EventsIInv
<1>5. CASE FrameBegins
  <2>1. published.started <= LastMatch
    BY <1>0, StartedIsBounded
  <2>2. UNCHANGED <<truth, reliable, told, published, pending, shown, handed>>
    BY <1>0, <1>5, <2>1, WhatIsRead, Zenon
  <2>3. HandedOfTheirs' /\ ShownIsOfAState' /\ MatchesInLine' /\ PendingOfTheirs' /\ ShotsInLine' /\ DeathsInLine'
    BY <1>0, <2>2, Zenon DEF HandedOfTheirs, ShownIsOfAState, IsOf, MatchesInLine, PendingOfTheirs, ShotsInLine,
                             DeathsInLine
  <2>4. QED
    BY <1>0, <1>5, <2>1, <2>3, BaseAtBeginning, FramesAtBeginning, KeptAtBeginning, Zenon DEF EventsIInv
<1>6. CASE FrameShows
  <2>1. UNCHANGED <<truth, reliable, told, published>>
    BY <1>0, <1>6, AFrame, Zenon
  <2>2. MatchesInLine'
    BY <1>0, <2>1, Zenon DEF MatchesInLine
  <2>3. ShownIsOfAState'
    BY <1>0, <1>6, StateIsOfItsFrame
  <2>4. Base' /\ FramesInLine' /\ PendingOfTheirs' /\ HandedOfTheirs'
    BY <1>0, <1>6, BaseAtFrame, FramesAtFrame, PendingAtFrame, HandedAtFrame
  <2>5. ShotsInLine' /\ DeathsInLine' /\ DeathsAreKept'
    BY <1>0, <1>6, <2>3, ShotsAtFrame, DeathsAtFrame, KeptAtFrame
  <2>6. QED
    BY <2>2, <2>3, <2>4, <2>5, Zenon DEF EventsIInv
<1>7. CASE UNCHANGED viewVars
  <2>1. UNCHANGED <<truth, reliable, told, published, pending, frame, converted, shown, handed>>
    BY <1>7 DEF viewVars
  <2>2. FramesInLine' /\ PendingOfTheirs' /\ HandedOfTheirs' /\ ShownIsOfAState' /\ DeathsAreKept'
    BY <1>0, <2>1, ClientKeepsItsOwn
  <2>3. MatchesInLine' /\ ShotsInLine' /\ DeathsInLine'
    BY <1>0, <2>1, Zenon DEF MatchesInLine, ShotsInLine, DeathsInLine
  <2>4. Base'
    BY <1>0, <2>1, Zenon DEF Base, ViewTyped, PendingFits, ToldInLine, RecentInLine, RecentRise, UpdatesInLine,
                             UpdatesRise, ShownKeepsUp, KeepsUp
  <2>5. QED
    BY <2>2, <2>3, <2>4, Zenon DEF EventsIInv
<1>8. QED
  BY <1>1, <1>2, <1>3, <1>4, <1>5, <1>6, <1>7, Zenon DEF ViewNext

(* And it says what EventsInv does.                                        *)
LEMMA EventsSuffice == EventsIInv => EventsInv
<1>. SUFFICES ASSUME EventsIInv PROVE EventsInv
  OBVIOUS
<1>0. /\ Base /\ FramesInLine /\ HandedOfTheirs /\ ShotsInLine /\ DeathsInLine
      /\ ShownIsOfAState /\ DeathsAreKept
  BY Zenon DEF EventsIInv
<1>1. HandedOnce
  <2>1. \A i, j \in DOMAIN handed.shots : i < j => handed.shots[i].of[2] < handed.shots[j].of[2]
    BY <1>0, Zenon DEF ShotsInLine, ShotsFit
  <2>2. \A i, j \in DOMAIN handed.ends : i < j => handed.ends[i] < handed.ends[j]
    BY <1>0, Zenon DEF FramesInLine
  <2>3. \A i, j \in DOMAIN handed.deaths : i # j => handed.deaths[i] # handed.deaths[j]
    BY <1>0, Zenon DEF DeathsInLine, DeathsFit
  <2>4. IsInjective(handed.deaths)
    BY <2>3 DEF IsInjective
  <2>5. QED
    BY <1>0, <2>1, <2>2, <2>4 DEF HandedOnce, Rising, HandedOfTheirs
<1>2. DeadStayGone
  <2>. DEFINE deaths == ToSet(handed.deaths) \ shown.early
  <2>1. \A e \in deaths : e[1] = shown.match => e \in Heeded
    BY DEF Heeded
  <2>2. ASSUME NEW e \in Heeded PROVE e \notin DOMAIN shown.remote
    BY <1>0, <2>2 DEF DeathsAreKept
  <2>3. ASSUME shown.on, Entity(shown.match, Own) \in deaths PROVE shown.spectating
    <3>. DEFINE own == Entity(shown.match, Own)
    <3>1. own[1] = shown.match
      BY DEF Entity
    <3>2. own \in Heeded
      BY <2>1, <2>3, <3>1
    <3>3. Heeded \subseteq shown.dead
      BY <1>0, <2>3 DEF DeathsAreKept
    <3>4. own \in Entities
      <4>1. handed.deaths \in Seq(Entities)
        BY <1>0, EventTypes
      <4>2. QED
        BY <2>3, <4>1 DEF ToSet
    <3>5. shown.match > 0
      BY <3>1, <3>4, Bounds DEF Entities
    <3>6. QED
      BY <1>0, <3>2, <3>3, <3>5 DEF DeathsAreKept
  <2>4. GoneAre(deaths)
    BY <2>1, <2>2, <2>3 DEF GoneAre
  <2>5. shown.spectating /\ DOMAIN shown.remote # {} =>
          shown.watched # Nothing /\ shown.watched[1] \in DOMAIN shown.remote
    BY <1>0, Zenon DEF DeathsAreKept
  <2>6. QED
    BY <2>4, <2>5, Zenon DEF DeadStayGone
<1>3. QED
  BY <1>1, <1>2 DEF EventsInv

(***************************************************************************)
(* Every Death a frame was handed is for good, and every event is handed   *)
(* once and in order, however the threads interleave (EventsInv).          *)
(***************************************************************************)
THEOREM EventsAreHandedOnce == ViewSpec => []EventsInv
<1>1. EventsIInv /\ [ViewNext]_viewVars => EventsIInv'
  BY EventsStep
<1>2. QED
  BY <1>1, EventsInitially, EventsSuffice, PTL DEF ViewSpec

(* What is kept of a body: its newest updates, to the last; back to the    *)
(* first recorded unless more were than are kept (RemoteInterpolator).     *)
HistoryOf(h, first, last) ==
  /\ h \in Seq(Nat) \ {<<>>} /\ Len(h) <= UpdatesKept /\ h[Len(h)] = last
  /\ \A i, j \in DOMAIN h : i < j => h[i] < h[j]
  /\ first <= h[1] /\ (Len(h) < UpdatesKept => h[1] = first)

(* One more update keeps a history's reach, or it is full.                 *)
LEMMA PushedHistory ==
  ASSUME NEW h, NEW first \in Nat, NEW last \in Nat, HistoryOf(h, first, last), NEW tick \in Nat, last < tick
  PROVE  HistoryOf(Push(h, tick), first, tick)
<1>1. /\ h \in Seq(Nat) /\ h # <<>> /\ Len(h) <= UpdatesKept /\ h[Len(h)] = last
      /\ \A i, j \in DOMAIN h : i < j => h[i] < h[j]
      /\ first <= h[1] /\ (Len(h) < UpdatesKept => h[1] = first)
  BY DEF HistoryOf
<1>2. UpdatesKept \in Nat /\ UpdatesKept # 0
  BY Bounds
<1>. DEFINE n == Len(h)
            p == Push(h, tick)
<1>3. /\ n \in Nat /\ n # 0 /\ DOMAIN h = 1 .. n /\ 1 \in 1 .. n /\ n \in 1 .. n
      /\ \A i \in 1 .. n : h[i] \in Nat
  BY <1>1
<1>0. h[n] = last /\ n <= UpdatesKept /\ (n < UpdatesKept => h[1] = first)
  BY <1>1
<1>. HIDE DEF n
<1>4. \A i \in 1 .. n : h[i] <= last /\ h[i] >= first
  <2>. SUFFICES ASSUME NEW i \in 1 .. n PROVE h[i] <= last /\ h[i] >= first
    OBVIOUS
  <2>1. i = n \/ i < n
    BY <1>3
  <2>2. i = 1 \/ 1 < i
    BY <1>3
  <2>3. h[i] <= last
    BY <1>0, <1>1, <1>3, <2>1
  <2>4. h[i] >= first
    BY <1>1, <1>3, <2>2
  <2>5. QED
    BY <2>3, <2>4
<1>5. CASE n = UpdatesKept
  <2>1. p = Append(Tail(h), tick)
    BY <1>5 DEF Push, n
  <2>2. /\ Tail(h) \in Seq(Nat) /\ Len(Tail(h)) = n - 1 /\ \A i \in 1 .. n - 1 : Tail(h)[i] = h[i + 1]
    BY <1>1, <1>3 DEF n
  <2>3. /\ p \in Seq(Nat) /\ Len(p) = n /\ DOMAIN p = 1 .. n /\ p[n] = tick
        /\ \A i \in 1 .. n - 1 : p[i] = h[i + 1]
    BY <1>3, <2>1, <2>2
  <2>. HIDE DEF p
  <2>4. \A i, j \in DOMAIN p : i < j => p[i] < p[j]
    <3>. SUFFICES ASSUME NEW i \in 1 .. n, NEW j \in 1 .. n, i < j PROVE p[i] < p[j]
      BY <2>3
    <3>1. i \in 1 .. n - 1 /\ i + 1 \in 1 .. n /\ p[i] = h[i + 1]
      BY <1>3, <2>3
    <3>2. CASE j = n
      BY <1>3, <1>4, <2>3, <3>1, <3>2
    <3>3. CASE j # n
      <4>1. j \in 1 .. n - 1 /\ j + 1 \in 1 .. n /\ p[j] = h[j + 1] /\ i + 1 < j + 1
        BY <1>3, <2>3, <3>3
      <4>2. QED
        BY <1>1, <1>3, <3>1, <4>1
    <3>4. QED
      BY <3>2, <3>3
  <2>5. first <= p[1]
    <3>1. CASE n = 1
      BY <1>3, <1>4, <2>3, <3>1
    <3>2. CASE n # 1
      <4>1. 1 \in 1 .. n - 1 /\ 2 \in 1 .. n /\ p[1] = h[1 + 1]
        BY <1>3, <2>3, <3>2
      <4>2. QED
        BY <1>4, <4>1
    <3>3. QED
      BY <3>1, <3>2
  <2>6. p # <<>> /\ Len(p) <= UpdatesKept /\ p[Len(p)] = tick /\ ~(Len(p) < UpdatesKept)
    BY <1>2, <1>3, <1>5, <2>3
  <2>7. QED
    BY <2>3, <2>4, <2>5, <2>6, Zenon DEF HistoryOf, p
<1>6. CASE n # UpdatesKept
  <2>1. p = Append(h, tick)
    BY <1>6 DEF Push, n
  <2>2. /\ p \in Seq(Nat) /\ Len(p) = n + 1 /\ DOMAIN p = 1 .. n + 1 /\ p[n + 1] = tick
        /\ \A i \in 1 .. n : p[i] = h[i]
    BY <1>1, <1>3, <2>1 DEF n
  <2>3. n < UpdatesKept
    BY <1>0, <1>2, <1>3, <1>6
  <2>. HIDE DEF p
  <2>4. \A i, j \in DOMAIN p : i < j => p[i] < p[j]
    <3>. SUFFICES ASSUME NEW i \in 1 .. n + 1, NEW j \in 1 .. n + 1, i < j PROVE p[i] < p[j]
      BY <2>2
    <3>1. i \in 1 .. n /\ p[i] = h[i]
      BY <1>3, <2>2
    <3>2. CASE j = n + 1
      BY <1>3, <1>4, <2>2, <3>1, <3>2
    <3>3. CASE j # n + 1
      <4>1. j \in 1 .. n /\ p[j] = h[j]
        BY <1>3, <2>2, <3>3
      <4>2. QED
        BY <1>1, <1>3, <3>1, <4>1
    <3>4. QED
      BY <3>2, <3>3
  <2>5. p[1] = first
    BY <1>0, <1>3, <2>2, <2>3
  <2>6. p # <<>> /\ Len(p) <= UpdatesKept /\ p[Len(p)] = tick
    BY <1>2, <1>3, <2>2, <2>3
  <2>7. first <= p[1]
    BY <2>5
  <2>8. QED
    BY <2>2, <2>4, <2>5, <2>6, <2>7, Zenon DEF HistoryOf, p
<1>7. QED
  BY <1>5, <1>6

LEMMA NewHistory ==
  ASSUME NEW tick \in Nat
  PROVE  HistoryOf(Push(<<>>, tick), tick, tick)
<1>1. UpdatesKept \in Nat /\ UpdatesKept # 0
  BY Bounds
<1>2. Len(<<>>) = 0 /\ Append(<<>>, tick) = <<tick>>
  OBVIOUS
<1>3. Push(<<>>, tick) = <<tick>>
  BY <1>1, <1>2 DEF Push
<1>. DEFINE p == <<tick>>
<1>4. /\ p \in Seq(Nat) /\ p # <<>> /\ Len(p) = 1 /\ DOMAIN p = 1 .. 1 /\ p[1] = tick
  OBVIOUS
<1>. HIDE DEF p
<1>5. HistoryOf(p, tick, tick)
  BY <1>1, <1>4 DEF HistoryOf
<1>6. QED
  BY <1>3, <1>5 DEF p

(* Of rising ticks the first is as far back as there are others.           *)
LEMMA RisingTicks ==
  ASSUME NEW h \in Seq(Nat) \ {<<>>}, \A i, j \in DOMAIN h : i < j => h[i] < h[j]
  PROVE  h[1] \in Nat /\ h[1] + Len(h) - 1 <= h[Len(h)]
<1>. DEFINE n == Len(h)
<1>1. /\ n \in Nat /\ n # 0 /\ DOMAIN h = 1 .. n /\ \A i \in 1 .. n : h[i] \in Nat
      /\ \A i, j \in 1 .. n : i < j => h[i] < h[j]
  OBVIOUS
<1>. HIDE DEF n
<1>. DEFINE Bad == {i \in 1 .. n : ~(h[1] + i - 1 <= h[i])}
<1>2. Bad = {}
  <2>1. SUFFICES ASSUME Bad # {} PROVE FALSE
    OBVIOUS
  <2>2. Bad \in SUBSET Nat
    OBVIOUS
  <2>3. PICK i \in Bad : \A k \in Bad : i <= k
    <3>. HIDE DEF Bad
    <3>. QED
      BY <2>1, <2>2, LeastNat
  <2>4. i \in 1 .. n /\ ~(h[1] + i - 1 <= h[i])
    OBVIOUS
  <2>5. i # 1
    BY <1>1, <2>4
  <2>6. i - 1 \in 1 .. n /\ i - 1 \notin Bad
    <3>1. i \in Nat /\ i - 1 \in 1 .. n /\ ~(i <= i - 1)
      BY <1>1, <2>4, <2>5
    <3>. HIDE DEF Bad
    <3>2. QED
      BY <2>3, <3>1
  <2>7. h[1] + (i - 1) - 1 <= h[i - 1]
    BY <2>6
  <2>8. h[i - 1] < h[i]
    BY <1>1, <2>4, <2>6
  <2>9. h[1] \in Nat /\ h[i - 1] \in Nat /\ h[i] \in Nat /\ i \in Nat
    BY <1>1, <2>4, <2>6
  <2>10. QED
    BY <2>4, <2>7, <2>8, <2>9
<1>3. n \in 1 .. n
  BY <1>1
<1>4. n \notin Bad
  BY <1>2, Zenon
<1>5. h[1] + n - 1 <= h[n]
  BY <1>3, <1>4
<1>6. QED
  BY <1>1, <1>3, <1>5 DEF n

(* What is kept of the bodies of a match, after any number of updates.     *)
RecordedOf(w, match) ==
  /\ w.last = Nothing => w.first = Nothing /\ DOMAIN w.bodies = {}
  /\ w.last # Nothing =>
       /\ w.first # Nothing
       /\ \E s \in told : s.match = match /\ w.last = <<s.tick>> /\ DOMAIN w.bodies = ListedIn(s)
       /\ \A e \in DOMAIN w.bodies : HistoryOf(w.bodies[e], w.first[1], w.last[1])

(* Recording one more update of the match (RecordUpdate).                  *)
LEMMA OneMoreRecorded ==
  ASSUME Base, NEW w \in Worlds, NEW u \in told, NEW match, u.match = match,
         RecordedOf(w, match), w.last # Nothing => w.last[1] < u.tick
  PROVE  RecordedOf(RecordUpdate(w, u), match)
<1>1. u \in States /\ u.tick \in Nat /\ told \subseteq States
  BY Zenon DEF Base, ViewTyped, States
<1>. DEFINE next == RecordUpdate(w, u)
<1>2. /\ next.last = <<u.tick>> /\ next.first = (IF w.first = Nothing THEN <<u.tick>> ELSE w.first)
      /\ DOMAIN next.bodies = ListedIn(u)
      /\ \A e \in ListedIn(u) :
           next.bodies[e] = Push(IF e \in DOMAIN w.bodies THEN w.bodies[e] ELSE <<>>, u.tick)
  BY <1>1, UpdateIsRecorded
<1>. HIDE DEF next
<1>3. next.last # Nothing /\ next.first # Nothing /\ next.last[1] = u.tick
  BY <1>2 DEF Nothing
<1>4. ASSUME NEW e \in ListedIn(u) PROVE HistoryOf(next.bodies[e], next.first[1], next.last[1])
  <2>1. CASE w.last = Nothing
    <3>1. w.first = Nothing /\ e \notin DOMAIN w.bodies
      BY <2>1, Zenon DEF RecordedOf
    <3>2. next.bodies[e] = Push(<<>>, u.tick) /\ next.first = <<u.tick>>
      BY <1>2, <1>4, <3>1
    <3>3. next.first[1] = u.tick
      BY <3>2
    <3>4. QED
      BY <1>1, <1>3, <3>2, <3>3, NewHistory
  <2>2. CASE w.last # Nothing
    <3>1. /\ w.first # Nothing
          /\ \E s \in told : s.match = match /\ w.last = <<s.tick>> /\ DOMAIN w.bodies = ListedIn(s)
          /\ \A d \in DOMAIN w.bodies : HistoryOf(w.bodies[d], w.first[1], w.last[1])
      BY <2>2, Zenon DEF RecordedOf
    <3>2. PICK s \in told : s.match = match /\ w.last = <<s.tick>> /\ DOMAIN w.bodies = ListedIn(s)
      BY <3>1, Zenon
    <3>3. s \in States /\ s.tick \in Nat /\ w.last[1] = s.tick
      BY <1>1, <3>2 DEF States
    <3>4. s.tick < u.tick
      BY <2>2, <3>3
    <3>5. u.bodies \subseteq s.bodies
      BY <3>2, <3>4, Zenon DEF Base, ToldInLine
    <3>6. e \in DOMAIN w.bodies
      BY <1>4, <3>2, <3>5 DEF ListedIn
    <3>7. next.bodies[e] = Push(w.bodies[e], u.tick) /\ next.first = w.first
      BY <1>2, <1>4, <3>1, <3>6
    <3>8. w.first \in Optional(Nat)
      BY Zenon DEF Worlds
    <3>9. w.first[1] \in Nat
      BY <3>1, <3>8, ValueOf
    <3>10. HistoryOf(w.bodies[e], w.first[1], s.tick)
      BY <3>1, <3>3, <3>6
    <3>11. HistoryOf(Push(w.bodies[e], u.tick), w.first[1], u.tick)
      BY <1>1, <3>3, <3>4, <3>9, <3>10, PushedHistory
    <3>12. QED
      BY <1>3, <3>7, <3>11
  <2>3. QED
    BY <2>1, <2>2
<1>5. \E s \in told : s.match = match /\ next.last = <<s.tick>> /\ DOMAIN next.bodies = ListedIn(s)
  BY <1>2
<1>6. RecordedOf(next, match)
  BY <1>2, <1>3, <1>4, <1>5, Zenon DEF RecordedOf
<1>7. QED
  BY <1>6 DEF next

(* A frame's updates recorded, one after another.                          *)
LEMMA AllAreInLine ==
  ASSUME Base, NEW w \in Worlds, NEW match, NEW updates \in Seq(States),
         \A k \in DOMAIN updates : updates[k] \in told /\ updates[k].match = match,
         \A k, l \in DOMAIN updates : k < l => updates[k].tick < updates[l].tick,
         w.last # Nothing => \A k \in DOMAIN updates : w.last[1] < updates[k].tick,
         RecordedOf(w, match)
  PROVE  RecordedOf(AllRecorded(w, updates), match)
<1>. DEFINE count == Len(updates)
<1>1. count \in Nat /\ DOMAIN updates = 1 .. count
  OBVIOUS
<1>2. PICK after \in [0 .. count -> Worlds] :
        /\ after[0] = w /\ AllRecorded(w, updates) = after[count]
        /\ \A n \in 1 .. count : after[n] = RecordUpdate(after[n - 1], updates[n])
  BY AllAreRecorded, Zenon
<1>. HIDE DEF count
<1>. DEFINE Good(n) ==
              /\ RecordedOf(after[n], match)
              /\ after[n].last # Nothing => \A k \in n + 1 .. count : after[n].last[1] < updates[k].tick
            Bad == {n \in 0 .. count : ~Good(n)}
<1>3. Good(0)
  BY <1>1, <1>2
<1>4. ASSUME NEW n \in 1 .. count, Good(n - 1) PROVE Good(n)
  <2>1. n - 1 \in 0 .. count /\ n \in DOMAIN updates /\ n \in (n - 1) + 1 .. count
    BY <1>1
  <2>2. after[n - 1] \in Worlds /\ updates[n] \in told /\ updates[n].match = match
    BY <1>2, <2>1
  <2>3. RecordedOf(after[n - 1], match) /\ (after[n - 1].last # Nothing => after[n - 1].last[1] < updates[n].tick)
    BY <1>4, <2>1
  <2>. DEFINE v == after[n - 1]
              u == updates[n]
  <2>3a. /\ v \in Worlds /\ u \in told /\ u.match = match
        /\ RecordedOf(v, match) /\ (v.last # Nothing => v.last[1] < u.tick)
    BY <2>2, <2>3
  <2>4. RecordedOf(RecordUpdate(after[n - 1], updates[n]), match)
    <3>. HIDE DEF v, u
    <3>1. RecordedOf(RecordUpdate(v, u), match)
      BY <2>3a, OneMoreRecorded
    <3>2. QED
      BY <3>1 DEF v, u
  <2>3b. RecordUpdate(v, u).last = <<u.tick>>
    <3>. HIDE DEF v, u
    <3>1. u \in States
      BY <2>3a, Zenon DEF Base, ViewTyped
    <3>2. QED
      BY <2>3a, <3>1, UpdateIsRecorded
  <2>5. RecordUpdate(after[n - 1], updates[n]).last = <<updates[n].tick>>
    BY <2>3b, Zenon
  <2>. HIDE DEF v, u
  <2>6. after[n] = RecordUpdate(after[n - 1], updates[n])
    BY <1>2
  <2>7. RecordedOf(after[n], match) /\ after[n].last[1] = updates[n].tick
    BY <2>4, <2>5, <2>6
  <2>8. \A k \in n + 1 .. count : updates[n].tick < updates[k].tick
    BY <1>1, <2>1
  <2>9. QED
    BY <2>7, <2>8
<1>. HIDE DEF Good
<1>5. Bad = {}
  <2>1. SUFFICES ASSUME Bad # {} PROVE FALSE
    OBVIOUS
  <2>2. Bad \in SUBSET Nat
    BY <1>1
  <2>3. PICK n \in Bad : \A k \in Bad : n <= k
    <3>. HIDE DEF Bad
    <3>. QED
      BY <2>1, <2>2, LeastNat
  <2>4. n \in 1 .. count /\ n - 1 \in 0 .. count /\ n - 1 \in Nat /\ n \in Nat
    BY <1>1, <1>3
  <2>5. n - 1 \notin Bad
    <3>1. ~(n <= n - 1)
      BY <2>4
    <3>. HIDE DEF Bad
    <3>2. QED
      BY <2>3, <3>1
  <2>6. Good(n - 1)
    BY <2>4, <2>5
  <2>7. Good(n)
    BY <1>4, <2>4, <2>6
  <2>8. QED
    BY <2>7
<1>6. Good(count)
  BY <1>1, <1>5
<1>7. QED
  BY <1>2, <1>6 DEF Good

(* What is kept of a body reaches back to any time it is sampled at, or    *)
(* falls short of it by what the updates kept do.                          *)
LEMMA HistoryReachesBack ==
  ASSUME NEW h, NEW first \in Nat, NEW last \in Nat, HistoryOf(h, first, last),
         NEW time \in Int, time >= last - ResyncThreshold - InterpolationDelay
  PROVE  Clamp(time, h[1], h[Len(h)]) - Clamp(time, first, last) \in 0 .. LaterThanSeen
<1>1. /\ h \in Seq(Nat) \ {<<>>} /\ Len(h) <= UpdatesKept /\ h[Len(h)] = last
      /\ \A i, j \in DOMAIN h : i < j => h[i] < h[j]
      /\ first <= h[1] /\ (Len(h) < UpdatesKept => h[1] = first)
  BY DEF HistoryOf
<1>2. h[1] \in Nat /\ h[1] + Len(h) - 1 <= h[Len(h)]
  BY <1>1, RisingTicks
<1>3. Len(h) \in Nat /\ UpdatesKept \in Nat /\ ResyncThreshold \in Nat /\ InterpolationDelay \in Nat
  BY <1>1, Bounds
<1>4. LaterThanSeen \in Nat /\ LaterThanSeen >= InterpolationDelay + ResyncThreshold + 1 - UpdatesKept
  BY <1>3 DEF LaterThanSeen
<1>5. h[1] <= last
  BY <1>1, <1>2, <1>3
<1>6. CASE ~(time < h[1])
  <2>1. ~(time < first)
    BY <1>1, <1>2, <1>6
  <2>2. Clamp(time, h[1], h[Len(h)]) = Clamp(time, first, last) /\ Clamp(time, first, last) \in Int
    BY <1>1, <1>6, <2>1 DEF Clamp
  <2>3. QED
    BY <1>4, <2>2
<1>7. CASE time < h[1] /\ h[1] = first
  <2>1. Clamp(time, h[1], h[Len(h)]) = first /\ Clamp(time, first, last) = first
    BY <1>7 DEF Clamp
  <2>2. QED
    BY <1>4, <2>1
<1>8. CASE time < h[1] /\ h[1] # first
  <2>1. Len(h) = UpdatesKept
    BY <1>1, <1>3, <1>8
  <2>2. h[1] - time <= LaterThanSeen
    BY <1>1, <1>2, <1>3, <1>4, <2>1
  <2>3. Clamp(time, h[1], h[Len(h)]) = h[1]
    BY <1>8 DEF Clamp
  <2>4. ~(time > last)
    BY <1>2, <1>5, <1>8
  <2>5. Clamp(time, first, last) \in Int /\ time <= Clamp(time, first, last) /\ Clamp(time, first, last) <= h[1]
    BY <1>1, <1>2, <1>8, <2>4 DEF Clamp
  <2>6. QED
    BY <1>2, <1>4, <2>2, <2>3, <2>5
<1>9. QED
  BY <1>6, <1>7, <1>8

(* What is kept of the bodies shown, unless the frame that began them is   *)
(* one the Seen time is not held within the updates of.                    *)
HistoriesInLine ==
  shown.last # Nothing /\ ~shown.stalled =>
    \A e \in DOMAIN shown.bodies : HistoryOf(shown.bodies[e], shown.first[1], shown.last[1])

(* A frame's Seen time, and what it has of what it shows.                  *)
LEMMA SeenAtFrame ==
  ASSUME Base, FramesInLine, ShownIsOfAState, HistoriesInLine, FrameShows
  PROVE  HistoriesInLine' /\ ShownAsSeen'
<1>1. /\ frame.open /\ told' = told /\ ShowsFrame
      /\ converted.updates # <<>> =>
           \E begun, fresh, recorded, time :
             /\ ShowsUpdates(begun, fresh, recorded, time)
             /\ fresh = Fresh(begun, converted.updates) /\ recorded = AllRecorded(begun, fresh)
             /\ time = recorded.clock.now[1] - InterpolationDelay
  BY AFrame, Zenon
<1>2. CASE converted.updates = <<>>
  <2>1. DOMAIN shown'.remote = {} /\ shown'.last = Nothing
    BY <1>1, <1>2, Zenon DEF ShowsFrame, NothingInIt
  <2>2. QED
    BY <2>1 DEF HistoriesInLine, ShownAsSeen
<1>3. CASE converted.updates # <<>> /\ shown'.stalled
  BY <1>3 DEF HistoriesInLine, ShownAsSeen
<1>4. CASE converted.updates # <<>> /\ ~shown'.stalled
  <2>1. PICK begun, fresh, recorded, time :
             /\ ShowsUpdates(begun, fresh, recorded, time)
             /\ fresh = Fresh(begun, converted.updates) /\ recorded = AllRecorded(begun, fresh)
             /\ time = recorded.clock.now[1] - InterpolationDelay
    BY <1>1, <1>4, Zenon
  <2>2. /\ begun \in Worlds /\ begun.last = shown.last /\ begun.first = shown.first
        /\ begun.bodies = shown.bodies
        /\ recorded \in Worlds /\ KeepsUp(recorded)
        /\ shown'.first = recorded.first /\ shown'.last = recorded.last /\ shown'.bodies = recorded.bodies
        /\ DOMAIN shown'.remote = DOMAIN shown'.bodies \ shown'.dead
        /\ time \in Int /\ recorded.first[1] \in Nat /\ recorded.last[1] \in Nat
        /\ shown'.seen = <<Clamp(time, recorded.first[1], recorded.last[1])>>
        /\ \A e \in DOMAIN shown'.remote :
             shown'.remote[e] = Clamp(time, shown'.bodies[e][1], shown'.bodies[e][Len(shown'.bodies[e])])
    BY <2>1, Zenon DEF ShowsUpdates
  <2>3. ~shown.stalled /\ (frame.match = shown.match \/ shown.last = Nothing)
    BY <1>1, <1>4, Zenon DEF ShowsFrame
  <2>4. RecordedOf(begun, frame.match)
    <3>1. shown.last = Nothing => shown.first = Nothing /\ DOMAIN shown.bodies = {}
      BY Zenon DEF ShownIsOfAState
    <3>2. ASSUME shown.last # Nothing
          PROVE  /\ shown.first # Nothing
                 /\ \E s \in told : s.match = frame.match /\ shown.last = <<s.tick>> /\ DOMAIN shown.bodies = ListedIn(s)
                 /\ \A e \in DOMAIN shown.bodies : HistoryOf(shown.bodies[e], shown.first[1], shown.last[1])
      <4>1. shown.first # Nothing
        BY <3>2, Zenon DEF Base, ShownKeepsUp, KeepsUp
      <4>2. \E s \in told : IsOf(shown, s)
        BY <3>2, Zenon DEF ShownIsOfAState
      <4>3. \E s \in told : s.match = frame.match /\ shown.last = <<s.tick>> /\ DOMAIN shown.bodies = ListedIn(s)
        BY <2>3, <3>2, <4>2, Zenon DEF IsOf
      <4>4. QED
        BY <2>3, <3>2, <4>1, <4>3, Zenon DEF HistoriesInLine
    <3>3. QED
      BY <2>2, <3>1, <3>2, Zenon DEF RecordedOf
  <2>5. converted.updates \in Seq(States) /\ told \subseteq States
        /\ \A i, j \in DOMAIN converted.updates : i < j => converted.updates[i].tick < converted.updates[j].tick
    BY Zenon DEF Base, ViewTyped, UpdatesInLine, UpdatesRise
  <2>6. \A i \in DOMAIN converted.updates :
          converted.updates[i] \in told /\ converted.updates[i].match = frame.match
    <3>1. frame.match = converted.match
      BY <1>1, Zenon DEF FramesInLine
    <3>2. QED
      BY <3>1, Zenon DEF Base, UpdatesInLine
  <2>7. /\ fresh \in Seq(States)
        /\ \A k \in DOMAIN fresh : /\ \E i \in DOMAIN converted.updates : fresh[k] = converted.updates[i]
                                   /\ begun.last # Nothing => fresh[k].tick > begun.last[1]
        /\ \A k, l \in DOMAIN fresh : k < l => fresh[k].tick < fresh[l].tick
    BY <2>1, <2>2, <2>5, FreshUpdates
  <2>8. \A k \in DOMAIN fresh : fresh[k] \in told /\ fresh[k].match = frame.match
    BY <2>6, <2>7
  <2>9. begun.last # Nothing => \A k \in DOMAIN fresh : begun.last[1] < fresh[k].tick
    <3>1. begun.last \in Optional(Nat)
      BY <2>2, Zenon DEF Worlds
    <3>2. \A k \in DOMAIN fresh : fresh[k].tick \in Nat
      BY <2>5, <2>8 DEF States
    <3>3. begun.last # Nothing => begun.last[1] \in Nat
      BY <3>1, ValueOf
    <3>4. QED
      BY <2>7, <3>2, <3>3
  <2>10. RecordedOf(recorded, frame.match)
    BY <2>1, <2>2, <2>4, <2>7, <2>8, <2>9, AllAreInLine
  <2>11. recorded.last # Nothing /\ recorded.clock.now[1] >= recorded.last[1] - ResyncThreshold
    BY <2>2, Zenon DEF KeepsUp
  <2>12. \A e \in DOMAIN recorded.bodies : HistoryOf(recorded.bodies[e], recorded.first[1], recorded.last[1])
    BY <2>10, <2>11, Zenon DEF RecordedOf
  <2>13. HistoriesInLine'
    BY <2>2, <2>12, Zenon DEF HistoriesInLine
  <2>14. time >= recorded.last[1] - ResyncThreshold - InterpolationDelay
    <3>1. recorded.clock.now \in Optional(Int) /\ recorded.clock.now # Nothing
      BY <2>2, Zenon DEF Worlds, KeepsUp
    <3>2. recorded.clock.now[1] \in Int
      BY <3>1, ValueOf
    <3>3. QED
      BY SMTT(30), <2>1, <2>2, <2>11, <3>2, Bounds
  <2>15. ASSUME NEW e \in DOMAIN shown'.remote PROVE shown'.remote[e] - shown'.seen[1] \in 0 .. LaterThanSeen
    <3>. DEFINE h == recorded.bodies[e]
                first == recorded.first[1]
                last == recorded.last[1]
    <3>1. HistoryOf(h, first, last) /\ first \in Nat /\ last \in Nat
      BY <2>2, <2>12, <2>15
    <3>2. shown'.remote[e] = Clamp(time, h[1], h[Len(h)]) /\ shown'.seen = <<Clamp(time, first, last)>>
      BY <2>2, <2>15
    <3>. HIDE DEF h
    <3>3. Clamp(time, h[1], h[Len(h)]) - Clamp(time, first, last) \in 0 .. LaterThanSeen
      <4>. HIDE DEF first, last
      <4>1. time >= last - ResyncThreshold - InterpolationDelay
        BY <2>14 DEF last
      <4>2. QED
        BY <2>2, <3>1, <4>1, HistoryReachesBack
    <3>. HIDE DEF first, last
    <3>4. QED
      BY <3>2, <3>3
  <2>16. ShownAsSeen'
    BY <2>15, Zenon DEF ShownAsSeen
  <2>17. QED
    BY <2>13, <2>16
<1>5. QED
  BY <1>2, <1>3, <1>4

ViewIInv == EventsIInv /\ HistoriesInLine /\ ShownAsSeen

LEMMA ViewInitially == ViewInit => ViewIInv
<1>. SUFFICES ASSUME ViewInit PROVE ViewIInv
  OBVIOUS
<1>1. shown.last = Nothing /\ shown.remote = <<>>
  BY DEF ViewInit
<1>2. HistoriesInLine /\ ShownAsSeen
  BY <1>1 DEF HistoriesInLine, ShownAsSeen
<1>3. QED
  BY <1>2, EventsInitially DEF ViewIInv

(* Every step keeps the strengthening of ViewInv.                          *)
LEMMA ViewStep ==
  ASSUME ViewIInv, [ViewNext]_viewVars
  PROVE  ViewIInv'
<1>1. EventsIInv' /\ EventsIInv /\ HistoriesInLine /\ ShownAsSeen
  BY EventsStep, Zenon DEF ViewIInv
<1>2. Base /\ MatchesInLine /\ FramesInLine /\ ShownIsOfAState
  BY <1>1, Zenon DEF EventsIInv
<1>3. CASE shown' = shown
  <2>1. HistoriesInLine' /\ ShownAsSeen'
    BY <1>1, <1>3, Zenon DEF HistoriesInLine, ShownAsSeen
  <2>2. QED
    BY <1>1, <2>1, Zenon DEF ViewIInv
<1>4. CASE FrameShows
  <2>1. HistoriesInLine' /\ ShownAsSeen'
    BY <1>1, <1>2, <1>4, SeenAtFrame
  <2>2. QED
    BY <1>1, <2>1, Zenon DEF ViewIInv
<1>5. CASE ~FrameShows
  <2>1. shown' = shown
    <3>1. CASE ServerStart
      BY <3>1, Zenon DEF ServerStart
    <3>2. CASE ServerTicks
      BY <1>2, <3>2, ATick, Zenon
    <3>3. CASE ReceiveReliable
      BY <1>2, <3>3, WhatIsReceived, Zenon DEF Base
    <3>4. CASE ReceiveState
      BY <1>2, <3>4, WhatArrives, Zenon DEF Base, RecentInLine
    <3>5. CASE FrameBegins
      BY <1>2, <3>5, StartedIsBounded, WhatIsRead, Zenon
    <3>6. CASE UNCHANGED viewVars
      BY <3>6 DEF viewVars
    <3>7. QED
      BY <1>5, <3>1, <3>2, <3>3, <3>4, <3>5, <3>6, Zenon DEF ViewNext
  <2>2. QED
    BY <1>3, <2>1
<1>6. QED
  BY <1>4, <1>5

(* And it says what ViewInv does.                                          *)
LEMMA ViewSuffices == ViewIInv => ViewInv
<1>. SUFFICES ASSUME ViewIInv PROVE ViewInv
  OBVIOUS
<1>1. Base /\ ShownIsOfAState /\ ShownAsSeen
  BY Zenon DEF ViewIInv, EventsIInv
<1>2. /\ Len(published.recent) <= RecentStatesKept
      /\ \A i, j \in DOMAIN published.recent : i < j => published.recent[i].tick < published.recent[j].tick
      /\ Len(pending.shots) <= PendingKept /\ Len(pending.deaths) <= PendingKept
      /\ \A i, j \in DOMAIN converted.updates : i < j => converted.updates[i].tick < converted.updates[j].tick
  BY <1>1, Zenon DEF Base, RecentInLine, RecentRise, PendingFits, UpdatesInLine, UpdatesRise
<1>3. \A e \in DOMAIN shown.remote : e \in Entities /\ e[1] = shown.match /\ e[2] # Own
  BY <1>1, ShownAreOfItsMatch, Zenon DEF ShownOfItsMatch
<1>4. QED
  BY <1>1, <1>2, <1>3 DEF ViewInv, Rising

(***************************************************************************)
(* What a frame shows is of one moment and one match (ViewInv), of any     *)
(* tick rate: at the Seen time while the updates kept cover the            *)
(* interpolation delay behind a clock as far behind as it may be, and      *)
(* after it by no more than they fall short (interpolation.h, kUpdatesKept).*)
(***************************************************************************)
THEOREM FramesShowOneMoment == ViewSpec => []ViewInv
<1>1. ViewIInv /\ [ViewNext]_viewVars => ViewIInv'
  BY ViewStep
<1>2. QED
  BY <1>1, ViewInitially, ViewSuffices, PTL DEF ViewSpec
==============================================================================
