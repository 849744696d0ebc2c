-------------------------- MODULE ConnectionsProofs -------------------------
(***************************************************************************)
(* Proofs about the peers' connections (Connections.tla), for any peers,   *)
(* threshold, window, deadline and bounds, whatever the peers say and      *)
(* whichever way the two server threads and the network interleave: the    *)
(* transport's table, the gate and the Host agree about who is there, and  *)
(* a peer is expelled for a reason.                                        *)
(***************************************************************************)
EXTENDS Connections

USE GateAssumption

-----------------------------------------------------------------------------
(***************************************************************************)
(* What a part of a round leaves behind is taken by the next.              *)
(***************************************************************************)
RoundInv ==
  /\ phase # "apply" => drained = <<>>
  /\ phase # "events" => events = <<>>
  /\ phase # "messages" => received = NoMessages

(***************************************************************************)
(* A peer asks to be accepted once: its request is posted, drained, in the *)
(* table or among the events, and until it is handled the peer has no      *)
(* deadline, has said nothing and was not expelled.                        *)
(***************************************************************************)
Asking(p) == PeerEvent(p, "connecting")
Request(p) == PeerEvent(p, "kConnectRequested")
Announced(p) == Asking(p) \in ToSet(posted) \cup ToSet(drained)
Asks(p) == Announced(p) \/ p \in pending \/ Request(p) \in ToSet(events)

Once(e, s) == \A i, j \in DOMAIN s : s[i] = e /\ s[j] = e => i = j

AskedOnce ==
  \A p \in Peers :
    /\ Once(Asking(p), posted) /\ Once(Asking(p), drained) /\ Once(Request(p), events)
    /\ ~(Asking(p) \in ToSet(posted) /\ Asking(p) \in ToSet(drained))
    /\ Announced(p) => p \notin pending /\ Request(p) \notin ToSet(events)

NewWhileAsking ==
  \A p \in Peers :
    /\ Asks(p) => wire[p] \in {"connecting", "ended", "closed"}
    /\ wire[p] = "none" => ~Asks(p)
    /\ wire[p] = "none" \/ Asks(p) => said[p] = 0 /\ deadlines[p] = NoDeadline /\ gone[p] = "no"

(***************************************************************************)
(* Nothing is heard of a peer that said nothing, nor was it admitted.      *)
(***************************************************************************)
SilentIsUnheard ==
  \A p \in Peers : said[p] = 0 => inbox[p] = <<>> /\ received[p] = <<>> /\ p \notin joined

(***************************************************************************)
(* Whoever may yet be admitted, and however often it asks, is connected,   *)
(* or its departure is reported, or was handled.                           *)
(***************************************************************************)
Held(p) == p \in connected \/ DepartureQueued(p) \/ p \in left

JoinersAreHeld ==
  /\ MemberIsHeld
  /\ losing # Nobody => Held(losing)
  /\ \A p \in Peers : received[p] # <<>> /\ p \notin expelled => Held(p)

(***************************************************************************)
(* An expelled peer says nothing more that is handled, and asks no more.   *)
(***************************************************************************)
ExpelledIsSilent ==
  \A p \in Peers :
    /\ gone[p] # "no" =>
         /\ wire[p] = "closed" /\ inbox[p] = <<>>
         /\ received[p] = <<>> \/ p \in expelled
         /\ p \notin members \cup DOMAIN misbehaviour /\ deadlines[p] = NoDeadline
    /\ p \in joined => deadlines[p] = NoDeadline /\ gone[p] # "overdue"

(***************************************************************************)
(* A tracker holds the last misbehaviours of its peer, in order; those it  *)
(* has dropped, unless with its peer, are older than the window.           *)
(***************************************************************************)
Dropped(p) == Len(offences[p]) - Len(Tracker(p))

TrackersAreRecent ==
  \A p \in Peers :
    /\ \A i, j \in DOMAIN offences[p] : i <= j => offences[p][i] <= offences[p][j]
    /\ \A i \in DOMAIN offences[p] : offences[p][i] <= now
    /\ Dropped(p) >= 0
    /\ \A k \in DOMAIN Tracker(p) : Tracker(p)[k] = offences[p][Dropped(p) + k]
    /\ p \notin left => \A d \in 1 .. Dropped(p) : now - offences[p][d] >= Window

ConnectionsIInv ==
  /\ ConnectionsTypeOK
  /\ RoundInv /\ AskedOnce /\ NewWhileAsking /\ SilentIsUnheard
  /\ JoinersAreHeld /\ ExpelledIsSilent
  /\ TrackersAreRecent /\ JudgedByTheWindow
-----------------------------------------------------------------------------
(* What appending to a sequence, and taking its head, do to what is in it. *)
LEMMA AppendHolds ==
  ASSUME NEW T, NEW s \in Seq(T), NEW e \in T
  PROVE  /\ Append(s, e) \in Seq(T)
         /\ ToSet(Append(s, e)) = ToSet(s) \cup {e}
         /\ \A x : Once(x, s) /\ (x # e \/ x \notin ToSet(s)) => Once(x, Append(s, e))
<1>1. /\ Append(s, e) \in Seq(T) /\ Len(Append(s, e)) = Len(s) + 1 /\ Len(s) \in Nat
      /\ DOMAIN s = 1..Len(s) /\ DOMAIN Append(s, e) = 1..(Len(s) + 1)
      /\ \A i \in DOMAIN s : Append(s, e)[i] = s[i]
      /\ Append(s, e)[Len(s) + 1] = e
  OBVIOUS
<1>2. \A i \in DOMAIN Append(s, e) : i \in DOMAIN s \/ i = Len(s) + 1
  BY <1>1
<1>3. DOMAIN s \subseteq DOMAIN Append(s, e) /\ Len(s) + 1 \in DOMAIN Append(s, e)
  BY <1>1
<1>4. ToSet(Append(s, e)) = ToSet(s) \cup {e}
  <2>1. \A x : x \in ToSet(Append(s, e)) <=> x \in ToSet(s) \cup {e}
    BY <1>1, <1>2, <1>3, Zenon DEF ToSet
  <2>2. QED
    BY <2>1
<1>5. ASSUME NEW x, Once(x, s), x # e \/ x \notin ToSet(s)
      PROVE  Once(x, Append(s, e))
  <2>1. \A i \in DOMAIN s : s[i] = x => x # e
    BY <1>5 DEF ToSet
  <2>2. QED
    BY <1>1, <1>2, <1>5, <2>1 DEF Once
<1>6. QED
  BY <1>1, <1>4, <1>5

LEMMA TailHolds ==
  ASSUME NEW T, NEW s \in Seq(T), s # <<>>
  PROVE  /\ Head(s) \in T /\ Tail(s) \in Seq(T)
         /\ ToSet(s) = {Head(s)} \cup ToSet(Tail(s))
         /\ \A x : Once(x, s) => Once(x, Tail(s)) /\ (x = Head(s) => x \notin ToSet(Tail(s)))
<1>1. /\ Tail(s) \in Seq(T) /\ Len(s) \in Nat \ {0} /\ Head(s) \in T
      /\ DOMAIN s = 1..Len(s) /\ DOMAIN Tail(s) = 1..(Len(s) - 1)
      /\ Head(s) = s[1] /\ 1 \in DOMAIN s
      /\ \A i \in DOMAIN Tail(s) : Tail(s)[i] = s[i + 1] /\ i + 1 \in DOMAIN s
  OBVIOUS
<1>2. \A i \in DOMAIN s : i = 1 \/ (i - 1 \in DOMAIN Tail(s) /\ s[i] = Tail(s)[i - 1])
  BY <1>1
<1>3. ToSet(s) = {Head(s)} \cup ToSet(Tail(s))
  <2>1. ToSet(s) \subseteq {Head(s)} \cup ToSet(Tail(s))
    BY <1>1, <1>2 DEF ToSet
  <2>2. Head(s) \in ToSet(s)
    BY <1>1 DEF ToSet
  <2>3. ToSet(Tail(s)) \subseteq ToSet(s)
    BY <1>1 DEF ToSet
  <2>4. QED
    BY <2>1, <2>2, <2>3
<1>4. ASSUME NEW x, Once(x, s) PROVE Once(x, Tail(s)) /\ (x = Head(s) => x \notin ToSet(Tail(s)))
  <2>1. \A i, j \in DOMAIN Tail(s) : i + 1 = j + 1 => i = j
    BY <1>1
  <2>2. Once(x, Tail(s))
    BY <1>1, <1>4, <2>1, Zenon DEF Once
  <2>3. ASSUME x = Head(s), NEW i \in DOMAIN Tail(s), Tail(s)[i] = x PROVE FALSE
    <3>1. i + 1 = 1
      BY <1>1, <1>4, <2>3 DEF Once
    <3>2. QED
      BY <1>1, <3>1
  <2>4. QED
    BY <2>2, <2>3 DEF ToSet
<1>5. QED
  BY <1>1, <1>3, <1>4

LEMMA NothingHolds == ToSet(<<>>) = {} /\ \A x : Once(x, <<>>)
  BY DEF ToSet, Once

(* What closing a connection takes back is its own (CloseConnection).      *)
LEMMA PurgedHolds ==
  ASSUME NEW T, NEW s \in Seq(T), NEW positions \in SUBSET DOMAIN s
  PROVE  /\ Subsequence(s, positions) \in Seq(T)
         /\ ToSet(Subsequence(s, positions)) \subseteq ToSet(s)
         /\ \A x : Once(x, s) => Once(x, Subsequence(s, positions))
<1>. DEFINE kept == Subsequence(s, positions)
            n == Cardinality(positions)
<1>1. /\ kept \in Seq(T) /\ Len(kept) = n /\ n \in Nat
  BY SubsequenceIsOrdered
<1>2. PICK from \in [1..n -> positions] :
           /\ \A k \in 1..n : kept[k] = s[from[k]]
           /\ \A k, l \in 1..n : k < l => from[k] < from[l]
  BY SubsequenceIsOrdered
<1>. HIDE DEF kept, n
<1>3. DOMAIN kept = 1..n /\ \A k \in 1..n : from[k] \in DOMAIN s /\ from[k] \in Nat
  BY <1>1, <1>2
<1>4. ASSUME NEW k \in 1..n, NEW l \in 1..n, from[k] = from[l] PROVE k = l
  <2>1. k < l => from[k] < from[l]
    BY <1>2
  <2>2. l < k => from[l] < from[k]
    BY <1>2
  <2>3. from[k] \in Nat /\ from[l] \in Nat
    BY <1>3
  <2>4. QED
    BY <1>1, <1>4, <2>1, <2>2, <2>3
<1>5. ToSet(kept) \subseteq ToSet(s)
  BY <1>2, <1>3 DEF ToSet
<1>6. \A x : Once(x, s) => Once(x, kept)
  BY <1>2, <1>3, <1>4 DEF Once
<1>7. QED
  BY <1>1, <1>5, <1>6 DEF kept

(* The changes posted are of peers, and so are those reported.             *)
Changes == [peer : Peers, what : {"connecting", "connected", "ended"}]
Reports == [peer : Peers, what : {"kConnected", "kDisconnected"}]
RoundEvents == [peer : Peers, what : {"kConnectRequested", "kConnected", "kDisconnected"}]

LEMMA KnownPeers ==
  ASSUME ConnectionsTypeOK
  PROVE  /\ posted \in Seq(Changes) /\ drained \in Seq(Changes)
         /\ queuedEvents \in Seq(Reports) /\ events \in Seq(RoundEvents)
         /\ IsFiniteSet(pending) /\ Cardinality(pending) \in Nat
<1>1. IsFiniteSet(pending)
  BY FS_Subset DEF ConnectionsTypeOK
<1>2. QED
  BY <1>1, FS_CardinalityType DEF ConnectionsTypeOK, Events, Changes, Reports, RoundEvents

(* Closing a connection, from either thread.                               *)
LEMMA Closing ==
  ASSUME ConnectionsTypeOK, NEW p \in Peers, Closes(p)
  PROVE  /\ posted' \in Seq(Changes)
         /\ wire' \in [Peers -> {"none", "connecting", "accepted", "open", "ended", "closed"}]
         /\ inbox' \in [Peers -> Seq(Kinds)]
         /\ wire' = [wire EXCEPT ![p] = "closed"] /\ inbox' = [inbox EXCEPT ![p] = <<>>]
         /\ ToSet(posted') \subseteq ToSet(posted)
         /\ \A x : Once(x, posted) => Once(x, posted')
         /\ UNCHANGED <<purge, said>>
<1>1. posted \in Seq(Changes)
  BY KnownPeers
<1>. DEFINE others == {i \in DOMAIN posted : posted[i].peer # p}
            PostedLess == /\ posted' \in Seq(Changes) /\ ToSet(posted') \subseteq ToSet(posted)
                          /\ \A x : Once(x, posted) => Once(x, posted')
<1>2. ASSUME posted' = Subsequence(posted, others) PROVE PostedLess
  <2>1. others \in SUBSET DOMAIN posted
    OBVIOUS
  <2>. HIDE DEF others
  <2>2. QED
    BY <1>1, <1>2, <2>1, PurgedHolds
<1>3. ASSUME posted' = posted PROVE PostedLess
  BY <1>1, <1>3
<1>4. <<>> \in Seq(Kinds)
  OBVIOUS
<1>5. /\ wire' \in [Peers -> {"none", "connecting", "accepted", "open", "ended", "closed"}]
      /\ inbox' \in [Peers -> Seq(Kinds)]
  BY <1>4 DEF Closes, ConnectionsTypeOK
<1>6. posted' = Subsequence(posted, others) \/ posted' = posted
  BY Zenon DEF Closes
<1>7. PostedLess
  BY <1>2, <1>3, <1>6
<1>8. QED
  BY <1>5, <1>7 DEF Closes

-----------------------------------------------------------------------------
(* The tracker drops from its front what is no longer recent, and no more  *)
(* (MisbehaviourTracker::Record).                                          *)
LEMMA StaleFront ==
  ASSUME ConnectionsTypeOK, NEW times \in Seq(0..MaxNow)
  PROVE  /\ Stale(times) \in 0..Len(times)
         /\ \A i \in 1..Stale(times) : ~IsRecent(times[i])
         /\ Stale(times) = Len(times) \/ IsRecent(times[Stale(times) + 1])
<1>. DEFINE Stops == {k \in 0..Len(times) : k = Len(times) \/ IsRecent(times[k + 1])}
<1>1. Len(times) \in Nat /\ Len(times) \in Stops /\ Stops \in SUBSET Nat /\ Stops # {}
  OBVIOUS
<1>2. PICK k \in Stops : \A j \in Stops : k <= j
  BY <1>1, LeastNat
<1>3. k \in 0..Len(times) /\ (k = Len(times) \/ IsRecent(times[k + 1]))
  OBVIOUS
<1>4. ASSUME NEW i \in 1..k PROVE ~IsRecent(times[i])
  <2>1. i - 1 \in 0..Len(times) /\ ~(k <= i - 1) /\ (i - 1) + 1 = i
    BY <1>1, <1>3
  <2>2. i - 1 \notin Stops
    BY <1>2, <2>1
  <2>3. QED
    BY <2>1, <2>2
<1>5. \E n \in 0..Len(times) : /\ \A i \in 1..n : ~IsRecent(times[i])
                               /\ n = Len(times) \/ IsRecent(times[n + 1])
  BY <1>3, <1>4
<1>6. QED
  BY <1>5 DEF Stale

(* What a tracker holds once a misbehaviour was recorded.                  *)
LEMMA RecordedMisbehaviour ==
  ASSUME ConnectionsTypeOK, NEW p \in Peers
  PROVE  /\ Tracker(p) \in Seq(0..MaxNow) /\ Len(Tracker(p)) \in 0..(Threshold - 1)
         /\ Stale(Tracker(p)) \in 0..Len(Tracker(p))
         /\ Recent(p) \in Seq(0..MaxNow)
         /\ Len(Recent(p)) = Len(Tracker(p)) - Stale(Tracker(p)) + 1
         /\ \A i \in 1..(Len(Recent(p)) - 1) : Recent(p)[i] = Tracker(p)[Stale(Tracker(p)) + i]
         /\ Recent(p)[Len(Recent(p))] = now
         /\ \A i \in 1..Stale(Tracker(p)) : now - Tracker(p)[i] >= Window
         /\ Stale(Tracker(p)) < Len(Tracker(p)) =>
              now - Tracker(p)[Stale(Tracker(p)) + 1] < Window
<1>. DEFINE T == Tracker(p)
            n == Len(Tracker(p))
            k == Stale(Tracker(p))
<1>1. now \in 0..MaxNow
  BY DEF ConnectionsTypeOK
<1>2. T \in Seq(0..MaxNow) /\ n \in 0..(Threshold - 1)
  <2>1. CASE p \in DOMAIN misbehaviour
    <3>1. misbehaviour[p] \in Seq(0..MaxNow) /\ Len(misbehaviour[p]) < Threshold
      BY <2>1 DEF ConnectionsTypeOK
    <3>2. Len(misbehaviour[p]) \in Nat
      BY <3>1
    <3>3. QED
      BY <2>1, <3>1, <3>2 DEF Tracker
  <2>2. CASE p \notin DOMAIN misbehaviour
    <3>1. Tracker(p) = <<>> /\ <<>> \in Seq(0..MaxNow) /\ Len(<<>>) = 0
      BY <2>2 DEF Tracker
    <3>2. QED
      BY <3>1
  <2>3. QED
    BY <2>1, <2>2
<1>3. /\ k \in 0..n /\ \A i \in 1..k : ~IsRecent(T[i])
      /\ k = n \/ IsRecent(T[k + 1])
  BY <1>2, StaleFront
<1>4. Recent(p) = Append(SubSeq(T, k + 1, n), now)
  BY DEF Recent
<1>5. n = Len(T) /\ n \in Nat /\ k \in Nat /\ k <= n
  BY <1>2, <1>3
<1>. HIDE DEF T, n, k
<1>6. /\ SubSeq(T, k + 1, n) \in Seq(0..MaxNow)
      /\ Len(SubSeq(T, k + 1, n)) = n - k
      /\ \A i \in 1..(n - k) : SubSeq(T, k + 1, n)[i] = T[k + i]
  <2>1. /\ \A i \in (k + 1)..n : T[i] \in 0..MaxNow
    BY <1>2, <1>5
  <2>2. SubSeq(T, k + 1, n) = [i \in 1..(n - k) |-> T[i + k]]
    BY <1>2, <1>5
  <2>3. QED
    BY <1>2, <1>5
<1>7. /\ Recent(p) \in Seq(0..MaxNow) /\ Len(Recent(p)) = n - k + 1
      /\ \A i \in 1..(n - k) : Recent(p)[i] = T[k + i]
      /\ Recent(p)[n - k + 1] = now
  <2>. DEFINE r == SubSeq(T, k + 1, n)
  <2>1. r \in Seq(0..MaxNow) /\ Len(r) = n - k /\ n - k \in Nat
    BY <1>5, <1>6
  <2>. HIDE DEF r
  <2>2. /\ Append(r, now) \in Seq(0..MaxNow) /\ Len(Append(r, now)) = n - k + 1
        /\ \A i \in 1..(n - k) : Append(r, now)[i] = r[i]
        /\ Append(r, now)[n - k + 1] = now
    BY <1>1, <2>1
  <2>3. QED
    BY <1>4, <1>6, <2>2 DEF r
<1>8. \A i \in 1..k : now - T[i] >= Window
  <2>1. \A i \in 1..k : T[i] \in 0..MaxNow
    BY <1>2, <1>5
  <2>2. QED
    BY <1>1, <1>3, <2>1 DEF IsRecent
<1>9. k < n => now - T[k + 1] < Window
  BY <1>3, <1>5 DEF IsRecent
<1>10. QED
  <2>1. Len(Recent(p)) - 1 = n - k
    BY <1>5, <1>7
  <2>2. QED
    BY <1>2, <1>3, <1>7, <1>8, <1>9, <2>1 DEF T, n, k

-----------------------------------------------------------------------------
(* The type invariant, in parts.                                           *)
WireTyped ==
  /\ purge \in BOOLEAN
  /\ wire \in [Peers -> {"none", "connecting", "accepted", "open", "ended", "closed"}]
  /\ posted \in Seq(Changes)
  /\ inbox \in [Peers -> Seq(Kinds)] /\ said \in [Peers -> 0..MaxSaid]

TableTyped ==
  /\ pending \subseteq Peers /\ connected \subseteq Peers
  /\ queuedEvents \in Seq(Reports) /\ losing \in Peers \cup {Nobody}

RoundTyped ==
  /\ phase \in {"idle", "apply", "events", "messages", "stopped"}
  /\ drained \in Seq(Changes) /\ events \in Seq(RoundEvents)
  /\ received \in [Peers -> Seq(Kinds)] /\ now \in 0..MaxNow

GateTyped ==
  /\ deadlines \in [Peers -> 0..NoDeadline]
  /\ DOMAIN misbehaviour \subseteq Peers
  /\ \A p \in DOMAIN misbehaviour :
       misbehaviour[p] \in Seq(0..MaxNow) /\ Len(misbehaviour[p]) < Threshold
  /\ expelled \subseteq Peers

HostTyped ==
  /\ members \subseteq Peers /\ joined \subseteq Peers /\ left \subseteq Peers
  /\ gone \in [Peers -> {"no", "misbehaving", "overdue"}]
  /\ offences \in [Peers -> Seq(0..MaxNow)]

LEMMA TypesSplit ==
  ConnectionsTypeOK <=> WireTyped /\ TableTyped /\ RoundTyped /\ GateTyped /\ HostTyped
<1>. USE DEF Events, Changes, Reports, RoundEvents
<1>1. {inbox, received} \subseteq [Peers -> Seq(Kinds)]
        <=> inbox \in [Peers -> Seq(Kinds)] /\ received \in [Peers -> Seq(Kinds)]
  OBVIOUS
<1>2. (\A set \in {expelled, members, joined, left} : set \subseteq Peers)
        <=> /\ expelled \subseteq Peers /\ members \subseteq Peers
            /\ joined \subseteq Peers /\ left \subseteq Peers
  OBVIOUS
<1>3. QED
  BY <1>1, <1>2, Zenon
  DEF ConnectionsTypeOK, WireTyped, TableTyped, RoundTyped, GateTyped, HostTyped

LEMMA TypesJoined ==
  ASSUME (WireTyped /\ TableTyped /\ RoundTyped /\ GateTyped /\ HostTyped)'
  PROVE  ConnectionsTypeOK'
<1>. USE DEF Events, Changes, Reports, RoundEvents
<1>1. {inbox', received'} \subseteq [Peers -> Seq(Kinds)]
  BY DEF WireTyped, RoundTyped
<1>2. \A set \in {expelled', members', joined', left'} : set \subseteq Peers
  BY DEF GateTyped, HostTyped
<1>3. QED
  BY <1>1, <1>2, Zenon
  DEF ConnectionsTypeOK, WireTyped, TableTyped, RoundTyped, GateTyped, HostTyped

(* Handling a message comes to one of four things.                         *)
Handling(p) ==
  /\ phase = "messages" /\ received[p] # <<>>
  /\ received' = [received EXCEPT ![p] = Tail(@)]
  /\ UNCHANGED <<losing, phase, drained, events, now>>

LEMMA MessageOutcome ==
  ASSUME NEW p \in Peers, HandleMessage(p)
  PROVE  /\ Handling(p)
         /\ \/ Ignored
            \/ p \notin expelled /\ Head(received[p]) = "Join" /\ Admitted(p)
            \/ p \notin expelled /\ Routine(p)
            \/ p \notin expelled /\ Misbehaves(p)
  BY Zenon DEF HandleMessage, Handling, WasExpelled

(* What being expelled, and leaving, do to the books.                      *)
LEMMA Expelling ==
  ASSUME ConnectionsTypeOK, NEW p \in Peers, NEW why \in {"misbehaving", "overdue"}, Expel(p, why)
  PROVE  /\ WireTyped' /\ GateTyped'
         /\ pending' = pending \ {p} /\ connected' = connected \ {p}
         /\ members' = members \ {p} /\ left' = left \cup {p}
         /\ gone' = [gone EXCEPT ![p] = why]
         /\ UNCHANGED queuedEvents
<1>. USE TypesSplit
<1>1. Closes(p) /\ WireTyped /\ GateTyped
  BY DEF Expel
<1>2. WireTyped'
  BY <1>1, Closing DEF WireTyped
<1>3. NoDeadline \in 0..NoDeadline
  BY DEF NoDeadline
<1>4. deadlines' \in [Peers -> 0..NoDeadline]
  BY <1>1, <1>3 DEF Expel, HandleDisconnect, Left, GateTyped
<1>5. misbehaviour' = [q \in DOMAIN misbehaviour \ {p} |-> misbehaviour[q]]
  BY DEF Expel, HandleDisconnect, Left
<1>6. GateTyped'
  BY <1>1, <1>4, <1>5 DEF Expel, GateTyped
<1>7. QED
  BY <1>2, <1>6 DEF Expel, Forgets, HandleDisconnect

LEMMA TrackingTyped ==
  ASSUME ConnectionsTypeOK, NEW p \in Peers, NEW recent \in Seq(0..MaxNow),
         Len(recent) < Threshold, Tracks(p, recent), UNCHANGED <<deadlines, expelled>>
  PROVE  GateTyped'
<1>1. GateTyped
  BY TypesSplit
<1>2. /\ DOMAIN misbehaviour' = DOMAIN misbehaviour \cup {p}
      /\ \A q \in DOMAIN misbehaviour' :
           misbehaviour'[q] = IF q = p THEN recent ELSE misbehaviour[q]
  BY DEF Tracks
<1>3. QED
  BY <1>1, <1>2 DEF GateTyped

(* The steps of the peers, the network and the Simulation thread.          *)
LEMMA TypeOfOthers ==
  ASSUME ConnectionsTypeOK,
         \/ ExternalStep \/ SimulationCloses
         \/ \E p \in Peers : SimulationLoses(p) \/ NetworkLoses(p)
  PROVE  ConnectionsTypeOK'
<1>. USE DEF roundVars, gateVars, hostVars, tableVars, externalVars
<1>1. WireTyped /\ TableTyped /\ RoundTyped /\ GateTyped /\ HostTyped
  BY TypesSplit
<1>2. ASSUME UNCHANGED <<tableVars, losing>> PROVE TableTyped'
  BY <1>1, <1>2 DEF TableTyped
<1>3. ASSUME UNCHANGED roundVars PROVE RoundTyped'
  BY <1>1, <1>3 DEF RoundTyped
<1>4. ASSUME UNCHANGED gateVars PROVE GateTyped'
  BY <1>1, <1>4 DEF GateTyped
<1>5. ASSUME UNCHANGED hostVars PROVE HostTyped'
  BY <1>1, <1>5 DEF HostTyped
<1>6. ASSUME NEW p \in Peers, NEW what \in {"connecting", "connected", "ended"}, Posts(p, what)
      PROVE  posted' \in Seq(Changes)
  <2>1. PeerEvent(p, what) \in Changes /\ posted \in Seq(Changes)
    BY <1>1 DEF PeerEvent, Changes, WireTyped
  <2>2. QED
    BY <1>6, <2>1, AppendHolds DEF Posts
<1>7. ASSUME NEW p \in Peers, Loses(p) PROVE
        /\ pending' \subseteq Peers /\ connected' \subseteq Peers
        /\ queuedEvents' \in Seq(Reports)
  <2>1. PeerEvent(p, "kDisconnected") \in Reports /\ queuedEvents \in Seq(Reports)
    BY <1>1 DEF PeerEvent, Reports, TableTyped
  <2>2. queuedEvents' \in Seq(Reports)
    BY <1>7, <2>1, AppendHolds DEF Loses, ReportsLoss
  <2>3. QED
    BY <1>1, <1>7, <2>2 DEF Loses, Forgets, TableTyped
<1>8. CASE ExternalStep
  <2>1. WireTyped'
    <3>1. PICK p \in Peers : \/ PeerConnects(p) \/ HandshakeEnds(p) \/ ConnectionEnds(p)
                             \/ \E kind \in Kinds : PeerSays(p, kind)
      BY <1>8 DEF ExternalStep
    <3>2. CASE PeerConnects(p)
      BY <1>1, <1>6, <3>2 DEF PeerConnects, WireTyped
    <3>3. CASE HandshakeEnds(p)
      BY <1>1, <1>6, <3>3 DEF HandshakeEnds, WireTyped
    <3>4. CASE ConnectionEnds(p)
      BY <1>1, <1>6, <3>4 DEF ConnectionEnds, WireTyped
    <3>5. ASSUME NEW kind \in Kinds, PeerSays(p, kind) PROVE WireTyped'
      <4>1. Append(inbox[p], kind) \in Seq(Kinds) /\ said[p] + 1 \in 0..MaxSaid
        BY <1>1, <3>5 DEF PeerSays, WireTyped
      <4>2. QED
        BY <1>1, <3>5, <4>1 DEF PeerSays, WireTyped
    <3>6. QED
      BY <3>1, <3>2, <3>3, <3>4, <3>5
  <2>2. UNCHANGED <<tableVars, losing, roundVars, gateVars, hostVars>>
    BY <1>8 DEF ExternalStep
  <2>3. QED
    BY <1>2, <1>3, <1>4, <1>5, <2>1, <2>2, TypesJoined
<1>9. CASE SimulationCloses
  <2>1. losing \in Peers /\ Closes(losing) /\ UNCHANGED <<tableVars, roundVars, gateVars, hostVars>>
        /\ losing' = Nobody
    BY <1>1, <1>9 DEF SimulationCloses, TableTyped
  <2>2. WireTyped'
    BY <1>1, <2>1, Closing DEF WireTyped
  <2>3. TableTyped'
    BY <1>1, <2>1 DEF TableTyped
  <2>4. QED
    BY <1>3, <1>4, <1>5, <2>1, <2>2, <2>3, TypesJoined
<1>10. ASSUME NEW p \in Peers, SimulationLoses(p) PROVE ConnectionsTypeOK'
  <2>1. UNCHANGED <<externalVars, roundVars, gateVars, hostVars>> /\ losing' = p /\ Loses(p)
    BY <1>10 DEF SimulationLoses
  <2>2. WireTyped' /\ TableTyped'
    BY <1>1, <1>7, <2>1 DEF WireTyped, TableTyped
  <2>3. QED
    BY <1>3, <1>4, <1>5, <2>1, <2>2, TypesJoined
<1>11. ASSUME NEW p \in Peers, NetworkLoses(p) PROVE ConnectionsTypeOK'
  <2>1. UNCHANGED <<losing, roundVars, gateVars, hostVars>> /\ Loses(p) /\ Closes(p)
    BY <1>11 DEF NetworkLoses
  <2>2. WireTyped'
    BY <1>1, <2>1, Closing DEF WireTyped
  <2>3. TableTyped'
    BY <1>1, <1>7, <2>1 DEF TableTyped
  <2>4. QED
    BY <1>3, <1>4, <1>5, <2>1, <2>2, <2>3, TypesJoined
<1>12. QED
  BY <1>8, <1>9, <1>10, <1>11

(* The first half of a round: PumpEvents.                                  *)
LEMMA TypeOfPumping ==
  ASSUME ConnectionsTypeOK, StartRound \/ ApplyConnecting \/ ApplyConnected \/ ApplyEnded \/ TakeEvents
  PROVE  ConnectionsTypeOK'
<1>. USE DEF roundVars, gateVars, hostVars, tableVars, externalVars
<1>1. WireTyped /\ TableTyped /\ RoundTyped /\ GateTyped /\ HostTyped
  BY TypesSplit
<1>2. GateTyped' /\ HostTyped' /\ losing' \in Peers \cup {Nobody}
  <2>1. UNCHANGED <<gateVars, hostVars, losing>>
    BY DEF StartRound, ApplyConnecting, ApplyConnected, ApplyEnded, TakeEvents, Applying
  <2>2. QED
    BY <1>1, <2>1 DEF GateTyped, HostTyped, TableTyped
<1>3. CASE StartRound
  <2>1. now' \in 0..MaxNow
    BY <1>1, <1>3 DEF StartRound, RoundTyped
  <2>2. WireTyped' /\ TableTyped'
    <3>1. <<>> \in Seq(Changes)
      OBVIOUS
    <3>2. QED
      BY <1>1, <1>3, <3>1 DEF StartRound, WireTyped, TableTyped
  <2>3. RoundTyped'
    BY <1>1, <1>3, <2>1 DEF StartRound, WireTyped, RoundTyped
  <2>4. QED
    BY <1>2, <2>2, <2>3, TypesJoined
<1>4. ASSUME NEW what, Applying(what)
      PROVE  /\ RoundTyped' /\ Head(drained) \in Changes /\ Head(drained).peer \in Peers
             /\ UNCHANGED <<purge, posted, said>>
  <2>1. drained \in Seq(Changes) /\ drained # <<>>
    BY <1>1, <1>4 DEF Applying, RoundTyped
  <2>2. Head(drained) \in Changes /\ Tail(drained) \in Seq(Changes)
    BY <2>1, TailHolds
  <2>3. QED
    BY <1>1, <1>4, <2>2 DEF Applying, RoundTyped, Changes
<1>5. CASE ApplyConnecting
  <2>1. Applying("connecting")
    BY <1>5 DEF ApplyConnecting
  <2>2. WireTyped' /\ TableTyped'
    BY <1>1, <1>2, <1>4, <1>5, <2>1 DEF ApplyConnecting, WireTyped, TableTyped
  <2>3. QED
    BY <1>2, <1>4, <2>1, <2>2, TypesJoined
<1>6. CASE ApplyConnected
  <2>. DEFINE p == Head(drained).peer
  <2>1. Applying("connected") /\ UNCHANGED <<wire, inbox>> /\ pending' = pending \ {p}
    BY <1>6 DEF ApplyConnected
  <2>2. p \in Peers /\ RoundTyped' /\ WireTyped'
    BY <1>1, <1>4, <2>1 DEF WireTyped
  <2>3. PeerEvent(p, "kConnected") \in Reports /\ PeerEvent(p, "kDisconnected") \in Reports
        /\ queuedEvents \in Seq(Reports)
    BY <1>1, <2>2 DEF PeerEvent, Reports, TableTyped
  <2>4. queuedEvents' \in Seq(Reports) /\ connected' \subseteq Peers
    <3>1. CASE /\ connected' = connected \cup {p}
               /\ queuedEvents' = Append(queuedEvents, PeerEvent(p, "kConnected"))
      BY <1>1, <2>2, <2>3, <3>1, AppendHolds DEF TableTyped
    <3>2. CASE /\ connected' = connected \ {p}
               /\ queuedEvents' = queuedEvents \o <<PeerEvent(p, "kConnected"), PeerEvent(p, "kDisconnected")>>
      <4>1. <<PeerEvent(p, "kConnected"), PeerEvent(p, "kDisconnected")>> \in Seq(Reports)
        BY <2>3
      <4>2. QED
        BY <1>1, <2>3, <3>2, <4>1 DEF TableTyped
    <3>3. QED
      BY <1>6, <3>1, <3>2 DEF ApplyConnected
  <2>5. TableTyped'
    BY <1>1, <1>2, <2>1, <2>4 DEF TableTyped
  <2>6. QED
    BY <1>2, <2>2, <2>5, TypesJoined
<1>7. CASE ApplyEnded
  <2>. DEFINE p == Head(drained).peer
  <2>1. Applying("ended") /\ Forgets(p) /\ wire' = [wire EXCEPT ![p] = "closed"]
        /\ inbox' = [inbox EXCEPT ![p] = <<>>]
        /\ queuedEvents' = Append(queuedEvents, PeerEvent(p, "kDisconnected"))
    BY <1>7 DEF ApplyEnded
  <2>2. p \in Peers /\ RoundTyped' /\ UNCHANGED <<purge, posted, said>>
    BY <1>4, <2>1
  <2>3. PeerEvent(p, "kDisconnected") \in Reports /\ queuedEvents \in Seq(Reports)
    BY <1>1, <2>2 DEF PeerEvent, Reports, TableTyped
  <2>4. queuedEvents' \in Seq(Reports)
    BY <2>1, <2>3, AppendHolds
  <2>. HIDE DEF p
  <2>5. TableTyped'
    BY <1>1, <1>2, <2>1, <2>4 DEF TableTyped, Forgets
  <2>6. WireTyped'
    <3>1. <<>> \in Seq(Kinds)
      OBVIOUS
    <3>2. QED
      BY <1>1, <2>1, <2>2, <3>1 DEF WireTyped
  <2>7. QED
    BY <1>2, <2>2, <2>5, <2>6, TypesJoined
<1>8. CASE TakeEvents
  <2>1. PICK requests \in SetToSeqs(pending) :
          events' = queuedEvents \o [i \in DOMAIN requests |-> PeerEvent(requests[i], "kConnectRequested")]
    BY <1>8 DEF TakeEvents
  <2>. DEFINE asked == [i \in DOMAIN requests |-> PeerEvent(requests[i], "kConnectRequested")]
              n == Cardinality(pending)
  <2>2. n \in Nat /\ requests \in [1..n -> pending]
    BY KnownPeers DEF SetToSeqs
  <2>3. asked \in Seq(RoundEvents)
    <3>1. asked = [i \in 1..n |-> PeerEvent(requests[i], "kConnectRequested")]
      BY <2>2
    <3>2. \A i \in 1..n : PeerEvent(requests[i], "kConnectRequested") \in RoundEvents
      BY <1>1, <2>2 DEF PeerEvent, RoundEvents, TableTyped
    <3>. HIDE DEF asked
    <3>3. QED
      BY <2>2, <3>1, <3>2
  <2>4. queuedEvents \in Seq(RoundEvents)
    <3>1. Reports \subseteq RoundEvents /\ queuedEvents \in Seq(Reports)
      BY <1>1 DEF Reports, RoundEvents, TableTyped
    <3>2. QED
      BY <3>1
  <2>5. events' \in Seq(RoundEvents)
    <3>. HIDE DEF asked
    <3>1. queuedEvents \o asked \in Seq(RoundEvents)
      BY <2>3, <2>4
    <3>2. QED
      BY <2>1, <3>1 DEF asked
  <2>6. <<>> \in Seq(Reports)
    OBVIOUS
  <2>7. RoundTyped'
    BY <1>1, <1>8, <2>5 DEF TakeEvents, RoundTyped
  <2>8. WireTyped' /\ TableTyped'
    BY <1>1, <1>8, <2>6 DEF TakeEvents, WireTyped, TableTyped
  <2>9. QED
    BY <1>2, <2>7, <2>8, TypesJoined
<1>9. QED
  BY <1>3, <1>5, <1>6, <1>7, <1>8

(* The second half: PumpPeers handles the events, then the messages.       *)
LEMMA TypeOfHandling ==
  ASSUME ConnectionsTypeOK,
         \/ HandleConnectRequested \/ HandleConnected \/ HandleDisconnected
         \/ Receive \/ ReceiveFails
         \/ (\E p \in Peers : HandleMessage(p) \/ ExpelOverdue(p)) \/ EndRound
  PROVE  ConnectionsTypeOK'
<1>. USE DEF roundVars, gateVars, hostVars, tableVars, externalVars
<1>1. WireTyped /\ TableTyped /\ RoundTyped /\ GateTyped /\ HostTyped
  BY TypesSplit
<1>2. ASSUME NEW what, HandlingEvent(what)
      PROVE  /\ RoundTyped' /\ Head(events).peer \in Peers
             /\ UNCHANGED <<purge, posted, inbox, said, queuedEvents, losing>>
  <2>1. events \in Seq(RoundEvents) /\ events # <<>>
    BY <1>1, <1>2 DEF HandlingEvent, RoundTyped
  <2>2. Head(events) \in RoundEvents /\ Tail(events) \in Seq(RoundEvents)
    BY <2>1, TailHolds
  <2>3. QED
    BY <1>1, <1>2, <2>2 DEF HandlingEvent, RoundTyped, RoundEvents
<1>3. NoDeadline \in 0..NoDeadline /\ 0..MaxNow \subseteq 0..NoDeadline
  BY DEF NoDeadline
<1>4. CASE HandleConnectRequested
  <2>. DEFINE p == Head(events).peer
  <2>1. /\ HandlingEvent("kConnectRequested") /\ pending' = pending \ {p}
        /\ wire' = [wire EXCEPT ![p] = IF @ = "connecting" THEN "accepted" ELSE @]
        /\ deadlines' = [deadlines EXCEPT ![p] = now]
        /\ UNCHANGED <<connected, misbehaviour, expelled, hostVars>>
    BY <1>4 DEF HandleConnectRequested
  <2>2. /\ RoundTyped' /\ p \in Peers
        /\ UNCHANGED <<purge, posted, inbox, said, queuedEvents, losing>>
    BY <1>2, <2>1
  <2>. HIDE DEF p
  <2>3. now \in 0..NoDeadline
    BY <1>1, <1>3 DEF RoundTyped
  <2>4. WireTyped' /\ TableTyped'
    BY <1>1, <2>1, <2>2 DEF WireTyped, TableTyped
  <2>5. GateTyped' /\ HostTyped'
    BY <1>1, <2>1, <2>2, <2>3 DEF GateTyped, HostTyped
  <2>6. QED
    BY <2>2, <2>4, <2>5, TypesJoined
<1>5. CASE HandleConnected
  <2>1. RoundTyped' /\ UNCHANGED <<externalVars, tableVars, losing, gateVars, hostVars>>
    BY <1>2, <1>5 DEF HandleConnected
  <2>2. WireTyped' /\ TableTyped' /\ GateTyped' /\ HostTyped'
    BY <1>1, <2>1 DEF WireTyped, TableTyped, GateTyped, HostTyped
  <2>3. QED
    BY <2>1, <2>2, TypesJoined
<1>6. CASE HandleDisconnected
  <2>. DEFINE p == Head(events).peer
  <2>1. /\ RoundTyped' /\ p \in Peers
        /\ UNCHANGED <<externalVars, tableVars, losing, expelled, joined, gone, offences>>
    BY <1>2, <1>6 DEF HandleDisconnected
  <2>2. /\ misbehaviour' = [q \in DOMAIN misbehaviour \ {p} |-> misbehaviour[q]]
        /\ deadlines' = [deadlines EXCEPT ![p] = NoDeadline]
        /\ members' = members \ {p} /\ left' = left \cup {p}
    BY <1>6 DEF HandleDisconnected, HandleDisconnect, Left
  <2>. HIDE DEF p
  <2>3. WireTyped' /\ TableTyped'
    BY <1>1, <2>1 DEF WireTyped, TableTyped
  <2>4. GateTyped'
    BY <1>1, <1>3, <2>1, <2>2 DEF GateTyped
  <2>5. HostTyped'
    BY <1>1, <2>1, <2>2 DEF HostTyped
  <2>6. QED
    BY <2>1, <2>3, <2>4, <2>5, TypesJoined
<1>7. CASE Receive
  <2>1. <<>> \in Seq(Kinds)
    OBVIOUS
  <2>2. WireTyped' /\ RoundTyped'
    BY <1>1, <1>7, <2>1 DEF Receive, WireTyped, RoundTyped
  <2>3. TableTyped' /\ GateTyped' /\ HostTyped'
    BY <1>1, <1>7 DEF Receive, TableTyped, GateTyped, HostTyped
  <2>4. QED
    BY <2>2, <2>3, TypesJoined
<1>8. CASE ReceiveFails
  <2>1. WireTyped' /\ RoundTyped' /\ TableTyped' /\ GateTyped' /\ HostTyped'
    BY <1>1, <1>8 DEF ReceiveFails, WireTyped, RoundTyped, TableTyped, GateTyped, HostTyped
  <2>2. QED
    BY <2>1, TypesJoined
<1>9. CASE EndRound
  <2>1. WireTyped' /\ RoundTyped' /\ TableTyped' /\ GateTyped' /\ HostTyped'
    BY <1>1, <1>9 DEF EndRound, WireTyped, RoundTyped, TableTyped, GateTyped, HostTyped
  <2>2. QED
    BY <2>1, TypesJoined
<1>10. ASSUME NEW p \in Peers, NEW why \in {"misbehaving", "overdue"}, Expel(p, why),
              UNCHANGED <<losing, joined>>, RoundTyped', offences' \in [Peers -> Seq(0..MaxNow)]
       PROVE  ConnectionsTypeOK'
  <2>1. WireTyped' /\ GateTyped'
    BY <1>10, Expelling
  <2>2. /\ pending' = pending \ {p} /\ connected' = connected \ {p}
        /\ members' = members \ {p} /\ left' = left \cup {p}
        /\ gone' = [gone EXCEPT ![p] = why] /\ UNCHANGED queuedEvents
    BY <1>10, Expelling
  <2>3. TableTyped'
    BY <1>1, <1>10, <2>2 DEF TableTyped
  <2>4. HostTyped'
    BY <1>1, <1>10, <2>2 DEF HostTyped
  <2>5. QED
    BY <1>10, <2>1, <2>3, <2>4, TypesJoined
<1>11. ASSUME NEW p \in Peers, ExpelOverdue(p) PROVE ConnectionsTypeOK'
  <2>1. RoundTyped' /\ offences' \in [Peers -> Seq(0..MaxNow)]
    BY <1>1, <1>11 DEF ExpelOverdue, RoundTyped, HostTyped
  <2>2. QED
    BY <1>10, <1>11, <2>1 DEF ExpelOverdue
<1>12. ASSUME NEW p \in Peers, HandleMessage(p) PROVE ConnectionsTypeOK'
  <2>1. Handling(p)
    BY <1>12, MessageOutcome
  <2>2. RoundTyped' /\ losing' = losing
    <3>1. Tail(received[p]) \in Seq(Kinds)
      BY <1>1, <2>1, TailHolds DEF Handling, RoundTyped
    <3>2. QED
      BY <1>1, <2>1, <3>1 DEF Handling, RoundTyped
  <2>3. CASE Ignored
    <3>1. WireTyped' /\ TableTyped' /\ GateTyped' /\ HostTyped'
      BY <1>1, <2>2, <2>3 DEF Ignored, WireTyped, TableTyped, GateTyped, HostTyped
    <3>2. QED
      BY <2>2, <3>1, TypesJoined
  <2>4. CASE Admitted(p)
    <3>1. WireTyped' /\ TableTyped' /\ HostTyped'
      BY <1>1, <2>2, <2>4 DEF Admitted, WireTyped, TableTyped, HostTyped
    <3>2. GateTyped'
      BY <1>1, <1>3, <2>4 DEF Admitted, WithoutDeadline, GateTyped
    <3>3. QED
      BY <2>2, <3>1, <3>2, TypesJoined
  <2>5. CASE Routine(p)
    <3>1. WireTyped' /\ TableTyped' /\ HostTyped'
      BY <1>1, <2>2, <2>5 DEF Routine, WireTyped, TableTyped, HostTyped
    <3>2. Tracker(p) \in Seq(0..MaxNow) /\ Len(Tracker(p)) < Threshold
      BY RecordedMisbehaviour
    <3>3. GateTyped'
      BY <2>5, <3>2, TrackingTyped DEF Routine
    <3>4. QED
      BY <2>2, <3>1, <3>3, TypesJoined
  <2>6. CASE Misbehaves(p)
    <3>1. offences' \in [Peers -> Seq(0..MaxNow)] /\ joined' = joined
      <4>1. offences[p] \in Seq(0..MaxNow) /\ now \in 0..MaxNow
        BY <1>1 DEF HostTyped, RoundTyped
      <4>2. Append(offences[p], now) \in Seq(0..MaxNow)
        BY <4>1, AppendHolds
      <4>3. QED
        BY <1>1, <2>6, <4>2 DEF Misbehaves, HostTyped
    <3>2. CASE Expel(p, "misbehaving")
      BY <1>10, <2>2, <3>1, <3>2
    <3>3. CASE /\ ~TooMany(p) /\ Tracks(p, Recent(p))
               /\ UNCHANGED <<externalVars, tableVars, deadlines, expelled, members, left, gone>>
      <4>1. Recent(p) \in Seq(0..MaxNow) /\ Len(Recent(p)) < Threshold
        BY <3>3, RecordedMisbehaviour DEF TooMany
      <4>2. GateTyped'
        BY <3>3, <4>1, TrackingTyped
      <4>3. WireTyped' /\ TableTyped' /\ HostTyped'
        BY <1>1, <2>2, <3>1, <3>3 DEF WireTyped, TableTyped, HostTyped
      <4>4. QED
        BY <2>2, <4>2, <4>3, TypesJoined
    <3>4. QED
      BY <2>6, <3>2, <3>3, Zenon DEF Misbehaves
  <2>7. QED
    BY <1>12, <2>3, <2>4, <2>5, <2>6, MessageOutcome
<1>13. QED
  BY <1>4, <1>5, <1>6, <1>7, <1>8, <1>9, <1>11, <1>12

LEMMA TypeStep == ConnectionsTypeOK /\ [ConnectionsNext]_connectionsVars => ConnectionsTypeOK'
<1>1. ASSUME ConnectionsTypeOK, UNCHANGED connectionsVars PROVE ConnectionsTypeOK'
  BY <1>1, TypesSplit, TypesJoined
  DEF connectionsVars, externalVars, tableVars, roundVars, gateVars, hostVars,
      WireTyped, TableTyped, RoundTyped, GateTyped, HostTyped
<1>2. ASSUME ConnectionsTypeOK, ConnectionsNext PROVE ConnectionsTypeOK'
  BY <1>2, TypeOfOthers, TypeOfPumping, TypeOfHandling DEF ConnectionsNext, RoundStep
<1>3. QED
  BY <1>1, <1>2

-----------------------------------------------------------------------------
LEMMA RoundsStep ==
  ASSUME ConnectionsTypeOK, RoundInv, ConnectionsNext
  PROVE  RoundInv'
<1>. USE DEF roundVars
<1>1. ASSUME UNCHANGED roundVars PROVE RoundInv'
  BY <1>1 DEF RoundInv, NoMessages
<1>2. CASE \/ ExternalStep \/ SimulationCloses
           \/ \E p \in Peers : SimulationLoses(p) \/ NetworkLoses(p) \/ ExpelOverdue(p)
  BY <1>1, <1>2 DEF ExternalStep, SimulationCloses, SimulationLoses, NetworkLoses, ExpelOverdue
<1>3. CASE StartRound
  BY <1>3 DEF StartRound, RoundInv, NoMessages
<1>4. CASE ApplyConnecting \/ ApplyConnected \/ ApplyEnded
  <2>1. phase = "apply" /\ UNCHANGED <<phase, events, received>>
    BY <1>4 DEF ApplyConnecting, ApplyConnected, ApplyEnded, Applying
  <2>2. QED
    BY <2>1 DEF RoundInv, NoMessages
<1>5. CASE TakeEvents
  BY <1>5 DEF TakeEvents, RoundInv, NoMessages
<1>6. CASE HandleConnectRequested \/ HandleConnected \/ HandleDisconnected
  <2>1. phase = "events" /\ UNCHANGED <<phase, drained, received>>
    BY <1>6 DEF HandleConnectRequested, HandleConnected, HandleDisconnected, HandlingEvent
  <2>2. QED
    BY <2>1 DEF RoundInv, NoMessages
<1>7. CASE Receive \/ ReceiveFails
  BY <1>7 DEF Receive, ReceiveFails, RoundInv, NoMessages
<1>8. ASSUME NEW p \in Peers, HandleMessage(p) PROVE RoundInv'
  <2>1. phase = "messages" /\ UNCHANGED <<phase, drained, events>>
    BY <1>8, MessageOutcome DEF Handling
  <2>2. QED
    BY <2>1 DEF RoundInv
<1>9. CASE EndRound
  BY <1>9 DEF EndRound, AllHandled, RoundInv, NoMessages
<1>10. QED
  BY <1>2, <1>3, <1>4, <1>5, <1>6, <1>7, <1>8, <1>9 DEF ConnectionsNext, RoundStep

(* Where a round is, and what is empty there.                              *)
LEMMA WhereEmpty ==
  ASSUME RoundInv
  PROVE  /\ phase \in {"idle", "apply"} => events = <<>> /\ received = NoMessages
         /\ phase = "idle" => drained = <<>>
         /\ phase = "events" => received = NoMessages /\ drained = <<>>
         /\ phase = "messages" => events = <<>> /\ drained = <<>>
         /\ \A p \in Peers : NoMessages[p] = <<>>
  BY DEF RoundInv, NoMessages

-----------------------------------------------------------------------------
(* An action that adds no request, and lets no peer that asks go on.       *)
(* Its peers may be told apart by what they ask, so it is said for each.   *)
NothingAsked(p) ==
  /\ Asking(p) \in ToSet(posted') => Asking(p) \in ToSet(posted)
  /\ Asking(p) \in ToSet(drained') => Asking(p) \in ToSet(drained)
  /\ Request(p) \in ToSet(events') => Request(p) \in ToSet(events)
  /\ Once(Asking(p), posted) => Once(Asking(p), posted')
  /\ Once(Asking(p), drained) => Once(Asking(p), drained')
  /\ Once(Request(p), events) => Once(Request(p), events')
  /\ p \in pending' => p \in pending

Waits(p) == wire[p] \in {"connecting", "ended", "closed"}

UnknownStays(p) ==
  /\ wire'[p] = "none" => wire[p] = "none"
  /\ Waits(p) => Waits(p)'
  /\ wire[p] = "none" \/ Asks(p) => UNCHANGED <<said[p], deadlines[p], gone[p]>>

AskedOf(p) ==
  /\ Once(Asking(p), posted) /\ Once(Asking(p), drained) /\ Once(Request(p), events)
  /\ ~(Asking(p) \in ToSet(posted) /\ Asking(p) \in ToSet(drained))
  /\ Announced(p) => p \notin pending /\ Request(p) \notin ToSet(events)

NewOf(p) ==
  /\ Asks(p) => wire[p] \in {"connecting", "ended", "closed"}
  /\ wire[p] = "none" => ~Asks(p)
  /\ wire[p] = "none" \/ Asks(p) => said[p] = 0 /\ deadlines[p] = NoDeadline /\ gone[p] = "no"

AskingInv == AskedOnce /\ NewWhileAsking

LEMMA AskingOf == AskingInv <=> \A p \in Peers : AskedOf(p) /\ NewOf(p)
  BY DEF AskingInv, AskedOnce, NewWhileAsking, AskedOf, NewOf

LEMMA AskingOfNext ==
  ASSUME \A p \in Peers : (AskedOf(p) /\ NewOf(p))'
  PROVE  AskingInv'
  BY DEF AskingInv, AskedOnce, NewWhileAsking, AskedOf, NewOf

LEMMA NothingAskedKeeps ==
  ASSUME NEW p, AskedOf(p), NewOf(p), NothingAsked(p), UnknownStays(p)
  PROVE  (AskedOf(p) /\ NewOf(p))'
<1>1. Asking(p)' = Asking(p) /\ Request(p)' = Request(p)
  BY DEF Asking, Request, PeerEvent
<1>2. Announced(p)' => Announced(p)
  BY <1>1 DEF Announced, NothingAsked
<1>3. Asks(p)' => Asks(p)
  BY <1>1, <1>2 DEF Asks, NothingAsked
<1>4. AskedOf(p)'
  <2>1. /\ Once(Asking(p), posted)' /\ Once(Asking(p), drained)' /\ Once(Request(p), events)'
    BY <1>1 DEF AskedOf, NothingAsked, Once
  <2>2. QED
    BY <1>1, <1>2, <2>1 DEF AskedOf, NothingAsked
<1>5. NewOf(p)'
  <2>1. NoDeadline' = NoDeadline
    BY DEF NoDeadline
  <2>2. QED
    BY <1>3, <2>1 DEF NewOf, UnknownStays, Waits
<1>6. QED
  BY <1>4, <1>5

(* What is asked of each peer, in the sequences that tell it.              *)
LEMMA AskingEvents ==
  ASSUME NEW p, NEW q
  PROVE  /\ Asking(p) = Asking(q) <=> p = q
         /\ Request(p) = Request(q) <=> p = q
         /\ \A what : Asking(p) = PeerEvent(q, what) <=> p = q /\ what = "connecting"
         /\ \A what : Request(p) = PeerEvent(q, what) <=> p = q /\ what = "kConnectRequested"
  BY DEF Asking, Request, PeerEvent

(* What a member of these sets of events is.                               *)
LEMMA EventIs ==
  ASSUME NEW e \in Changes \cup Reports \cup RoundEvents
  PROVE  e = PeerEvent(e.peer, e.what)
  BY DEF PeerEvent, Changes, Reports, RoundEvents

(* Of the steps outside the round only a new connection asks.              *)
LEMMA AskingOutside ==
  ASSUME ConnectionsTypeOK, AskingInv, ExternalStep, NEW q \in Peers
  PROVE  (AskedOf(q) /\ NewOf(q))'
<1>1. AskedOf(q) /\ NewOf(q) /\ posted \in Seq(Changes) /\ WireTyped
  BY AskingOf, KnownPeers, TypesSplit
<1>2. UNCHANGED <<drained, events, pending, deadlines, gone>>
  BY DEF ExternalStep, tableVars, roundVars, gateVars, hostVars
<1>3. ASSUME NEW p \in Peers, NEW what \in {"connecting", "connected", "ended"}, Posts(p, what)
      PROVE  /\ ToSet(posted') = ToSet(posted) \cup {PeerEvent(p, what)}
             /\ \A x : Once(x, posted) /\ (x # PeerEvent(p, what) \/ x \notin ToSet(posted))
                         => Once(x, posted')
  <2>1. PeerEvent(p, what) \in Changes
    BY DEF PeerEvent, Changes
  <2>2. QED
    BY <1>1, <1>3, <2>1, AppendHolds DEF Posts
<1>4. ASSUME ToSet(posted') \subseteq ToSet(posted) \cup {PeerEvent(p, what) : p \in Peers, what \in {"connected", "ended"}},
             Once(Asking(q), posted) => Once(Asking(q), posted')
      PROVE  NothingAsked(q)
  <2>1. Asking(q) \notin {PeerEvent(p, what) : p \in Peers, what \in {"connected", "ended"}}
    BY AskingEvents
  <2>2. Asking(q) \in ToSet(posted') => Asking(q) \in ToSet(posted)
    BY <1>4, <2>1
  <2>3. QED
    BY <1>2, <1>4, <2>2 DEF NothingAsked
<1>5. PICK p \in Peers : \/ PeerConnects(p) \/ HandshakeEnds(p) \/ ConnectionEnds(p)
                         \/ \E kind \in Kinds : PeerSays(p, kind)
  BY DEF ExternalStep
<1>6. CASE PeerConnects(p)
  <2>1. /\ wire[p] = "none" /\ wire' = [wire EXCEPT ![p] = "connecting"] /\ UNCHANGED said
        /\ Posts(p, "connecting")
    BY <1>6 DEF PeerConnects
  <2>2. /\ ToSet(posted') = ToSet(posted) \cup {Asking(p)}
        /\ \A x : Once(x, posted) /\ (x # Asking(p) \/ x \notin ToSet(posted)) => Once(x, posted')
    BY <1>3, <2>1 DEF Asking
  <2>3. CASE p = q
    <3>1. /\ ~Asks(q) /\ said[q] = 0 /\ deadlines[q] = NoDeadline /\ gone[q] = "no"
      BY <1>1, <2>1, <2>3 DEF NewOf
    <3>2. /\ Asking(q) \notin ToSet(posted) \cup ToSet(drained)
          /\ q \notin pending /\ Request(q) \notin ToSet(events)
      BY <3>1 DEF Asks, Announced
    <3>3. Once(Asking(q), posted')
      BY <1>1, <2>2, <3>2 DEF AskedOf
    <3>4. AskedOf(q)'
      BY <1>1, <1>2, <3>2, <3>3 DEF AskedOf, Asking, Request, PeerEvent, Once
    <3>5. wire'[q] = "connecting"
      BY <1>1, <2>1, <2>3 DEF WireTyped
    <3>6. NewOf(q)'
      BY <1>2, <2>1, <3>1, <3>5 DEF NewOf, NoDeadline
    <3>7. QED
      BY <3>4, <3>6
  <2>4. CASE p # q
    <3>1. Asking(q) # Asking(p)
      BY <2>4, AskingEvents
    <3>2. NothingAsked(q)
      BY <1>2, <2>2, <3>1 DEF NothingAsked
    <3>3. UnknownStays(q)
      BY <1>1, <1>2, <2>1, <2>4 DEF UnknownStays, Waits, WireTyped
    <3>4. QED
      BY <1>1, <3>2, <3>3, NothingAskedKeeps
  <2>5. QED
    BY <2>3, <2>4
<1>7. CASE HandshakeEnds(p) \/ ConnectionEnds(p)
  <2>1. PICK what \in {"connected", "ended"} : Posts(p, what)
    BY <1>7 DEF HandshakeEnds, ConnectionEnds
  <2>2. Asking(q) # PeerEvent(p, what)
    BY AskingEvents
  <2>3. NothingAsked(q)
    BY <1>3, <1>4, <2>1, <2>2
  <2>4. /\ wire[p] \in {"connecting", "accepted", "open"} /\ UNCHANGED said
        /\ \/ wire[p] = "accepted" /\ wire' = [wire EXCEPT ![p] = "open"]
           \/ wire' = [wire EXCEPT ![p] = "ended"]
    BY <1>7 DEF HandshakeEnds, ConnectionEnds
  <2>5. UnknownStays(q)
    BY <1>1, <1>2, <2>4 DEF UnknownStays, Waits, WireTyped
  <2>6. QED
    BY <1>1, <2>3, <2>5, NothingAskedKeeps
<1>8. ASSUME NEW kind \in Kinds, PeerSays(p, kind) PROVE (AskedOf(q) /\ NewOf(q))'
  <2>1. /\ wire[p] = "open" /\ UNCHANGED <<wire, posted>> /\ said' = [said EXCEPT ![p] = @ + 1]
    BY <1>8 DEF PeerSays
  <2>2. NothingAsked(q)
    BY <1>2, <2>1 DEF NothingAsked
  <2>3. wire[q] = "none" \/ Asks(q) => q # p
    BY <1>1, <2>1 DEF NewOf
  <2>4. UnknownStays(q)
    BY <1>1, <1>2, <2>1, <2>3 DEF UnknownStays, Waits, WireTyped
  <2>5. QED
    BY <1>1, <2>2, <2>4, NothingAskedKeeps
<1>9. QED
  BY <1>5, <1>6, <1>7, <1>8

(* Connections lost, closed and expelled ask no more.                      *)
LEMMA AskingOfLoss ==
  ASSUME ConnectionsTypeOK, AskingInv, NEW q \in Peers, UNCHANGED <<drained, events, deadlines, gone>>,
         pending' \subseteq pending,
         UNCHANGED <<posted, wire, said>> \/ \E p \in Peers : Closes(p)
  PROVE  (AskedOf(q) /\ NewOf(q))'
<1>1. AskedOf(q) /\ NewOf(q) /\ WireTyped
  BY AskingOf, TypesSplit
<1>2. CASE UNCHANGED <<posted, wire, said>>
  <2>1. NothingAsked(q) /\ UnknownStays(q)
    BY <1>2 DEF NothingAsked, UnknownStays, Waits
  <2>2. QED
    BY <1>1, <2>1, NothingAskedKeeps
<1>3. ASSUME NEW p \in Peers, Closes(p) PROVE (AskedOf(q) /\ NewOf(q))'
  <2>1. /\ ToSet(posted') \subseteq ToSet(posted) /\ \A x : Once(x, posted) => Once(x, posted')
        /\ wire' = [wire EXCEPT ![p] = "closed"] /\ UNCHANGED said
    BY <1>3, Closing
  <2>2. NothingAsked(q)
    BY <2>1 DEF NothingAsked
  <2>3. UnknownStays(q)
    BY <1>1, <2>1 DEF UnknownStays, Waits, WireTyped
  <2>4. QED
    BY <1>1, <2>2, <2>3, NothingAskedKeeps
<1>4. QED
  BY <1>2, <1>3

(* A request on its way from the transport to the Host (PumpEvents).       *)
LEMMA AskingOfPumping ==
  ASSUME ConnectionsTypeOK, RoundInv, AskingInv, NEW q \in Peers,
         StartRound \/ ApplyConnecting \/ ApplyConnected \/ ApplyEnded \/ TakeEvents
  PROVE  (AskedOf(q) /\ NewOf(q))'
<1>1. AskedOf(q) /\ NewOf(q) /\ WireTyped /\ RoundTyped /\ TableTyped
  BY AskingOf, TypesSplit
<1>2. UNCHANGED <<said, deadlines, gone>>
  BY DEF StartRound, ApplyConnecting, ApplyConnected, ApplyEnded, TakeEvents, Applying,
         externalVars, gateVars, hostVars
<1>3. CASE StartRound
  <2>1. /\ drained' = posted /\ posted' = <<>> /\ drained = <<>> /\ UNCHANGED <<events, pending, wire>>
    BY <1>3, WhereEmpty DEF StartRound, tableVars
  <2>2. ToSet(<<>>) = {} /\ Once(Asking(q), <<>>)
    BY NothingHolds
  <2>3. Announced(q)' <=> Announced(q)
    BY <2>1, <2>2 DEF Announced, Asking, PeerEvent
  <2>4. Asks(q)' <=> Asks(q)
    BY <2>1, <2>3 DEF Asks, Request, PeerEvent
  <2>5. AskedOf(q)'
    <3>1. Once(Asking(q), posted)' /\ Once(Asking(q), drained)' /\ Once(Request(q), events)'
      BY <1>1, <2>1, <2>2 DEF AskedOf, Asking, Request, PeerEvent, Once
    <3>2. ~(Asking(q) \in ToSet(posted))'
      BY <2>1, <2>2
    <3>3. (Announced(q) => q \notin pending /\ Request(q) \notin ToSet(events))'
      BY <1>1, <2>1, <2>3 DEF AskedOf, Request, PeerEvent
    <3>4. QED
      BY <3>1, <3>2, <3>3 DEF AskedOf
  <2>6. NewOf(q)'
    BY <1>1, <1>2, <2>1, <2>4 DEF NewOf, NoDeadline
  <2>7. QED
    BY <2>5, <2>6
<1>4. ASSUME NEW what, Applying(what)
      PROVE  /\ drained \in Seq(Changes) /\ drained # <<>>
             /\ Head(drained) = PeerEvent(Head(drained).peer, what) /\ Head(drained).peer \in Peers
             /\ ToSet(drained) = {Head(drained)} \cup ToSet(drained')
             /\ \A x : Once(x, drained) => Once(x, drained') /\ (x = Head(drained) => x \notin ToSet(drained'))
             /\ UNCHANGED <<posted, events>>
  <2>1. drained \in Seq(Changes) /\ drained # <<>> /\ drained' = Tail(drained)
    BY <1>1, <1>4 DEF Applying, RoundTyped
  <2>2. Head(drained) \in Changes /\ Head(drained).what = what
    BY <1>4, <2>1, TailHolds DEF Applying
  <2>3. Head(drained) = PeerEvent(Head(drained).peer, what) /\ Head(drained).peer \in Peers
    BY <2>2, EventIs DEF Changes
  <2>4. QED
    BY <1>4, <2>1, <2>3, TailHolds DEF Applying
<1>5. CASE ApplyConnecting
  <2>. DEFINE p == Head(drained).peer
  <2>1. Applying("connecting") /\ pending' = pending \cup {p} /\ UNCHANGED wire
    BY <1>5 DEF ApplyConnecting
  <2>2. /\ Head(drained) = Asking(p) /\ p \in Peers
        /\ ToSet(drained) = {Head(drained)} \cup ToSet(drained')
        /\ \A x : Once(x, drained) => Once(x, drained') /\ (x = Head(drained) => x \notin ToSet(drained'))
        /\ UNCHANGED <<posted, events>>
    BY <1>4, <2>1 DEF Asking
  <2>. HIDE DEF p
  <2>3. CASE p # q
    <3>1. NothingAsked(q)
      BY <2>1, <2>2, <2>3 DEF NothingAsked
    <3>2. UnknownStays(q)
      BY <1>2, <2>1 DEF UnknownStays, Waits
    <3>3. QED
      BY <1>1, <3>1, <3>2, NothingAskedKeeps
  <2>4. CASE p = q
    <3>1. /\ Asking(q) \in ToSet(drained) /\ Announced(q) /\ Asks(q)
          /\ Asking(q) \notin ToSet(drained') /\ Asking(q) \notin ToSet(posted)
          /\ Request(q) \notin ToSet(events)
      BY <1>1, <2>2, <2>4 DEF AskedOf, Announced, Asks
    <3>2. ~Announced(q)'
      BY <2>2, <3>1 DEF Announced, Asking, PeerEvent
    <3>3. AskedOf(q)'
      <4>1. Once(Asking(q), posted)' /\ Once(Asking(q), drained)' /\ Once(Request(q), events)'
        BY <1>1, <2>2 DEF AskedOf, Asking, Request, PeerEvent, Once
      <4>2. ~(Asking(q) \in ToSet(posted))'
        BY <2>2, <3>1 DEF Asking, PeerEvent
      <4>3. QED
        BY <3>2, <4>1, <4>2 DEF AskedOf
    <3>4. NewOf(q)'
      BY <1>1, <1>2, <2>1, <3>1 DEF NewOf, NoDeadline
    <3>5. QED
      BY <3>3, <3>4
  <2>5. QED
    BY <2>3, <2>4
<1>6. CASE ApplyConnected \/ ApplyEnded
  <2>. DEFINE p == Head(drained).peer
  <2>1. /\ Applying("connected") \/ Applying("ended")
        /\ pending' = pending \ {p}
        /\ UNCHANGED wire \/ wire' = [wire EXCEPT ![p] = "closed"]
    BY <1>6, Zenon DEF ApplyConnected, ApplyEnded, Forgets
  <2>2. /\ ToSet(drained') \subseteq ToSet(drained) /\ UNCHANGED <<posted, events>>
        /\ \A x : Once(x, drained) => Once(x, drained')
    BY <1>4, <2>1
  <2>. HIDE DEF p
  <2>3. NothingAsked(q)
    BY <2>1, <2>2 DEF NothingAsked
  <2>4. UnknownStays(q)
    <3>1. wire'[q] = wire[q] \/ wire'[q] = "closed"
      BY <1>1, <2>1 DEF WireTyped
    <3>2. QED
      BY <1>2, <3>1 DEF UnknownStays, Waits
  <2>5. QED
    BY <1>1, <2>3, <2>4, NothingAskedKeeps
<1>7. CASE TakeEvents
  <2>1. PICK requests \in SetToSeqs(pending) :
          events' = queuedEvents \o [i \in DOMAIN requests |-> PeerEvent(requests[i], "kConnectRequested")]
    BY <1>7 DEF TakeEvents
  <2>. DEFINE asked == [i \in DOMAIN requests |-> PeerEvent(requests[i], "kConnectRequested")]
              n == Cardinality(pending)
              l == Len(queuedEvents)
  <2>2. /\ n \in Nat /\ requests \in [1..n -> pending]
        /\ \A i, j \in 1..n : i # j => requests[i] # requests[j]
    BY KnownPeers DEF SetToSeqs
  <2>3. asked = [i \in 1..n |-> Request(requests[i])]
    BY <2>2 DEF Request
  <2>4. queuedEvents \in Seq(Reports) /\ l \in Nat
    BY <1>1 DEF TableTyped
  <2>5. \A i \in 1..l : queuedEvents[i] # Request(q)
    <3>1. \A i \in 1..l : queuedEvents[i] \in Reports
      BY <2>4
    <3>2. Request(q) \notin Reports
      BY DEF Request, PeerEvent, Reports
    <3>3. QED
      BY <3>1, <3>2
  <2>6. /\ DOMAIN events' = 1..(l + n)
        /\ \A i \in 1..l : events'[i] = queuedEvents[i]
        /\ \A i \in (l + 1)..(l + n) : events'[i] = Request(requests[i - l]) /\ i - l \in 1..n
    <3>1. asked \in Seq({Request(r) : r \in pending}) /\ Len(asked) = n
          /\ \A i \in 1..n : asked[i] = Request(requests[i])
      <4>1. \A i \in 1..n : Request(requests[i]) \in {Request(r) : r \in pending}
        BY <2>2
      <4>2. QED
        BY <2>2, <2>3, <4>1
    <3>. HIDE DEF asked
    <3>2. /\ DOMAIN (queuedEvents \o asked) = 1..(l + n)
          /\ \A i \in 1..l : (queuedEvents \o asked)[i] = queuedEvents[i]
          /\ \A i \in (l + 1)..(l + n) : (queuedEvents \o asked)[i] = asked[i - l] /\ i - l \in 1..n
      BY <2>2, <2>4, <3>1
    <3>3. events' = queuedEvents \o asked
      BY <2>1 DEF asked
    <3>4. QED
      BY <3>1, <3>2, <3>3
  <2>. HIDE DEF asked, n, l
  <2>7. ASSUME NEW i \in 1..(l + n), events'[i] = Request(q)
        PROVE  i \in (l + 1)..(l + n) /\ requests[i - l] = q
    <3>1. i \in 1..l \/ i \in (l + 1)..(l + n)
      BY <2>2, <2>4 DEF l
    <3>2. i \in (l + 1)..(l + n)
      BY <2>5, <2>6, <2>7, <3>1, Zenon
    <3>3. Request(requests[i - l]) = Request(q)
      BY <2>6, <2>7, <3>2, Zenon
    <3>4. QED
      BY <3>2, <3>3, AskingEvents
  <2>8. Once(Request(q), events')
    <3>1. SUFFICES ASSUME NEW i \in 1..(l + n), NEW j \in 1..(l + n),
                          events'[i] = Request(q), events'[j] = Request(q)
                   PROVE  i = j
      BY <2>6 DEF Once
    <3>2. requests[i - l] = requests[j - l] /\ i - l \in 1..n /\ j - l \in 1..n
      BY <2>6, <2>7, <3>1
    <3>3. i - l = j - l
      BY <2>2, <3>2
    <3>4. QED
      BY <2>2, <2>4, <3>3 DEF l
  <2>9. Request(q) \in ToSet(events') => q \in pending
    <3>1. ASSUME NEW i \in 1..(l + n), events'[i] = Request(q) PROVE q \in pending
      BY <2>2, <2>6, <2>7, <3>1
    <3>2. QED
      BY <2>6, <3>1 DEF ToSet
  <2>10. UNCHANGED <<posted, drained, pending, wire>>
    BY <1>7 DEF TakeEvents, externalVars
  <2>11. Announced(q)' <=> Announced(q)
    BY <2>10 DEF Announced, Asking, PeerEvent
  <2>12. Asks(q)' => Asks(q)
    BY <2>9, <2>10, <2>11 DEF Asks, Request, PeerEvent
  <2>13. AskedOf(q)'
    <3>1. Once(Asking(q), posted)' /\ Once(Asking(q), drained)' /\ Once(Request(q), events)'
      BY <1>1, <2>8, <2>10 DEF AskedOf, Asking, Request, PeerEvent, Once
    <3>2. (Announced(q) => q \notin pending /\ Request(q) \notin ToSet(events))'
      BY <1>1, <2>9, <2>10, <2>11 DEF AskedOf, Request, PeerEvent
    <3>3. QED
      BY <1>1, <2>10, <3>1, <3>2 DEF AskedOf, Asking, PeerEvent
  <2>14. NewOf(q)'
    BY <1>1, <1>2, <2>10, <2>12 DEF NewOf, NoDeadline
  <2>15. QED
    BY <2>13, <2>14
<1>8. QED
  BY <1>3, <1>5, <1>6, <1>7

(* A request handled, or refused for what the peer did, is over.           *)
LEMMA AskingOfHandling ==
  ASSUME ConnectionsTypeOK, RoundInv, AskingInv, SilentIsUnheard, NEW q \in Peers,
         \/ HandleConnectRequested \/ HandleConnected \/ HandleDisconnected
         \/ Receive \/ ReceiveFails \/ EndRound
         \/ \E p \in Peers : HandleMessage(p) \/ ExpelOverdue(p)
  PROVE  (AskedOf(q) /\ NewOf(q))'
<1>. USE DEF externalVars, tableVars, roundVars, gateVars, hostVars
<1>1. /\ AskedOf(q) /\ NewOf(q)
      /\ WireTyped /\ RoundTyped /\ TableTyped /\ GateTyped /\ HostTyped
  BY AskingOf, TypesSplit
<1>2. ASSUME NEW what, HandlingEvent(what)
      PROVE  /\ events \in Seq(RoundEvents) /\ events # <<>>
             /\ Head(events) = PeerEvent(Head(events).peer, what) /\ Head(events).peer \in Peers
             /\ ToSet(events) = {Head(events)} \cup ToSet(events')
             /\ \A x : Once(x, events) => Once(x, events') /\ (x = Head(events) => x \notin ToSet(events'))
             /\ UNCHANGED <<posted, drained, said>>
  <2>1. events \in Seq(RoundEvents) /\ events # <<>> /\ events' = Tail(events)
    BY <1>1, <1>2 DEF HandlingEvent, RoundTyped
  <2>2. Head(events) \in RoundEvents /\ Head(events).what = what
    BY <1>2, <2>1, TailHolds DEF HandlingEvent
  <2>3. Head(events) = PeerEvent(Head(events).peer, what) /\ Head(events).peer \in Peers
    BY <2>2, EventIs DEF RoundEvents
  <2>4. QED
    BY <1>2, <2>1, <2>3, TailHolds DEF HandlingEvent
<1>3. CASE HandleConnectRequested
  <2>. DEFINE p == Head(events).peer
  <2>1. /\ HandlingEvent("kConnectRequested") /\ pending' = pending \ {p}
        /\ wire' = [wire EXCEPT ![p] = IF @ = "connecting" THEN "accepted" ELSE @]
        /\ deadlines' = [deadlines EXCEPT ![p] = now] /\ UNCHANGED gone
    BY <1>3 DEF HandleConnectRequested
  <2>2. /\ Head(events) = Request(p) /\ p \in Peers
        /\ ToSet(events) = {Head(events)} \cup ToSet(events')
        /\ \A x : Once(x, events) => Once(x, events') /\ (x = Head(events) => x \notin ToSet(events'))
        /\ UNCHANGED <<posted, drained, said>>
    BY <1>2, <2>1 DEF Request
  <2>. HIDE DEF p
  <2>3. CASE p # q
    <3>1. NothingAsked(q)
      BY <2>1, <2>2 DEF NothingAsked
    <3>2. wire'[q] = wire[q] /\ deadlines'[q] = deadlines[q]
      BY <1>1, <2>1, <2>2, <2>3 DEF WireTyped, GateTyped
    <3>3. UnknownStays(q)
      BY <2>1, <2>2, <3>2 DEF UnknownStays, Waits
    <3>4. QED
      BY <1>1, <3>1, <3>3, NothingAskedKeeps
  <2>4. CASE p = q
    <3>1. Request(q) \in ToSet(events) /\ Asks(q) /\ Request(q) \notin ToSet(events')
      BY <1>1, <2>2, <2>4 DEF AskedOf, Asks
    <3>2. ~Announced(q) /\ wire[q] # "none"
      BY <1>1, <3>1 DEF AskedOf, NewOf
    <3>3. ~Announced(q)' /\ q \notin pending' /\ ~(Request(q) \in ToSet(events))'
      BY <2>1, <2>2, <2>4, <3>1, <3>2 DEF Announced, Asking, Request, PeerEvent
    <3>4. AskedOf(q)'
      <4>1. Once(Asking(q), posted)' /\ Once(Asking(q), drained)' /\ Once(Request(q), events)'
        BY <1>1, <2>2 DEF AskedOf, Asking, Request, PeerEvent, Once
      <4>2. QED
        BY <3>3, <4>1 DEF AskedOf, Announced
    <3>5. wire'[q] # "none"
      BY <1>1, <2>1, <2>2, <2>4, <3>2 DEF WireTyped
    <3>6. NewOf(q)'
      BY <3>3, <3>5 DEF NewOf, Asks
    <3>7. QED
      BY <3>4, <3>6
  <2>5. QED
    BY <2>3, <2>4
<1>4. CASE HandleConnected \/ HandleDisconnected
  <2>1. /\ HandlingEvent("kConnected") \/ HandlingEvent("kDisconnected")
        /\ UNCHANGED <<pending, wire, gone>>
    BY <1>4 DEF HandleConnected, HandleDisconnected
  <2>2. /\ ToSet(events') \subseteq ToSet(events) /\ UNCHANGED <<posted, drained, said>>
        /\ \A x : Once(x, events) => Once(x, events')
    BY <1>2, <2>1
  <2>3. NothingAsked(q)
    BY <2>1, <2>2 DEF NothingAsked
  <2>4. deadlines'[q] = deadlines[q] \/ deadlines'[q] = NoDeadline
    <3>1. \/ UNCHANGED deadlines
          \/ \E p \in Peers : deadlines' = [deadlines EXCEPT ![p] = NoDeadline]
      BY <1>2, <1>4 DEF HandleConnected, HandleDisconnected, HandleDisconnect, Left
    <3>2. QED
      BY <1>1, <3>1 DEF GateTyped
  <2>5. UnknownStays(q)
    BY <1>1, <2>1, <2>2, <2>4 DEF UnknownStays, Waits, NewOf
  <2>6. QED
    BY <1>1, <2>3, <2>5, NothingAskedKeeps
<1>5. CASE Receive \/ ReceiveFails \/ EndRound
  <2>1. NothingAsked(q) /\ UnknownStays(q)
    BY <1>5 DEF Receive, ReceiveFails, EndRound, NothingAsked, UnknownStays, Waits
  <2>2. QED
    BY <1>1, <2>1, NothingAskedKeeps
<1>6. ASSUME NEW p \in Peers, NEW why \in {"misbehaving", "overdue"}, Expel(p, why),
             UNCHANGED <<drained, events>>, ~Asks(p), wire[p] # "none"
      PROVE  (AskedOf(q) /\ NewOf(q))'
  <2>1. /\ ToSet(posted') \subseteq ToSet(posted) /\ \A x : Once(x, posted) => Once(x, posted')
        /\ wire' = [wire EXCEPT ![p] = "closed"] /\ UNCHANGED said
    BY <1>6, Closing DEF Expel
  <2>2. /\ pending' = pending \ {p} /\ gone' = [gone EXCEPT ![p] = why]
        /\ deadlines' = [deadlines EXCEPT ![p] = NoDeadline]
    BY <1>6 DEF Expel, Forgets, HandleDisconnect, Left
  <2>3. NothingAsked(q)
    BY <1>6, <2>1, <2>2 DEF NothingAsked
  <2>4. CASE p # q
    <3>1. wire'[q] = wire[q] /\ gone'[q] = gone[q] /\ deadlines'[q] = deadlines[q]
      BY <1>1, <2>1, <2>2, <2>4 DEF WireTyped, GateTyped, HostTyped
    <3>2. UnknownStays(q)
      BY <2>1, <3>1 DEF UnknownStays, Waits
    <3>3. QED
      BY <1>1, <2>3, <3>2, NothingAskedKeeps
  <2>5. CASE p = q
    <3>1. wire'[q] = "closed"
      BY <1>1, <2>1, <2>5 DEF WireTyped
    <3>2. UnknownStays(q)
      BY <1>6, <2>5, <3>1 DEF UnknownStays, Waits
    <3>3. QED
      BY <1>1, <2>3, <3>2, NothingAskedKeeps
  <2>6. QED
    BY <2>4, <2>5
<1>7. ASSUME NEW p \in Peers PROVE AskedOf(p) /\ NewOf(p)
  BY AskingOf
<1>8. ASSUME NEW p \in Peers, ExpelOverdue(p) PROVE (AskedOf(q) /\ NewOf(q))'
  <2>1. Expel(p, "overdue") /\ Overdue(p) /\ UNCHANGED <<drained, events>>
    BY <1>8 DEF ExpelOverdue
  <2>2. deadlines[p] # NoDeadline
    BY <1>1, <2>1 DEF Overdue, NoDeadline, RoundTyped
  <2>3. ~Asks(p) /\ wire[p] # "none"
    BY <1>7, <2>2 DEF NewOf
  <2>4. QED
    BY <1>6, <2>1, <2>3
<1>9. ASSUME NEW p \in Peers, HandleMessage(p) PROVE (AskedOf(q) /\ NewOf(q))'
  <2>1. Handling(p) /\ UNCHANGED <<drained, events>>
    BY <1>9, MessageOutcome DEF Handling
  <2>2. said[p] # 0
    BY <2>1 DEF Handling, SilentIsUnheard
  <2>3. ~Asks(p) /\ wire[p] # "none"
    BY <1>7, <2>2 DEF NewOf
  <2>4. CASE Misbehaves(p) /\ Expel(p, "misbehaving")
    BY <1>6, <2>1, <2>3, <2>4
  <2>5. CASE \/ Ignored \/ Admitted(p) \/ Routine(p)
             \/ UNCHANGED <<externalVars, tableVars, deadlines, gone>>
    <3>1. UNCHANGED <<posted, said, wire, pending, gone>>
      BY <2>5 DEF Ignored, Admitted, Routine
    <3>2. UNCHANGED deadlines \/ deadlines' = [deadlines EXCEPT ![p] = NoDeadline]
      BY <2>5 DEF Ignored, Admitted, Routine, WithoutDeadline
    <3>3. deadlines'[q] = deadlines[q] \/ deadlines'[q] = NoDeadline
      BY <1>1, <3>2 DEF GateTyped
    <3>4. NothingAsked(q)
      BY <2>1, <3>1 DEF NothingAsked
    <3>5. UnknownStays(q)
      BY <1>1, <3>1, <3>3 DEF UnknownStays, Waits, NewOf
    <3>6. QED
      BY <1>1, <3>4, <3>5, NothingAskedKeeps
  <2>6. QED
    BY <1>9, <2>4, <2>5, MessageOutcome, Zenon DEF Misbehaves
<1>10. QED
  BY <1>3, <1>4, <1>5, <1>8, <1>9

LEMMA AskingStep ==
  ASSUME ConnectionsTypeOK, RoundInv, AskingInv, SilentIsUnheard, ConnectionsNext
  PROVE  AskingInv'
<1>. USE DEF externalVars, tableVars, roundVars, gateVars, hostVars
<1>1. SUFFICES ASSUME NEW q \in Peers PROVE (AskedOf(q) /\ NewOf(q))'
  BY AskingOfNext
<1>2. CASE SimulationCloses
  <2>1. losing \in Peers /\ Closes(losing) /\ UNCHANGED <<drained, events, deadlines, gone, pending>>
    BY <1>2, TypesSplit DEF SimulationCloses, TableTyped
  <2>2. QED
    BY <2>1, AskingOfLoss
<1>3. ASSUME NEW p \in Peers, SimulationLoses(p) PROVE (AskedOf(q) /\ NewOf(q))'
  <2>1. pending' \subseteq pending /\ UNCHANGED <<drained, events, deadlines, gone, posted, wire, said>>
    BY <1>3 DEF SimulationLoses, Loses, Forgets
  <2>2. QED
    BY <2>1, AskingOfLoss
<1>4. ASSUME NEW p \in Peers, NetworkLoses(p) PROVE (AskedOf(q) /\ NewOf(q))'
  <2>1. Closes(p) /\ pending' \subseteq pending /\ UNCHANGED <<drained, events, deadlines, gone>>
    BY <1>4 DEF NetworkLoses, Loses, Forgets
  <2>2. QED
    BY <2>1, AskingOfLoss
<1>5. QED
  BY <1>2, <1>3, <1>4, AskingOutside, AskingOfPumping, AskingOfHandling DEF ConnectionsNext, RoundStep

-----------------------------------------------------------------------------
(* A peer that said nothing.                                               *)
UnheardOf(p) == said[p] = 0 => inbox[p] = <<>> /\ received[p] = <<>> /\ p \notin joined

(* What an expulsion does to what its peer and the others said.            *)
LEMMA ExpelledSays ==
  ASSUME ConnectionsTypeOK, NEW p \in Peers, NEW why, Expel(p, why), NEW q \in Peers
  PROVE  UNCHANGED said /\ inbox'[q] \in {inbox[q], <<>>}
<1>1. inbox' = [inbox EXCEPT ![p] = <<>>] /\ UNCHANGED said
  BY Closing DEF Expel
<1>2. QED
  BY <1>1, TypesSplit DEF WireTyped

LEMMA UnheardStep ==
  ASSUME ConnectionsTypeOK, RoundInv, SilentIsUnheard, ConnectionsNext
  PROVE  SilentIsUnheard'
<1>. USE DEF externalVars, tableVars, roundVars, gateVars, hostVars
<1>1. SUFFICES ASSUME NEW q \in Peers PROVE UnheardOf(q)'
  BY DEF SilentIsUnheard, UnheardOf
<1>2. UnheardOf(q) /\ WireTyped /\ RoundTyped /\ TableTyped
  BY TypesSplit DEF SilentIsUnheard, UnheardOf
<1>3. ASSUME UNCHANGED <<said, received, joined>>, inbox'[q] \in {inbox[q], <<>>}
      PROVE  UnheardOf(q)'
  BY <1>2, <1>3 DEF UnheardOf
<1>4. ASSUME NEW p \in Peers, Closes(p), UNCHANGED <<received, joined>> PROVE UnheardOf(q)'
  <2>1. UNCHANGED said /\ inbox'[q] \in {inbox[q], <<>>}
    BY <1>2, <1>4, Closing DEF WireTyped
  <2>2. QED
    BY <1>3, <1>4, <2>1
<1>5. CASE ExternalStep
  <2>1. UNCHANGED <<received, joined>>
    BY <1>5 DEF ExternalStep
  <2>2. PICK p \in Peers : \/ PeerConnects(p) \/ HandshakeEnds(p) \/ ConnectionEnds(p)
                           \/ \E kind \in Kinds : PeerSays(p, kind)
    BY <1>5 DEF ExternalStep
  <2>3. CASE PeerConnects(p) \/ HandshakeEnds(p) \/ ConnectionEnds(p)
    BY <1>3, <2>1, <2>3 DEF PeerConnects, HandshakeEnds, ConnectionEnds
  <2>4. ASSUME NEW kind \in Kinds, PeerSays(p, kind) PROVE UnheardOf(q)'
    <3>1. /\ inbox' = [inbox EXCEPT ![p] = Append(inbox[p], kind)]
          /\ said' = [said EXCEPT ![p] = said[p] + 1]
      BY <2>4 DEF PeerSays
    <3>2. CASE p # q
      <4>1. inbox'[q] = inbox[q] /\ said'[q] = said[q]
        BY <1>2, <3>1, <3>2 DEF WireTyped
      <4>2. QED
        BY <1>2, <2>1, <4>1 DEF UnheardOf
    <3>3. CASE p = q
      <4>1. said'[q] = said[q] + 1 /\ said[q] \in Nat
        BY <1>2, <3>1, <3>3 DEF WireTyped
      <4>2. QED
        BY <4>1 DEF UnheardOf
    <3>4. QED
      BY <3>2, <3>3
  <2>5. QED
    BY <2>2, <2>3, <2>4
<1>6. CASE SimulationCloses
  BY <1>2, <1>4, <1>6 DEF SimulationCloses, TableTyped
<1>7. ASSUME NEW p \in Peers, SimulationLoses(p) \/ NetworkLoses(p) PROVE UnheardOf(q)'
  <2>1. CASE SimulationLoses(p)
    BY <1>3, <2>1 DEF SimulationLoses
  <2>2. CASE NetworkLoses(p)
    BY <1>4, <2>2 DEF NetworkLoses
  <2>3. QED
    BY <1>7, <2>1, <2>2
<1>8. CASE StartRound \/ ApplyConnecting \/ ApplyConnected \/ TakeEvents
  BY <1>3, <1>8 DEF StartRound, ApplyConnecting, ApplyConnected, TakeEvents, Applying
<1>9. CASE ApplyEnded
  <2>. DEFINE p == Head(drained).peer
  <2>1. inbox' = [inbox EXCEPT ![p] = <<>>] /\ UNCHANGED <<said, received, joined>>
    BY <1>9 DEF ApplyEnded, Applying
  <2>. HIDE DEF p
  <2>2. inbox'[q] \in {inbox[q], <<>>}
    BY <1>2, <2>1 DEF WireTyped
  <2>3. QED
    BY <1>3, <2>1, <2>2
<1>10. CASE HandleConnectRequested \/ HandleConnected \/ HandleDisconnected
  <2>1. UNCHANGED <<said, received, joined, inbox>>
    BY <1>10 DEF HandleConnectRequested, HandleConnected, HandleDisconnected, HandlingEvent
  <2>2. QED
    BY <1>3, <2>1
<1>11. CASE ReceiveFails \/ EndRound
  BY <1>3, <1>11 DEF ReceiveFails, EndRound
<1>12. CASE Receive
  <2>1. UNCHANGED <<said, joined>>
    BY <1>12 DEF Receive
  <2>2. received'[q] \in {inbox[q], <<>>} /\ inbox'[q] \in {inbox[q], <<>>}
    BY <1>12 DEF Receive
  <2>3. QED
    BY <1>2, <2>1, <2>2 DEF UnheardOf
<1>13. ASSUME NEW p \in Peers, ExpelOverdue(p) PROVE UnheardOf(q)'
  BY <1>3, <1>13, ExpelledSays DEF ExpelOverdue
<1>14. ASSUME NEW p \in Peers, HandleMessage(p) PROVE UnheardOf(q)'
  <2>1. Handling(p) /\ (Ignored \/ Routine(p) \/ Misbehaves(p) \/ Admitted(p))
    BY <1>14, MessageOutcome
  <2>2. UNCHANGED said /\ inbox'[q] \in {inbox[q], <<>>}
    <3>1. ASSUME UNCHANGED externalVars PROVE UNCHANGED said /\ inbox'[q] \in {inbox[q], <<>>}
      BY <3>1
    <3>2. CASE Expel(p, "misbehaving")
      BY <3>2, ExpelledSays
    <3>3. QED
      BY <2>1, <3>1, <3>2 DEF Ignored, Routine, Misbehaves, Admitted
  <2>3. joined' \subseteq joined \cup {p}
    BY <2>1 DEF Ignored, Routine, Misbehaves, Admitted
  <2>4. CASE p # q
    <3>1. received'[q] = received[q] /\ (q \in joined' => q \in joined)
      BY <1>2, <2>1, <2>3, <2>4 DEF Handling, RoundTyped
    <3>2. QED
      BY <1>2, <2>2, <3>1 DEF UnheardOf
  <2>5. CASE p = q
    BY <1>2, <2>1, <2>2, <2>5 DEF UnheardOf, Handling
  <2>6. QED
    BY <2>4, <2>5
<1>15. QED
  BY <1>5, <1>6, <1>7, <1>8, <1>9, <1>10, <1>11, <1>12, <1>13, <1>14 DEF ConnectionsNext, RoundStep

-----------------------------------------------------------------------------
(* Who may yet be admitted, or was, and its connection.                    *)
HeldOf(p) ==
  /\ p \in members => Held(p)
  /\ losing = p => Held(p)
  /\ received[p] # <<>> /\ p \notin expelled => Held(p)

StaysHeld(p) ==
  /\ p \in members' => p \in members
  /\ losing' = p => losing = p
  /\ received'[p] # <<>> => received[p] # <<>> /\ (p \in expelled => p \in expelled')

LEMMA HeldOfAll ==
  ASSUME ConnectionsTypeOK
  PROVE  JoinersAreHeld <=> \A p \in Peers : HeldOf(p)
<1>1. members \subseteq Peers /\ losing \in Peers \cup {Nobody} /\ Nobody \notin Peers
  BY TypesSplit DEF HostTyped, TableTyped, Nobody
<1>2. QED
  BY <1>1 DEF JoinersAreHeld, MemberIsHeld, HeldOf, Held, Nobody

LEMMA HeldOfNext ==
  ASSUME ConnectionsTypeOK', \A p \in Peers : HeldOf(p)'
  PROVE  JoinersAreHeld'
<1>1. members' \subseteq Peers /\ losing' \in Peers \cup {Nobody} /\ Nobody \notin Peers
  BY DEF ConnectionsTypeOK, Nobody
<1>2. QED
  BY <1>1 DEF JoinersAreHeld, MemberIsHeld, HeldOf, Held, Nobody

LEMMA StaysHeldKeeps ==
  ASSUME NEW p, HeldOf(p), StaysHeld(p), Held(p) => Held(p)'
  PROVE  HeldOf(p)'
  BY DEF HeldOf, StaysHeld

(* A connection lost is reported, whoever lost it.                         *)
LEMMA LostIsReported ==
  ASSUME ConnectionsTypeOK, NEW p \in Peers, NEW q \in Peers, Loses(p), UNCHANGED <<events, left>>
  PROVE  /\ Held(q) => Held(q)'
         /\ Held(p)'
<1>1. PeerEvent(p, "kDisconnected") \in Reports /\ queuedEvents \in Seq(Reports)
  BY KnownPeers DEF PeerEvent, Reports
<1>2. ToSet(queuedEvents') = ToSet(queuedEvents) \cup {PeerEvent(p, "kDisconnected")}
  BY <1>1, AppendHolds DEF Loses, ReportsLoss
<1>3. connected' = connected \ {p}
  BY DEF Loses, Forgets
<1>4. PeerEvent(q, "kDisconnected")' = PeerEvent(q, "kDisconnected")
  BY DEF PeerEvent
<1>5. QED
  BY <1>2, <1>3, <1>4 DEF Held, DepartureQueued

LEMMA HeldOutside ==
  ASSUME ConnectionsTypeOK, JoinersAreHeld, NEW q \in Peers,
         \/ ExternalStep \/ SimulationCloses
         \/ \E p \in Peers : SimulationLoses(p) \/ NetworkLoses(p)
  PROVE  HeldOf(q)'
<1>. USE DEF externalVars, tableVars, roundVars, gateVars, hostVars
<1>1. HeldOf(q)
  BY HeldOfAll
<1>2. PeerEvent(q, "kDisconnected")' = PeerEvent(q, "kDisconnected")
  BY DEF PeerEvent
<1>3. CASE ExternalStep
  BY <1>1, <1>2, <1>3, StaysHeldKeeps DEF ExternalStep, StaysHeld, Held, DepartureQueued
<1>4. CASE SimulationCloses
  <2>1. StaysHeld(q)
    BY <1>4 DEF SimulationCloses, StaysHeld, Nobody
  <2>2. QED
    BY <1>1, <1>2, <1>4, <2>1, StaysHeldKeeps DEF SimulationCloses, Held, DepartureQueued
<1>5. ASSUME NEW p \in Peers, SimulationLoses(p) PROVE HeldOf(q)'
  <2>1. Held(p)'
    BY <1>5, LostIsReported DEF SimulationLoses
  <2>2. Held(q) => Held(q)'
    BY <1>5, LostIsReported DEF SimulationLoses
  <2>3. UNCHANGED <<members, received, expelled>> /\ losing' = p
    BY <1>5 DEF SimulationLoses
  <2>4. QED
    BY <1>1, <2>1, <2>2, <2>3 DEF HeldOf
<1>6. ASSUME NEW p \in Peers, NetworkLoses(p) PROVE HeldOf(q)'
  <2>1. Held(q) => Held(q)'
    BY <1>6, LostIsReported DEF NetworkLoses
  <2>2. UNCHANGED <<members, received, expelled, losing>>
    BY <1>6 DEF NetworkLoses
  <2>3. QED
    BY <1>1, <2>1, <2>2 DEF HeldOf
<1>7. QED
  BY <1>3, <1>4, <1>5, <1>6

(* PumpEvents takes the departures queued, and loses none.                 *)
LEMMA HeldOfPumping ==
  ASSUME ConnectionsTypeOK, RoundInv, JoinersAreHeld, NEW q \in Peers,
         StartRound \/ ApplyConnecting \/ ApplyConnected \/ ApplyEnded \/ TakeEvents
  PROVE  HeldOf(q)'
<1>. USE DEF externalVars, tableVars, roundVars, gateVars, hostVars
<1>1. HeldOf(q) /\ TableTyped /\ RoundTyped /\ queuedEvents \in Seq(Reports)
  BY HeldOfAll, TypesSplit, KnownPeers
<1>2. StaysHeld(q)
  BY DEF StartRound, ApplyConnecting, ApplyConnected, ApplyEnded, TakeEvents, Applying, StaysHeld
<1>3. PeerEvent(q, "kDisconnected")' = PeerEvent(q, "kDisconnected")
  BY DEF PeerEvent
<1>4. CASE StartRound \/ ApplyConnecting
  <2>1. UNCHANGED <<connected, queuedEvents, events, left>>
    BY <1>4 DEF StartRound, ApplyConnecting, Applying
  <2>2. QED
    BY <1>1, <1>2, <1>3, <2>1, StaysHeldKeeps DEF Held, DepartureQueued
<1>5. ASSUME NEW p \in Peers, queuedEvents' = Append(queuedEvents, PeerEvent(p, "kDisconnected")),
             connected' = connected \ {p}, UNCHANGED <<events, left>>
      PROVE  HeldOf(q)'
  <2>1. PeerEvent(p, "kDisconnected") \in Reports
    BY DEF PeerEvent, Reports
  <2>2. ToSet(queuedEvents') = ToSet(queuedEvents) \cup {PeerEvent(p, "kDisconnected")}
    BY <1>1, <1>5, <2>1, AppendHolds
  <2>3. Held(q) => Held(q)'
    BY <1>3, <1>5, <2>2 DEF Held, DepartureQueued
  <2>4. QED
    BY <1>1, <1>2, <2>3, StaysHeldKeeps
<1>6. ASSUME NEW what, Applying(what) PROVE Head(drained).peer \in Peers /\ UNCHANGED <<events, left>>
  <2>1. Head(drained) \in Changes
    BY <1>1, <1>6, TailHolds DEF Applying, RoundTyped
  <2>2. QED
    BY <1>6, <2>1 DEF Applying, Changes
<1>7. CASE ApplyEnded
  <2>. DEFINE p == Head(drained).peer
  <2>1. p \in Peers /\ UNCHANGED <<events, left>>
    BY <1>6, <1>7 DEF ApplyEnded
  <2>2. /\ queuedEvents' = Append(queuedEvents, PeerEvent(p, "kDisconnected"))
        /\ connected' = connected \ {p}
    BY <1>7 DEF ApplyEnded, Forgets
  <2>. HIDE DEF p
  <2>3. QED
    BY <1>5, <2>1, <2>2
<1>8. CASE ApplyConnected
  <2>. DEFINE p == Head(drained).peer
              kConnected == PeerEvent(p, "kConnected")
              kDisconnected == PeerEvent(p, "kDisconnected")
  <2>1. p \in Peers /\ UNCHANGED <<events, left>>
    BY <1>6, <1>8 DEF ApplyConnected
  <2>2. \/ connected' = connected \cup {p} /\ queuedEvents' = Append(queuedEvents, kConnected)
        \/ connected' = connected \ {p} /\ queuedEvents' = queuedEvents \o <<kConnected, kDisconnected>>
    BY <1>8 DEF ApplyConnected
  <2>3. kConnected \in Reports /\ kDisconnected \in Reports
    BY <2>1 DEF PeerEvent, Reports
  <2>4. kDisconnected = PeerEvent(p, "kDisconnected")
    OBVIOUS
  <2>. HIDE DEF p, kConnected, kDisconnected
  <2>5. CASE connected' = connected \cup {p} /\ queuedEvents' = Append(queuedEvents, kConnected)
    <3>1. ToSet(queuedEvents') = ToSet(queuedEvents) \cup {kConnected}
      BY <1>1, <2>3, <2>5, AppendHolds
    <3>2. Held(q) => Held(q)'
      BY <1>3, <2>1, <2>5, <3>1 DEF Held, DepartureQueued
    <3>3. QED
      BY <1>1, <1>2, <3>2, StaysHeldKeeps
  <2>6. CASE connected' = connected \ {p} /\ queuedEvents' = queuedEvents \o <<kConnected, kDisconnected>>
    <3>1. queuedEvents' = Append(Append(queuedEvents, kConnected), kDisconnected)
      BY <1>1, <2>3, <2>6
    <3>2. Append(queuedEvents, kConnected) \in Seq(Reports)
          /\ ToSet(Append(queuedEvents, kConnected)) = ToSet(queuedEvents) \cup {kConnected}
      BY <1>1, <2>3, AppendHolds
    <3>3. ToSet(queuedEvents') = ToSet(queuedEvents) \cup {kConnected, kDisconnected}
      <4>. DEFINE one == Append(queuedEvents, kConnected)
      <4>. HIDE DEF one
      <4>1. one \in Seq(Reports) /\ queuedEvents' = Append(one, kDisconnected)
        BY <3>1, <3>2 DEF one
      <4>2. ToSet(queuedEvents') = ToSet(one) \cup {kDisconnected}
        BY <2>3, <4>1, AppendHolds
      <4>3. QED
        BY <3>2, <4>2 DEF one
    <3>4. Held(q) => Held(q)'
      BY <1>3, <2>1, <2>4, <2>6, <3>3 DEF Held, DepartureQueued
    <3>5. QED
      BY <1>1, <1>2, <3>4, StaysHeldKeeps
  <2>7. QED
    BY <2>2, <2>5, <2>6
<1>9. CASE TakeEvents
  <2>1. PICK requests \in SetToSeqs(pending) :
          events' = queuedEvents \o [i \in DOMAIN requests |-> PeerEvent(requests[i], "kConnectRequested")]
    BY <1>9 DEF TakeEvents
  <2>. DEFINE asked == [i \in DOMAIN requests |-> PeerEvent(requests[i], "kConnectRequested")]
              n == Cardinality(pending)
  <2>2. n \in Nat /\ requests \in [1..n -> pending]
    BY KnownPeers DEF SetToSeqs
  <2>3. asked \in Seq(RoundEvents)
    <3>1. asked = [i \in 1..n |-> PeerEvent(requests[i], "kConnectRequested")]
      BY <2>2
    <3>2. \A i \in 1..n : PeerEvent(requests[i], "kConnectRequested") \in RoundEvents
      BY <1>1, <2>2 DEF PeerEvent, RoundEvents, TableTyped
    <3>. HIDE DEF asked
    <3>3. QED
      BY <2>2, <3>1, <3>2
  <2>4. events' = queuedEvents \o asked
    BY <2>1
  <2>. HIDE DEF asked
  <2>5. DOMAIN queuedEvents \subseteq DOMAIN events'
        /\ \A i \in DOMAIN queuedEvents : events'[i] = queuedEvents[i]
    <3>1. Reports \subseteq RoundEvents
      BY DEF Reports, RoundEvents
    <3>2. queuedEvents \in Seq(RoundEvents)
      BY <1>1, <3>1
    <3>3. QED
      BY <2>3, <2>4, <3>2
  <2>6. ToSet(queuedEvents) \subseteq ToSet(events')
    BY <2>5 DEF ToSet
  <2>7. events = <<>> /\ UNCHANGED <<connected, left>>
    BY <1>9, WhereEmpty DEF TakeEvents
  <2>8. ToSet(events) = {}
    BY <2>7, NothingHolds
  <2>9. Held(q) => Held(q)'
    BY <1>3, <2>6, <2>7, <2>8 DEF Held, DepartureQueued
  <2>10. QED
    BY <1>1, <1>2, <2>9, StaysHeldKeeps
<1>10. QED
  BY <1>4, <1>7, <1>8, <1>9

(* An event is handled and gone; those behind it wait.                     *)
LEMMA EventHandled ==
  ASSUME ConnectionsTypeOK, RoundInv, NEW what, HandlingEvent(what)
  PROVE  /\ Head(events) = PeerEvent(Head(events).peer, what) /\ Head(events).peer \in Peers
         /\ ToSet(events) = {Head(events)} \cup ToSet(events')
         /\ phase = "events" /\ received = NoMessages
         /\ UNCHANGED <<purge, posted, inbox, said, queuedEvents, losing, phase, drained, received, now>>
<1>1. events \in Seq(RoundEvents) /\ events # <<>> /\ events' = Tail(events)
  BY KnownPeers DEF HandlingEvent
<1>2. Head(events) \in RoundEvents /\ Head(events).what = what
      /\ ToSet(events) = {Head(events)} \cup ToSet(events')
  BY <1>1, TailHolds DEF HandlingEvent
<1>3. Head(events) = PeerEvent(Head(events).peer, what) /\ Head(events).peer \in Peers
  BY <1>2, EventIs DEF RoundEvents
<1>4. QED
  BY <1>2, <1>3, WhereEmpty DEF HandlingEvent

(* Whoever leaves is no member; whoever is admitted was held (PumpPeers).  *)
LEMMA HeldOfHandling ==
  ASSUME ConnectionsTypeOK, RoundInv, JoinersAreHeld, NEW q \in Peers,
         \/ HandleConnectRequested \/ HandleConnected \/ HandleDisconnected
         \/ Receive \/ ReceiveFails \/ EndRound
         \/ \E p \in Peers : HandleMessage(p) \/ ExpelOverdue(p)
  PROVE  HeldOf(q)'
<1>. USE DEF externalVars, tableVars, roundVars, gateVars, hostVars
<1>1. HeldOf(q) /\ TableTyped /\ RoundTyped
  BY HeldOfAll, TypesSplit
<1>2. PeerEvent(q, "kDisconnected")' = PeerEvent(q, "kDisconnected")
  BY DEF PeerEvent
<1>3. NoMessages[q] = <<>>
  BY DEF NoMessages
<1>4. CASE HandleConnectRequested \/ HandleConnected
  <2>1. PICK what \in {"kConnectRequested", "kConnected"} : HandlingEvent(what)
    BY <1>4 DEF HandleConnectRequested, HandleConnected
  <2>2. /\ Head(events) = PeerEvent(Head(events).peer, what)
        /\ ToSet(events) = {Head(events)} \cup ToSet(events')
        /\ UNCHANGED <<queuedEvents, losing, received>>
    BY <2>1, EventHandled
  <2>3. Head(events) # PeerEvent(q, "kDisconnected")
    BY <2>2 DEF PeerEvent
  <2>4. UNCHANGED <<connected, members, left, expelled>>
    BY <1>4 DEF HandleConnectRequested, HandleConnected
  <2>5. StaysHeld(q)
    BY <2>2, <2>4 DEF StaysHeld
  <2>6. Held(q) => Held(q)'
    BY <1>2, <2>2, <2>3, <2>4 DEF Held, DepartureQueued
  <2>7. QED
    BY <1>1, <2>5, <2>6, StaysHeldKeeps
<1>5. CASE HandleDisconnected
  <2>. DEFINE p == Head(events).peer
  <2>1. /\ Head(events) = PeerEvent(p, "kDisconnected") /\ p \in Peers
        /\ ToSet(events) = {Head(events)} \cup ToSet(events')
        /\ received = NoMessages
        /\ UNCHANGED <<queuedEvents, losing, received>>
    BY <1>5, EventHandled DEF HandleDisconnected
  <2>2. members' = members \ {p} /\ left' = left \cup {p} /\ UNCHANGED connected
    BY <1>5 DEF HandleDisconnected, HandleDisconnect
  <2>. HIDE DEF p
  <2>3. received'[q] = <<>>
    BY <1>3, <2>1
  <2>4. CASE p = q
    BY <2>2, <2>4 DEF HeldOf, Held, DepartureQueued
  <2>5. CASE p # q
    <3>1. Held(q) => Held(q)'
      BY <1>2, <2>1, <2>2, <2>5 DEF Held, DepartureQueued, PeerEvent
    <3>2. QED
      BY <1>1, <2>1, <2>2, <2>3, <3>1 DEF HeldOf
  <2>6. QED
    BY <2>4, <2>5
<1>6. CASE Receive
  <2>1. UNCHANGED <<connected, queuedEvents, events, losing, members, left, expelled>>
    BY <1>6 DEF Receive
  <2>2. Held(q)' <=> Held(q)
    BY <1>2, <2>1 DEF Held, DepartureQueued
  <2>3. received'[q] # <<>> => q \in connected \/ q = losing
    BY <1>6 DEF Receive, Heard
  <2>4. q \in connected => Held(q)
    BY DEF Held, DepartureQueued
  <2>5. QED
    BY <1>1, <2>1, <2>2, <2>3, <2>4 DEF HeldOf
<1>7. CASE ReceiveFails \/ EndRound
  <2>1. UNCHANGED <<connected, queuedEvents, events, losing, members, left, received>>
        /\ received[q] = <<>>
    BY <1>3, <1>7, WhereEmpty DEF ReceiveFails, EndRound, AllHandled
  <2>2. Held(q)' <=> Held(q)
    BY <1>2, <2>1 DEF Held, DepartureQueued
  <2>3. QED
    BY <1>1, <2>1, <2>2 DEF HeldOf
<1>8. ASSUME NEW p \in Peers, NEW why \in {"misbehaving", "overdue"}, Expel(p, why),
             UNCHANGED <<losing, events>>, p # q => received'[q] = received[q]
      PROVE  HeldOf(q)'
  <2>1. /\ connected' = connected \ {p} /\ members' = members \ {p} /\ UNCHANGED queuedEvents
        /\ expelled' = expelled \cup {p} /\ left' = left \cup {p}
    BY <1>8, Expelling DEF Expel, HandleDisconnect
  <2>2. CASE p = q
    BY <2>1, <2>2 DEF HeldOf, Held, DepartureQueued
  <2>3. CASE p # q
    <3>1. Held(q) => Held(q)'
      BY <1>2, <1>8, <2>1, <2>3 DEF Held, DepartureQueued
    <3>2. QED
      BY <1>1, <1>8, <2>1, <2>3, <3>1 DEF HeldOf
  <2>4. QED
    BY <2>2, <2>3
<1>9. ASSUME NEW p \in Peers, ExpelOverdue(p) PROVE HeldOf(q)'
  BY <1>8, <1>9 DEF ExpelOverdue
<1>10. ASSUME NEW p \in Peers, HandleMessage(p) PROVE HeldOf(q)'
  <2>1. /\ phase = "messages" /\ received[p] # <<>>
        /\ received' = [received EXCEPT ![p] = Tail(@)] /\ UNCHANGED <<losing, events>>
    BY <1>10, MessageOutcome DEF Handling
  <2>2. p # q => received'[q] = received[q]
    BY <1>1, <2>1 DEF RoundTyped
  <2>3. received'[q] # <<>> => received[q] # <<>>
    BY <2>1, <2>2
  <2>4. CASE Ignored \/ Routine(p) \/ UNCHANGED <<externalVars, tableVars, expelled, members, left>>
    <3>1. UNCHANGED <<connected, queuedEvents, members, left, expelled>>
      BY <2>4 DEF Ignored, Routine
    <3>2. Held(q)' <=> Held(q)
      BY <1>2, <2>1, <3>1 DEF Held, DepartureQueued
    <3>3. QED
      BY <1>1, <2>1, <2>3, <3>1, <3>2 DEF HeldOf
  <2>5. CASE p \notin expelled /\ Head(received[p]) = "Join" /\ Admitted(p)
    <3>1. /\ members' = members \cup {p}
          /\ UNCHANGED <<connected, queuedEvents, left, expelled>>
      BY <2>5 DEF Admitted
    <3>2. Held(q)' <=> Held(q)
      BY <1>2, <2>1, <3>1 DEF Held, DepartureQueued
    <3>3. p = q => Held(q)
      BY <1>1, <2>1, <2>5 DEF HeldOf
    <3>4. QED
      BY <1>1, <2>1, <2>3, <3>1, <3>2, <3>3 DEF HeldOf
  <2>6. CASE Misbehaves(p) /\ Expel(p, "misbehaving")
    BY <1>8, <2>1, <2>2, <2>6 DEF Misbehaves
  <2>7. QED
    BY <1>10, <2>4, <2>5, <2>6, MessageOutcome, Zenon DEF Misbehaves
<1>11. QED
  BY <1>4, <1>5, <1>6, <1>7, <1>9, <1>10

LEMMA JoinersStep ==
  ASSUME ConnectionsTypeOK, ConnectionsTypeOK', RoundInv, JoinersAreHeld, ConnectionsNext
  PROVE  JoinersAreHeld'
<1>1. SUFFICES ASSUME NEW q \in Peers PROVE HeldOf(q)'
  BY HeldOfNext
<1>2. QED
  BY HeldOutside, HeldOfPumping, HeldOfHandling DEF ConnectionsNext, RoundStep

-----------------------------------------------------------------------------
(* What is left of an expelled peer, and of an admitted one's deadline.    *)
SilentOf(p) ==
  /\ gone[p] # "no" =>
       /\ wire[p] = "closed" /\ inbox[p] = <<>>
       /\ received[p] = <<>> \/ p \in expelled
       /\ p \notin members \cup DOMAIN misbehaviour /\ deadlines[p] = NoDeadline
  /\ p \in joined => deadlines[p] = NoDeadline /\ gone[p] # "overdue"

StaysSilent(p) ==
  /\ gone'[p] = gone[p] /\ (p \in joined' => p \in joined)
  /\ wire[p] = "closed" => wire'[p] = "closed" /\ (inbox[p] = <<>> => inbox'[p] = <<>>)
  /\ inbox[p] = <<>> /\ received[p] = <<>> => received'[p] = <<>>
  /\ p \in expelled => p \in expelled' \/ received'[p] = <<>>
  /\ p \in members' \cup DOMAIN misbehaviour' => p \in members \cup DOMAIN misbehaviour
  /\ deadlines'[p] \in {deadlines[p], NoDeadline}

LEMMA StaysSilentKeeps ==
  ASSUME NEW p, SilentOf(p), StaysSilent(p)
  PROVE  SilentOf(p)'
<1>1. NoDeadline' = NoDeadline
  BY DEF NoDeadline
<1>2. QED
  BY <1>1 DEF SilentOf, StaysSilent

LEMMA SilentStep ==
  ASSUME ConnectionsTypeOK, RoundInv, AskingInv, SilentIsUnheard, ExpelledIsSilent, ConnectionsNext
  PROVE  ExpelledIsSilent'
<1>. USE DEF externalVars, tableVars, roundVars, gateVars, hostVars
<1>1. SUFFICES ASSUME NEW q \in Peers PROVE SilentOf(q)'
  BY DEF ExpelledIsSilent, SilentOf
<1>2. /\ SilentOf(q)
      /\ WireTyped /\ TableTyped /\ RoundTyped /\ GateTyped /\ HostTyped
  BY TypesSplit DEF ExpelledIsSilent, SilentOf
<1>3. NoMessages[q] = <<>>
  BY DEF NoMessages
<1>4. ASSUME UNCHANGED <<received, gateVars, hostVars>>,
             wire[q] = "closed" => wire'[q] = "closed" /\ (inbox[q] = <<>> => inbox'[q] = <<>>)
      PROVE  SilentOf(q)'
  BY <1>2, <1>4, StaysSilentKeeps DEF StaysSilent
<1>5. ASSUME NEW p \in Peers, Closes(p), UNCHANGED <<received, gateVars, hostVars>> PROVE SilentOf(q)'
  <2>1. /\ wire' = [wire EXCEPT ![p] = "closed"] /\ inbox' = [inbox EXCEPT ![p] = <<>>]
    BY <1>5, Closing
  <2>2. wire[q] = "closed" => wire'[q] = "closed" /\ (inbox[q] = <<>> => inbox'[q] = <<>>)
    BY <1>2, <2>1 DEF WireTyped
  <2>3. QED
    BY <1>4, <1>5, <2>2
<1>6. CASE ExternalStep
  <2>1. PICK p \in Peers : \/ PeerConnects(p) \/ HandshakeEnds(p) \/ ConnectionEnds(p)
                           \/ \E kind \in Kinds : PeerSays(p, kind)
    BY <1>6 DEF ExternalStep
  <2>2. wire[p] # "closed"
    BY <2>1 DEF PeerConnects, HandshakeEnds, ConnectionEnds, PeerSays
  <2>3. p # q => wire'[q] = wire[q] /\ inbox'[q] = inbox[q]
    <3>1. CASE PeerConnects(p) \/ HandshakeEnds(p) \/ ConnectionEnds(p)
      BY <1>2, <3>1 DEF PeerConnects, HandshakeEnds, ConnectionEnds, WireTyped
    <3>2. ASSUME NEW kind \in Kinds, PeerSays(p, kind)
          PROVE  p # q => wire'[q] = wire[q] /\ inbox'[q] = inbox[q]
      BY <1>2, <3>2 DEF PeerSays, WireTyped
    <3>3. QED
      BY <2>1, <3>1, <3>2
  <2>4. UNCHANGED <<received, gateVars, hostVars>>
    BY <1>6 DEF ExternalStep
  <2>5. QED
    BY <1>4, <2>2, <2>3, <2>4
<1>7. CASE SimulationCloses
  <2>1. losing \in Peers /\ Closes(losing) /\ UNCHANGED <<received, gateVars, hostVars>>
    BY <1>2, <1>7 DEF SimulationCloses, TableTyped
  <2>2. QED
    BY <1>5, <2>1
<1>8. ASSUME NEW p \in Peers, SimulationLoses(p) \/ NetworkLoses(p) PROVE SilentOf(q)'
  <2>1. CASE SimulationLoses(p)
    BY <1>4, <2>1 DEF SimulationLoses
  <2>2. CASE NetworkLoses(p)
    BY <1>5, <2>2 DEF NetworkLoses
  <2>3. QED
    BY <1>8, <2>1, <2>2
<1>9. CASE StartRound \/ ApplyConnecting \/ ApplyConnected \/ TakeEvents
  <2>1. UNCHANGED <<wire, inbox, received, gateVars, hostVars>>
    BY <1>9 DEF StartRound, ApplyConnecting, ApplyConnected, TakeEvents, Applying
  <2>2. QED
    BY <1>4, <2>1
<1>10. CASE ApplyEnded
  <2>. DEFINE p == Head(drained).peer
  <2>1. /\ wire' = [wire EXCEPT ![p] = "closed"] /\ inbox' = [inbox EXCEPT ![p] = <<>>]
        /\ UNCHANGED <<received, gateVars, hostVars>>
    BY <1>10 DEF ApplyEnded, Applying
  <2>. HIDE DEF p
  <2>2. wire[q] = "closed" => wire'[q] = "closed" /\ (inbox[q] = <<>> => inbox'[q] = <<>>)
    BY <1>2, <2>1 DEF WireTyped
  <2>3. QED
    BY <1>4, <2>1, <2>2
<1>11. CASE HandleConnectRequested
  <2>. DEFINE p == Head(events).peer
  <2>1. /\ Head(events) = PeerEvent(p, "kConnectRequested") /\ p \in Peers
        /\ ToSet(events) = {Head(events)} \cup ToSet(events')
        /\ UNCHANGED <<inbox, received>>
    BY <1>11, EventHandled DEF HandleConnectRequested
  <2>2. /\ wire' = [wire EXCEPT ![p] = IF @ = "connecting" THEN "accepted" ELSE @]
        /\ deadlines' = [deadlines EXCEPT ![p] = now]
        /\ UNCHANGED <<misbehaviour, expelled, hostVars>>
    BY <1>11 DEF HandleConnectRequested
  <2>. HIDE DEF p
  <2>3. CASE p = q
    <3>1. Request(q) \in ToSet(events) /\ AskedOf(q) /\ NewOf(q)
      BY <2>1, <2>3, AskingOf DEF Request
    <3>2. gone[q] = "no" /\ said[q] = 0
      BY <3>1 DEF Asks, NewOf
    <3>3. q \notin joined
      BY <3>2 DEF SilentIsUnheard
    <3>4. QED
      BY <2>2, <3>2, <3>3 DEF SilentOf
  <2>4. CASE p # q
    <3>1. wire'[q] = wire[q] /\ deadlines'[q] = deadlines[q]
      BY <1>2, <2>1, <2>2, <2>4 DEF WireTyped, GateTyped
    <3>2. StaysSilent(q)
      BY <2>1, <2>2, <3>1 DEF StaysSilent
    <3>3. QED
      BY <1>2, <3>2, StaysSilentKeeps
  <2>5. QED
    BY <2>3, <2>4
<1>12. CASE HandleConnected
  <2>1. UNCHANGED <<wire, inbox, received, gateVars, hostVars>>
    BY <1>12 DEF HandleConnected, HandlingEvent
  <2>2. QED
    BY <1>4, <2>1
<1>13. CASE HandleDisconnected
  <2>. DEFINE p == Head(events).peer
  <2>1. UNCHANGED <<wire, inbox, received, expelled, joined, gone>> /\ p \in Peers
    BY <1>13, EventHandled DEF HandleDisconnected
  <2>2. /\ deadlines' = [deadlines EXCEPT ![p] = NoDeadline] /\ members' = members \ {p}
        /\ DOMAIN misbehaviour' = DOMAIN misbehaviour \ {p}
    BY <1>13 DEF HandleDisconnected, HandleDisconnect, Left
  <2>. HIDE DEF p
  <2>3. deadlines'[q] \in {deadlines[q], NoDeadline}
    BY <1>2, <2>1, <2>2 DEF GateTyped
  <2>4. StaysSilent(q)
    BY <2>1, <2>2, <2>3 DEF StaysSilent
  <2>5. QED
    BY <1>2, <2>4, StaysSilentKeeps
<1>14. CASE Receive
  <2>1. UNCHANGED <<wire, gateVars, hostVars>>
    BY <1>14 DEF Receive
  <2>2. inbox'[q] \in {inbox[q], <<>>} /\ received'[q] \in {inbox[q], <<>>}
    BY <1>14 DEF Receive
  <2>3. StaysSilent(q)
    BY <2>1, <2>2 DEF StaysSilent
  <2>4. QED
    BY <1>2, <2>3, StaysSilentKeeps
<1>15. CASE ReceiveFails
  <2>1. UNCHANGED <<wire, inbox, received, gateVars, hostVars>>
    BY <1>15 DEF ReceiveFails
  <2>2. QED
    BY <1>4, <2>1
<1>16. CASE EndRound
  <2>1. received[q] = <<>> /\ UNCHANGED <<wire, inbox, received, deadlines, misbehaviour, hostVars>>
    BY <1>3, <1>16 DEF EndRound, AllHandled
  <2>2. StaysSilent(q)
    BY <2>1 DEF StaysSilent
  <2>3. QED
    BY <1>2, <2>2, StaysSilentKeeps
<1>17. ASSUME NEW p \in Peers, NEW why \in {"misbehaving", "overdue"}, Expel(p, why),
              UNCHANGED joined, p # q => received'[q] = received[q],
              why = "overdue" => p \notin joined
       PROVE  SilentOf(q)'
  <2>1. /\ wire' = [wire EXCEPT ![p] = "closed"] /\ inbox' = [inbox EXCEPT ![p] = <<>>]
    BY <1>17, Closing DEF Expel
  <2>2. /\ deadlines' = [deadlines EXCEPT ![p] = NoDeadline] /\ members' = members \ {p}
        /\ DOMAIN misbehaviour' = DOMAIN misbehaviour \ {p}
        /\ expelled' = expelled \cup {p} /\ gone' = [gone EXCEPT ![p] = why]
    BY <1>17 DEF Expel, HandleDisconnect, Left
  <2>3. CASE p = q
    <3>1. /\ wire'[q] = "closed" /\ inbox'[q] = <<>> /\ deadlines'[q] = NoDeadline /\ gone'[q] = why
      BY <1>2, <2>1, <2>2, <2>3 DEF WireTyped, GateTyped, HostTyped
    <3>2. QED
      BY <1>17, <2>2, <2>3, <3>1 DEF SilentOf, NoDeadline
  <2>4. CASE p # q
    <3>1. /\ wire'[q] = wire[q] /\ inbox'[q] = inbox[q] /\ deadlines'[q] = deadlines[q]
          /\ gone'[q] = gone[q]
      BY <1>2, <2>1, <2>2, <2>4 DEF WireTyped, GateTyped, HostTyped
    <3>2. StaysSilent(q)
      BY <1>17, <2>2, <2>4, <3>1 DEF StaysSilent
    <3>3. QED
      BY <1>2, <3>2, StaysSilentKeeps
  <2>5. QED
    BY <2>3, <2>4
<1>18. ASSUME NEW p \in Peers, ExpelOverdue(p) PROVE SilentOf(q)'
  <2>1. Expel(p, "overdue") /\ Overdue(p) /\ UNCHANGED <<joined, received>>
    BY <1>18 DEF ExpelOverdue
  <2>2. deadlines[p] # NoDeadline
    BY <1>2, <2>1 DEF Overdue, NoDeadline, RoundTyped
  <2>3. p \notin joined
    BY <2>2 DEF ExpelledIsSilent
  <2>4. QED
    BY <1>17, <2>1, <2>3
<1>19. ASSUME NEW p \in Peers, HandleMessage(p) PROVE SilentOf(q)'
  <2>1. received[p] # <<>> /\ received' = [received EXCEPT ![p] = Tail(@)]
    BY <1>19, MessageOutcome DEF Handling
  <2>2. p # q => received'[q] = received[q]
    BY <1>2, <2>1 DEF RoundTyped
  <2>3. received[q] = <<>> => received'[q] = <<>>
    BY <2>1, <2>2
  <2>4. CASE Ignored
    <3>1. StaysSilent(q)
      BY <2>3, <2>4 DEF Ignored, StaysSilent
    <3>2. QED
      BY <1>2, <3>1, StaysSilentKeeps
  <2>5. ASSUME p \notin expelled PROVE gone[p] = "no"
    BY <2>1, <2>5 DEF ExpelledIsSilent
  <2>6. CASE p \notin expelled /\ Admitted(p)
    <3>1. /\ members' = members \cup {p} /\ joined' = joined \cup {p}
          /\ deadlines' = [deadlines EXCEPT ![p] = NoDeadline]
          /\ UNCHANGED <<wire, inbox, misbehaviour, expelled, gone>>
      BY <2>6 DEF Admitted, WithoutDeadline
    <3>2. CASE p = q
      <4>1. gone'[q] = "no" /\ deadlines'[q] = NoDeadline
        BY <1>2, <2>5, <2>6, <3>1, <3>2 DEF GateTyped
      <4>2. QED
        BY <4>1 DEF SilentOf, NoDeadline
    <3>3. CASE p # q
      <4>1. deadlines'[q] = deadlines[q]
        BY <1>2, <3>1, <3>3 DEF GateTyped
      <4>2. StaysSilent(q)
        BY <2>2, <3>1, <3>3, <4>1 DEF StaysSilent
      <4>3. QED
        BY <1>2, <4>2, StaysSilentKeeps
    <3>4. QED
      BY <3>2, <3>3
  <2>7. ASSUME p \notin expelled, NEW recent, Tracks(p, recent),
               UNCHANGED <<wire, inbox, expelled, deadlines, members, joined, gone>>
        PROVE  SilentOf(q)'
    <3>1. DOMAIN misbehaviour' = DOMAIN misbehaviour \cup {p}
      BY <2>7 DEF Tracks
    <3>2. CASE p = q
      BY <1>2, <2>5, <2>7, <3>2 DEF SilentOf, NoDeadline
    <3>3. CASE p # q
      <4>1. StaysSilent(q)
        BY <2>2, <2>7, <3>1, <3>3 DEF StaysSilent
      <4>2. QED
        BY <1>2, <4>1, StaysSilentKeeps
    <3>4. QED
      BY <3>2, <3>3
  <2>8. CASE p \notin expelled /\ Routine(p)
    BY <2>7, <2>8 DEF Routine
  <2>9. CASE p \notin expelled /\ Misbehaves(p)
    <3>1. CASE Expel(p, "misbehaving")
      BY <1>17, <2>2, <2>9, <3>1 DEF Misbehaves
    <3>2. CASE /\ Tracks(p, Recent(p))
               /\ UNCHANGED <<externalVars, tableVars, deadlines, expelled, members, left, gone>>
      BY <2>7, <2>9, <3>2 DEF Misbehaves
    <3>3. QED
      BY <2>9, <3>1, <3>2, Zenon DEF Misbehaves
  <2>10. QED
    BY <1>19, <2>4, <2>6, <2>8, <2>9, MessageOutcome
<1>20. QED
  BY <1>6, <1>7, <1>8, <1>9, <1>10, <1>11, <1>12, <1>13, <1>14, <1>15, <1>16, <1>18, <1>19
  DEF ConnectionsNext, RoundStep

-----------------------------------------------------------------------------
(* What is known of the misbehaviours of each peer.                        *)
OrderOf(p) ==
  /\ \A i, j \in DOMAIN offences[p] : i <= j => offences[p][i] <= offences[p][j]
  /\ \A i \in DOMAIN offences[p] : offences[p][i] <= now

TrackedOf(p) ==
  /\ Dropped(p) >= 0
  /\ \A k \in DOMAIN Tracker(p) : Tracker(p)[k] = offences[p][Dropped(p) + k]
  /\ p \notin left => \A d \in 1 .. Dropped(p) : now - offences[p][d] >= Window

JudgedOf(p) ==
  /\ gone[p] = "misbehaving" => WithinWindow(offences[p], Len(offences[p]))
  /\ p \notin left => \A last \in DOMAIN offences[p] : ~WithinWindow(offences[p], last)

BookOf(p) == OrderOf(p) /\ TrackedOf(p) /\ JudgedOf(p)

LEMMA BookOfAll == TrackersAreRecent /\ JudgedByTheWindow <=> \A p \in Peers : BookOf(p)
  BY DEF TrackersAreRecent, JudgedByTheWindow, BookOf, OrderOf, TrackedOf, JudgedOf

LEMMA BookOfNext ==
  ASSUME \A p \in Peers : BookOf(p)'
  PROVE  (TrackersAreRecent /\ JudgedByTheWindow)'
  BY DEF TrackersAreRecent, JudgedByTheWindow, BookOf, OrderOf, TrackedOf, JudgedOf

(* Time goes on, and nothing is recorded.                                  *)
LEMMA BookKept ==
  ASSUME ConnectionsTypeOK, NEW p \in Peers, BookOf(p), now' \in Nat, now <= now',
         offences'[p] = offences[p], Tracker(p)' = Tracker(p), gone'[p] = gone[p],
         p \notin left' => p \notin left
  PROVE  BookOf(p)'
<1>. DEFINE O == offences[p]
            T == Tracker(p)
<1>1. O \in Seq(0..MaxNow) /\ now \in Nat /\ T \in Seq(0..MaxNow)
  BY RecordedMisbehaviour DEF ConnectionsTypeOK
<1>2. Dropped(p)' = Dropped(p) /\ Dropped(p) = Len(O) - Len(T)
  BY DEF Dropped
<1>3. \A i \in DOMAIN O : O[i] \in Nat
  BY <1>1
<1>4. OrderOf(p)'
  BY <1>1, <1>3 DEF BookOf, OrderOf
<1>5. TrackedOf(p)'
  <2>1. Dropped(p)' >= 0 /\ \A k \in DOMAIN Tracker(p)' : Tracker(p)'[k] = offences'[p][Dropped(p)' + k]
    BY <1>2 DEF BookOf, TrackedOf
  <2>2. ASSUME p \notin left', NEW d \in 1..Dropped(p)' PROVE now' - offences'[p][d] >= Window
    <3>1. d \in DOMAIN O
      BY <1>1, <1>2, <2>2
    <3>2. now - O[d] >= Window
      BY <1>2, <2>2 DEF BookOf, TrackedOf
    <3>3. O[d] \in Nat /\ Window \in Nat
      BY <1>3, <3>1
    <3>4. QED
      BY <1>1, <3>2, <3>3, SMTT(30)
  <2>3. QED
    BY <2>1, <2>2 DEF TrackedOf
<1>6. JudgedOf(p)'
  BY DEF BookOf, JudgedOf, WithinWindow
<1>7. QED
  BY <1>4, <1>5, <1>6 DEF BookOf

(* What a peer did is in the order it was handled in.                      *)
LEMMA OffenceAppended ==
  ASSUME ConnectionsTypeOK, NEW p \in Peers, BookOf(p),
         offences' = [offences EXCEPT ![p] = Append(@, now)], UNCHANGED now
  PROVE  /\ Len(offences[p]) \in Nat /\ Len(offences'[p]) = Len(offences[p]) + 1
         /\ DOMAIN offences[p] = 1..Len(offences[p])
         /\ DOMAIN offences'[p] = 1..(Len(offences[p]) + 1)
         /\ \A i \in DOMAIN offences[p] : offences'[p][i] = offences[p][i] /\ offences[p][i] \in Nat
         /\ offences'[p][Len(offences[p]) + 1] = now
         /\ OrderOf(p)'
<1>. DEFINE O == offences[p]
            n == Len(offences[p])
<1>1. O \in Seq(0..MaxNow) /\ now \in 0..MaxNow
  BY DEF ConnectionsTypeOK
<1>2. offences'[p] = Append(O, now)
  BY DEF ConnectionsTypeOK
<1>3. \A i, j \in DOMAIN O : i <= j => O[i] <= O[j]
  BY DEF BookOf, OrderOf
<1>4. \A i \in DOMAIN O : O[i] <= now
  BY DEF BookOf, OrderOf
<1>5. n = Len(O) /\ offences[p] = O
  OBVIOUS
<1>. HIDE DEF O, n
<1>6. /\ n \in Nat /\ DOMAIN O = 1..n /\ Len(Append(O, now)) = n + 1
      /\ DOMAIN Append(O, now) = 1..(n + 1)
      /\ \A i \in 1..n : Append(O, now)[i] = O[i] /\ O[i] \in Nat
      /\ Append(O, now)[n + 1] = now
  BY <1>1, <1>5
<1>7. \A i \in 1..(n + 1) : Append(O, now)[i] <= now
  BY <1>1, <1>4, <1>6
<1>8. \A i, j \in 1..(n + 1) : i <= j => Append(O, now)[i] <= Append(O, now)[j]
  <2>1. SUFFICES ASSUME NEW i \in 1..(n + 1), NEW j \in 1..(n + 1), i <= j
                 PROVE  Append(O, now)[i] <= Append(O, now)[j]
    OBVIOUS
  <2>2. CASE j = n + 1
    BY <1>6, <1>7, <2>2
  <2>3. CASE j # n + 1
    <3>1. i \in 1..n /\ j \in 1..n
      BY <1>6, <2>1, <2>3
    <3>2. QED
      BY <1>3, <1>6, <2>1, <3>1
  <2>4. QED
    BY <2>2, <2>3
<1>9. OrderOf(p)'
  BY <1>2, <1>6, <1>7, <1>8 DEF OrderOf
<1>10. QED
  BY <1>2, <1>5, <1>6, <1>9

(* A peer that leaves is forgotten, but what it did stays done.            *)
LEMMA BookOfLeaver ==
  ASSUME ConnectionsTypeOK, NEW p \in Peers, offences'[p] \in Seq(0..MaxNow),
         OrderOf(p)', DOMAIN misbehaviour' = DOMAIN misbehaviour \ {p}, p \in left',
         (gone[p] = "misbehaving" => WithinWindow(offences[p], Len(offences[p])))'
  PROVE  BookOf(p)'
<1>1. Tracker(p)' = <<>>
  BY DEF Tracker
<1>2. Dropped(p)' = Len(offences'[p])
  BY <1>1 DEF Dropped
<1>3. Len(offences'[p]) >= 0 /\ DOMAIN Tracker(p)' = {}
  BY <1>1
<1>4. TrackedOf(p)'
  BY <1>2, <1>3 DEF TrackedOf
<1>5. JudgedOf(p)'
  BY DEF JudgedOf
<1>6. QED
  BY <1>4, <1>5 DEF BookOf

(* A misbehaviour that is borne: its peer did not do too much within any   *)
(* window, and its tracker goes on from the first recent one.              *)
LEMMA BookOfTracked ==
  ASSUME ConnectionsTypeOK, NEW p \in Peers, BookOf(p), gone[p] = "no",
         offences' = [offences EXCEPT ![p] = Append(@, now)], UNCHANGED <<now, left, gone>>,
         ~TooMany(p), Tracks(p, Recent(p))
  PROVE  BookOf(p)'
<1>. DEFINE O == offences[p]
            Q == offences'[p]
            T == Tracker(p)
            R == Recent(p)
            n == Len(offences[p])
            t == Len(Tracker(p))
            s == Stale(Tracker(p))
            D == Dropped(p)
<1>1. /\ n \in Nat /\ Len(Q) = n + 1 /\ DOMAIN O = 1..n /\ DOMAIN Q = 1..(n + 1)
      /\ \A i \in DOMAIN O : Q[i] = O[i] /\ O[i] \in Nat
      /\ Q[n + 1] = now
  BY OffenceAppended
<1>2. OrderOf(p)'
  BY OffenceAppended
<1>3. /\ T \in Seq(0..MaxNow) /\ t \in 0..(Threshold - 1) /\ s \in 0..t
      /\ R \in Seq(0..MaxNow) /\ Len(R) = t - s + 1
      /\ \A i \in 1..(Len(R) - 1) : R[i] = T[s + i]
      /\ R[Len(R)] = now
      /\ \A i \in 1..s : now - T[i] >= Window
  BY RecordedMisbehaviour
<1>4. Len(R) < Threshold
  <2>1. Threshold \in Nat /\ Len(R) \in Nat
    BY <1>3
  <2>2. QED
    BY <2>1 DEF TooMany
<1>5. Tracker(p)' = R
  <2>1. p \in DOMAIN misbehaviour' /\ misbehaviour'[p] = R
    BY DEF Tracks
  <2>2. QED
    BY <2>1 DEF Tracker
<1>6. D = n - t /\ D >= 0 /\ \A k \in DOMAIN T : T[k] = O[D + k]
  BY DEF BookOf, TrackedOf, Dropped
<1>7. p \notin left => \A d \in 1..D : now - O[d] >= Window
  BY DEF BookOf, TrackedOf
<1>8. p \notin left => \A last \in DOMAIN O : ~WithinWindow(O, last)
  BY DEF BookOf, JudgedOf
<1>9. now \in Nat /\ Window \in Nat /\ Threshold \in Nat \ {0}
  BY DEF ConnectionsTypeOK
<1>10. Dropped(p)' = Len(Q) - Len(R)
  BY <1>5 DEF Dropped
<1>11. DOMAIN T = 1..t /\ t \in Nat /\ DOMAIN R = 1..Len(R) /\ s \in Nat /\ s <= t
  BY <1>3
<1>. HIDE DEF O, Q, T, R, n, t, s, D
<1>12. Len(Q) - Len(R) = D + s /\ D \in Nat /\ D + t = n
  BY <1>1, <1>3, <1>6, <1>11
<1>13. ASSUME NEW d \in 1..(D + s), p \notin left PROVE now - Q[d] >= Window
  <2>1. CASE d \in 1..D
    <3>1. d \in DOMAIN O
      BY <1>1, <1>11, <1>12, <2>1
    <3>2. QED
      BY <1>1, <1>7, <1>13, <2>1, <3>1
  <2>2. CASE d \notin 1..D
    <3>1. d - D \in 1..s /\ D + (d - D) = d /\ d - D \in 1..t /\ d \in 1..n
      BY <1>11, <1>12, <1>13, <2>2
    <3>2. T[d - D] = O[D + (d - D)]
      BY <1>6, <1>11, <3>1
    <3>3. now - T[d - D] >= Window
      BY <1>3, <3>1
    <3>4. Q[d] = O[d]
      BY <1>1, <3>1
    <3>5. QED
      BY <3>1, <3>2, <3>3, <3>4
  <2>3. QED
    BY <2>1, <2>2
<1>14. ASSUME NEW k \in DOMAIN R PROVE R[k] = Q[(D + s) + k]
  <2>1. k \in 1..(t - s + 1) /\ Len(R) = t - s + 1
    BY <1>3, <1>11, <1>14
  <2>2. CASE k = t - s + 1
    <3>1. (D + s) + k = n + 1
      BY <1>11, <1>12, <2>2
    <3>2. QED
      BY <1>1, <1>3, <2>1, <2>2, <3>1
  <2>3. CASE k # t - s + 1
    <3>1. k \in 1..(Len(R) - 1) /\ s + k \in 1..t /\ D + (s + k) = (D + s) + k /\ (D + s) + k \in 1..n
      BY <1>11, <1>12, <2>1, <2>3, SMTT(30)
    <3>2. R[k] = T[s + k] /\ T[s + k] = O[D + (s + k)]
      BY <1>3, <1>6, <1>11, <3>1
    <3>3. Q[(D + s) + k] = O[(D + s) + k]
      BY <1>1, <3>1
    <3>4. QED
      BY <3>1, <3>2, <3>3
  <2>4. QED
    BY <2>2, <2>3
<1>15. TrackedOf(p)'
  <2>1. Dropped(p)' = D + s
    BY <1>10, <1>12
  <2>2. D + s >= 0
    BY <1>11, <1>12
  <2>3. QED
    BY <1>5, <1>13, <1>14, <2>1, <2>2 DEF TrackedOf, Q
<1>16. ASSUME p \notin left, NEW last \in 1..(n + 1) PROVE ~WithinWindow(Q, last)
  <2>1. CASE last \in 1..n
    <3>1. ~WithinWindow(O, last)
      BY <1>1, <1>8, <1>16, <2>1
    <3>2. last >= Threshold => last - Threshold + 1 \in 1..n
      BY <1>1, <1>9, <2>1
    <3>3. last >= Threshold =>
            Q[last] = O[last] /\ Q[last - Threshold + 1] = O[last - Threshold + 1]
      BY <1>1, <2>1, <3>2
    <3>4. QED
      BY <3>1, <3>3 DEF WithinWindow
  <2>2. CASE last = n + 1 /\ last >= Threshold
    <3>1. last - Threshold + 1 \in 1..(D + s)
      BY <1>1, <1>3, <1>4, <1>9, <1>11, <1>12, <2>2
    <3>2. now - Q[last - Threshold + 1] >= Window
      BY <1>13, <1>16, <3>1
    <3>3. Q[last - Threshold + 1] \in Nat
      BY <1>1, <1>11, <1>12, <3>1
    <3>4. Q[last] = now
      BY <1>1, <2>2
    <3>5. QED
      BY <1>9, <3>2, <3>3, <3>4 DEF WithinWindow
  <2>3. CASE ~(last >= Threshold)
    BY <2>3 DEF WithinWindow
  <2>4. QED
    BY <1>1, <1>16, <2>1, <2>2, <2>3
<1>17. JudgedOf(p)'
  <2>1. gone'[p] # "misbehaving"
    OBVIOUS
  <2>2. \A last \in DOMAIN Q : p \notin left => ~WithinWindow(Q, last)
    BY <1>1, <1>16
  <2>3. QED
    BY <2>1, <2>2 DEF JudgedOf, WithinWindow, Q
<1>18. QED
  BY <1>2, <1>15, <1>17 DEF BookOf

(* A misbehaviour too many: the last Threshold of them are within a window.*)
LEMMA TooManyIsWithinTheWindow ==
  ASSUME ConnectionsTypeOK, NEW p \in Peers, BookOf(p),
         offences' = [offences EXCEPT ![p] = Append(@, now)], UNCHANGED now, TooMany(p)
  PROVE  WithinWindow(offences'[p], Len(offences'[p]))
<1>. DEFINE O == offences[p]
            Q == offences'[p]
            T == Tracker(p)
            n == Len(offences[p])
            t == Len(Tracker(p))
            s == Stale(Tracker(p))
            D == Dropped(p)
<1>1. /\ n \in Nat /\ Len(Q) = n + 1 /\ DOMAIN O = 1..n /\ DOMAIN Q = 1..(n + 1)
      /\ \A i \in DOMAIN O : Q[i] = O[i] /\ O[i] \in Nat
      /\ Q[n + 1] = now
  BY OffenceAppended
<1>2. /\ T \in Seq(0..MaxNow) /\ t \in 0..(Threshold - 1) /\ s \in 0..t
      /\ Len(Recent(p)) = t - s + 1
      /\ s < t => now - T[s + 1] < Window
  BY RecordedMisbehaviour
<1>3. Len(Recent(p)) >= Threshold
  BY DEF TooMany
<1>4. D = n - t /\ D >= 0 /\ \A k \in DOMAIN T : T[k] = O[D + k]
  BY DEF BookOf, TrackedOf, Dropped
<1>5. now \in Nat /\ Window \in Nat \ {0} /\ Threshold \in Nat \ {0}
  BY DEF ConnectionsTypeOK
<1>6. DOMAIN T = 1..t /\ t \in Nat
  BY <1>2
<1>. HIDE DEF O, Q, T, n, t, s, D
<1>7. s = 0 /\ t = Threshold - 1 /\ n + 1 >= Threshold
  BY <1>1, <1>2, <1>3, <1>4, <1>5, <1>6
<1>8. CASE t = 0
  <2>1. (n + 1) - Threshold + 1 = n + 1
    BY <1>1, <1>5, <1>7, <1>8
  <2>2. Q[n + 1] - Q[(n + 1) - Threshold + 1] < Window
    BY <1>1, <1>5, <2>1
  <2>3. QED
    BY <1>1, <1>7, <2>2 DEF WithinWindow, Q
<1>9. CASE t # 0
  <2>1. 1 \in 1..t /\ (n + 1) - Threshold + 1 = D + 1 /\ D + 1 \in 1..n /\ s < t /\ s + 1 = 1
    BY <1>1, <1>4, <1>5, <1>6, <1>7, <1>9
  <2>2. T[1] = O[D + 1] /\ Q[D + 1] = O[D + 1] /\ now - T[1] < Window
    BY <1>1, <1>2, <1>4, <1>6, <2>1
  <2>3. Q[n + 1] - Q[(n + 1) - Threshold + 1] < Window
    BY <1>1, <2>1, <2>2
  <2>4. QED
    BY <1>1, <1>7, <2>3 DEF WithinWindow, Q
<1>10. QED
  BY <1>8, <1>9

(* The trackers of the others, whoever is forgotten.                       *)
LEMMA OtherTrackers ==
  ASSUME NEW p, NEW q, p # q
  PROVE  /\ misbehaviour' = [r \in DOMAIN misbehaviour \ {p} |-> misbehaviour[r]]
              => Tracker(q)' = Tracker(q)
         /\ \A recent : Tracks(p, recent) => Tracker(q)' = Tracker(q)
  BY DEF Tracker, Tracks

LEMMA BookStep ==
  ASSUME ConnectionsTypeOK, ConnectionsTypeOK', RoundInv, ExpelledIsSilent,
         TrackersAreRecent /\ JudgedByTheWindow, ConnectionsNext
  PROVE  (TrackersAreRecent /\ JudgedByTheWindow)'
<1>. USE DEF externalVars, tableVars, roundVars, gateVars, hostVars
<1>1. SUFFICES ASSUME NEW q \in Peers PROVE BookOf(q)'
  BY BookOfNext
<1>2. /\ BookOf(q) /\ now \in Nat /\ now' \in Nat
      /\ offences \in [Peers -> Seq(0..MaxNow)] /\ offences' \in [Peers -> Seq(0..MaxNow)]
      /\ gone \in [Peers -> {"no", "misbehaving", "overdue"}]
  <2>1. BookOf(q)
    BY BookOfAll
  <2>2. now \in 0..MaxNow /\ now' \in 0..MaxNow
    BY Zenon DEF ConnectionsTypeOK
  <2>3. /\ offences \in [Peers -> Seq(0..MaxNow)] /\ offences' \in [Peers -> Seq(0..MaxNow)]
        /\ gone \in [Peers -> {"no", "misbehaving", "overdue"}]
    BY Zenon DEF ConnectionsTypeOK
  <2>4. QED
    BY <2>1, <2>2, <2>3
<1>3. ASSUME UNCHANGED <<misbehaviour, offences, gone, left>>, now <= now' PROVE BookOf(q)'
  <2>1. Tracker(q)' = Tracker(q)
    BY <1>3 DEF Tracker
  <2>2. QED
    BY <1>2, <1>3, <2>1, BookKept
<1>4. ASSUME UNCHANGED <<misbehaviour, offences, gone, left, now>> PROVE BookOf(q)'
  <2>1. now <= now'
    BY <1>2, <1>4
  <2>2. QED
    BY <1>3, <1>4, <2>1
<1>5. CASE \/ ExternalStep \/ SimulationCloses
           \/ \E p \in Peers : SimulationLoses(p) \/ NetworkLoses(p)
  <2>1. UNCHANGED <<gateVars, hostVars, now>>
    BY <1>5 DEF ExternalStep, SimulationCloses, SimulationLoses, NetworkLoses
  <2>2. QED
    BY <1>4, <2>1
<1>6. CASE StartRound
  <2>1. UNCHANGED <<gateVars, hostVars>> /\ now <= now'
    BY <1>2, <1>6 DEF StartRound
  <2>2. QED
    BY <1>3, <2>1
<1>7. CASE \/ ApplyConnecting \/ ApplyConnected \/ ApplyEnded \/ TakeEvents
           \/ Receive \/ ReceiveFails
  <2>1. UNCHANGED <<gateVars, hostVars, now>>
    BY <1>7 DEF ApplyConnecting, ApplyConnected, ApplyEnded, TakeEvents, Applying, Receive, ReceiveFails
  <2>2. QED
    BY <1>4, <2>1
<1>8. CASE HandleConnectRequested \/ HandleConnected \/ EndRound
  <2>1. UNCHANGED <<misbehaviour, hostVars, now>>
    BY <1>8 DEF HandleConnectRequested, HandleConnected, HandlingEvent, EndRound
  <2>2. QED
    BY <1>4, <2>1
<1>9. ASSUME NEW p \in Peers, p # q, Tracker(q)' = Tracker(q), UNCHANGED now,
             offences'[q] = offences[q], gone'[q] = gone[q], q \notin left' => q \notin left
      PROVE  BookOf(q)'
  <2>1. now <= now'
    BY <1>2, <1>9
  <2>2. QED
    BY <1>2, <1>9, <2>1, BookKept
<1>10. CASE HandleDisconnected
  <2>. DEFINE p == Head(events).peer
  <2>1. p \in Peers /\ UNCHANGED <<gone, offences, now>>
    BY <1>10, EventHandled DEF HandleDisconnected
  <2>2. misbehaviour' = [r \in DOMAIN misbehaviour \ {p} |-> misbehaviour[r]] /\ left' = left \cup {p}
    BY <1>10 DEF HandleDisconnected, HandleDisconnect, Left
  <2>. HIDE DEF p
  <2>3. CASE p # q
    <3>1. Tracker(q)' = Tracker(q)
      BY <2>2, <2>3, OtherTrackers
    <3>2. QED
      BY <1>9, <2>1, <2>2, <2>3, <3>1
  <2>4. CASE p = q
    <3>1. OrderOf(q)'
      BY <1>2, <2>1 DEF BookOf, OrderOf
    <3>2. (gone[q] = "misbehaving" => WithinWindow(offences[q], Len(offences[q])))'
      BY <1>2, <2>1 DEF BookOf, JudgedOf, WithinWindow
    <3>3. QED
      BY <1>2, <2>2, <2>4, <3>1, <3>2, BookOfLeaver
  <2>5. QED
    BY <2>3, <2>4
<1>11. ASSUME NEW p \in Peers, NEW why \in {"misbehaving", "overdue"}, Expel(p, why), UNCHANGED now,
              p # q => offences'[q] = offences[q],
              p = q => OrderOf(q)',
              p = q /\ why = "misbehaving" => WithinWindow(offences'[q], Len(offences'[q]))
       PROVE  BookOf(q)'
  <2>1. misbehaviour' = [r \in DOMAIN misbehaviour \ {p} |-> misbehaviour[r]] /\ left' = left \cup {p}
    BY <1>11 DEF Expel, HandleDisconnect, Left
  <2>2. gone' = [gone EXCEPT ![p] = why]
    BY <1>11 DEF Expel
  <2>3. CASE p # q
    <3>1. Tracker(q)' = Tracker(q) /\ gone'[q] = gone[q]
      BY <1>2, <2>1, <2>2, <2>3, OtherTrackers
    <3>2. QED
      BY <1>9, <1>11, <2>1, <2>3, <3>1
  <2>4. CASE p = q
    <3>1. gone'[q] = why
      BY <1>2, <2>2, <2>4
    <3>2. (gone[q] = "misbehaving" => WithinWindow(offences[q], Len(offences[q])))'
      BY <1>11, <2>4, <3>1 DEF WithinWindow
    <3>3. QED
      BY <1>2, <1>11, <2>1, <2>4, <3>2, BookOfLeaver
  <2>5. QED
    BY <2>3, <2>4
<1>12. ASSUME NEW p \in Peers, ExpelOverdue(p) PROVE BookOf(q)'
  <2>1. Expel(p, "overdue") /\ UNCHANGED <<offences, now>>
    BY <1>12 DEF ExpelOverdue
  <2>2. OrderOf(q)'
    BY <1>2, <2>1 DEF BookOf, OrderOf
  <2>3. QED
    BY <1>11, <2>1, <2>2
<1>13. ASSUME NEW p \in Peers, HandleMessage(p) PROVE BookOf(q)'
  <2>1. received[p] # <<>> /\ UNCHANGED now
    BY <1>13, MessageOutcome DEF Handling
  <2>2. CASE Ignored \/ Admitted(p)
    <3>1. UNCHANGED <<misbehaviour, offences, gone, left>>
      BY <2>2 DEF Ignored, Admitted
    <3>2. QED
      BY <1>4, <2>1, <3>1
  <2>3. CASE Routine(p)
    <3>1. Tracks(p, Tracker(p)) /\ UNCHANGED <<offences, gone, left>>
      BY <2>3 DEF Routine
    <3>2. Tracker(q)' = Tracker(q)
      <4>1. CASE p = q
        BY <3>1, <4>1 DEF Tracks, Tracker
      <4>2. CASE p # q
        BY <3>1, <4>2, OtherTrackers
      <4>3. QED
        BY <4>1, <4>2
    <3>3. now <= now'
      BY <1>2, <2>1
    <3>4. QED
      BY <1>2, <3>1, <3>2, <3>3, BookKept
  <2>4. CASE p \notin expelled /\ Misbehaves(p)
    <3>1. /\ offences' = [offences EXCEPT ![p] = Append(@, now)]
          /\ \/ ~TooMany(p) /\ Tracks(p, Recent(p)) /\ UNCHANGED <<left, gone>>
             \/ TooMany(p) /\ Expel(p, "misbehaving")
      BY <2>4, Zenon DEF Misbehaves
    <3>2. p # q => offences'[q] = offences[q]
      BY <1>2, <3>1
    <3>3. p = q => OrderOf(q)'
      BY <1>2, <2>1, <3>1, OffenceAppended
    <3>4. gone[p] = "no"
      BY <2>1, <2>4 DEF ExpelledIsSilent
    <3>5. CASE TooMany(p) /\ Expel(p, "misbehaving")
      <4>1. p = q => WithinWindow(offences'[q], Len(offences'[q]))
        BY <1>2, <2>1, <3>1, <3>5, TooManyIsWithinTheWindow
      <4>2. QED
        BY <1>11, <2>1, <3>2, <3>3, <3>5, <4>1
    <3>6. CASE ~TooMany(p) /\ Tracks(p, Recent(p)) /\ UNCHANGED <<left, gone>>
      <4>1. CASE p = q
        BY <1>2, <2>1, <3>1, <3>4, <3>6, <4>1, BookOfTracked
      <4>2. CASE p # q
        <5>1. Tracker(q)' = Tracker(q)
          BY <3>6, <4>2, OtherTrackers
        <5>2. QED
          BY <1>9, <2>1, <3>2, <3>6, <4>2, <5>1
      <4>3. QED
        BY <4>1, <4>2
    <3>7. QED
      BY <3>1, <3>5, <3>6
  <2>5. QED
    BY <1>13, <2>2, <2>3, <2>4, MessageOutcome
<1>14. QED
  BY <1>5, <1>6, <1>7, <1>8, <1>10, <1>12, <1>13 DEF ConnectionsNext, RoundStep

-----------------------------------------------------------------------------
(* At first no one is known.                                               *)
LEMMA ConnectionsInitIInv == ConnectionsInit => ConnectionsIInv
<1>. SUFFICES ASSUME ConnectionsInit PROVE ConnectionsIInv
  OBVIOUS
<1>. USE DEF ConnectionsInit, NoMessages
<1>1. ConnectionsTypeOK
  <2>1. WireTyped
    BY DEF WireTyped
  <2>2. TableTyped
    BY DEF TableTyped
  <2>3. RoundTyped
    BY DEF RoundTyped
  <2>4. GateTyped
    BY DEF GateTyped, NoDeadline
  <2>5. HostTyped
    BY DEF HostTyped
  <2>6. QED
    BY <2>1, <2>2, <2>3, <2>4, <2>5, TypesSplit
<1>2. RoundInv
  BY DEF RoundInv
<1>3. AskedOnce /\ NewWhileAsking
  BY NothingHolds DEF AskedOnce, NewWhileAsking, Asks, Announced
<1>4. SilentIsUnheard
  BY DEF SilentIsUnheard
<1>5. JoinersAreHeld
  BY DEF JoinersAreHeld, MemberIsHeld
<1>6. ExpelledIsSilent
  BY DEF ExpelledIsSilent
<1>7. TrackersAreRecent /\ JudgedByTheWindow
  BY DEF TrackersAreRecent, JudgedByTheWindow, Dropped, Tracker
<1>8. QED
  BY <1>1, <1>2, <1>3, <1>4, <1>5, <1>6, <1>7 DEF ConnectionsIInv

LEMMA ConnectionsStep ==
  ConnectionsIInv /\ [ConnectionsNext]_connectionsVars => ConnectionsIInv'
<1>1. ASSUME ConnectionsIInv, ConnectionsNext PROVE ConnectionsIInv'
  <2>1. ConnectionsTypeOK'
    BY <1>1, TypeStep DEF ConnectionsIInv
  <2>2. RoundInv'
    BY <1>1, RoundsStep DEF ConnectionsIInv
  <2>3. AskingInv'
    BY <1>1, AskingStep DEF ConnectionsIInv, AskingInv
  <2>4. SilentIsUnheard'
    BY <1>1, UnheardStep DEF ConnectionsIInv
  <2>5. JoinersAreHeld'
    BY <1>1, <2>1, JoinersStep DEF ConnectionsIInv
  <2>6. ExpelledIsSilent'
    BY <1>1, SilentStep DEF ConnectionsIInv, AskingInv
  <2>7. (TrackersAreRecent /\ JudgedByTheWindow)'
    BY <1>1, <2>1, BookStep DEF ConnectionsIInv
  <2>8. QED
    BY <2>1, <2>2, <2>3, <2>4, <2>5, <2>6, <2>7 DEF ConnectionsIInv, AskingInv
<1>2. ASSUME ConnectionsIInv, UNCHANGED connectionsVars PROVE ConnectionsIInv'
  <2>. USE <1>2 DEF connectionsVars, externalVars, tableVars, roundVars, gateVars, hostVars
  <2>1. ConnectionsTypeOK'
    BY TypeStep DEF ConnectionsIInv
  <2>2. RoundInv' /\ SilentIsUnheard'
    BY DEF ConnectionsIInv, RoundInv, SilentIsUnheard, NoMessages
  <2>3. AskedOnce' /\ NewWhileAsking'
    BY DEF ConnectionsIInv, AskedOnce, NewWhileAsking, Asks, Announced, Asking, Request, PeerEvent,
           Once, NoDeadline
  <2>4. JoinersAreHeld' /\ ExpelledIsSilent'
    BY DEF ConnectionsIInv, JoinersAreHeld, MemberIsHeld, Held, DepartureQueued, PeerEvent, ExpelledIsSilent,
           NoDeadline, Nobody
  <2>5. TrackersAreRecent' /\ JudgedByTheWindow'
    BY DEF ConnectionsIInv, TrackersAreRecent, JudgedByTheWindow, Dropped, Tracker, WithinWindow
  <2>6. QED
    BY <2>1, <2>2, <2>3, <2>4, <2>5 DEF ConnectionsIInv
<1>3. QED
  BY <1>1, <1>2

LEMMA BooksAgree == ConnectionsIInv => ConnectionsInv
<1>1. ASSUME ConnectionsIInv PROVE ExpelledIsForgotten /\ AdmittedIsNeverOverdue
  <2>1. joined \subseteq Peers
    BY <1>1, TypesSplit DEF ConnectionsIInv, HostTyped
  <2>2. QED
    BY <1>1, <2>1 DEF ConnectionsIInv, ExpelledIsSilent, ExpelledIsForgotten, AdmittedIsNeverOverdue
<1>2. QED
  BY <1>1 DEF ConnectionsIInv, ConnectionsInv, JudgedFairly, JoinersAreHeld

(***************************************************************************)
(* The books of the transport, of the gate and of the Host agree between   *)
(* any two steps of either thread, for any peers, threshold, window and    *)
(* deadline, though any peer may ask to join at any time and as often as   *)
(* it likes: no member is without its connection unless its departure is   *)
(* on its way, or was handled before it joined again (transport_events.cpp *)
(* and host_network.cpp); nothing is kept of a peer expelled;              *)
(* each was expelled for its last misbehaviours being within a window, or  *)
(* for not having been admitted in time; and whoever misbehaved too often  *)
(* within one is gone (peer_gate.cpp, misbehaviour.cpp, admission.cpp).    *)
(***************************************************************************)
THEOREM ConnectionsInvariant == ConnectionsSpec => []ConnectionsInv
<1>1. ConnectionsSpec => []ConnectionsIInv
  BY ConnectionsInitIInv, ConnectionsStep, PTL DEF ConnectionsSpec
<1>2. QED
  BY <1>1, BooksAgree, PTL
=============================================================================
