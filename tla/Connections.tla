---------------------------- MODULE Connections -----------------------------
(***************************************************************************)
(* A peer's connection as the server sees it: the transport's peer table   *)
(* (networking/transport_events.cpp, networking/server.cpp), and the rounds *)
(* in which the Network I/O thread pumps it through the Host's peer gate   *)
(* (host/peer_gate.cpp, admission.cpp, misbehaviour.cpp).                  *)
(*                                                                         *)
(* The gate and the members are guarded by the Host's mutex, which each    *)
(* handler takes; the peer table by the transport's own.  The Simulation   *)
(* thread sends a tick's messages under the transport's alone, and a send  *)
(* that finds a connection's queue full ends it in two steps: the table    *)
(* forgets it under the lock, and it is closed after.                      *)
(*                                                                         *)
(* A peer is one connection.  What GameNetworkingSockets does is external: *)
(* it posts each change of a connection, to be run by the next round, and  *)
(* hands over a connection's messages until it is closed.                  *)
(***************************************************************************)
EXTENDS Naturals, Sequences, SequencesExt, FiniteSets, Subsequences

CONSTANTS
  Peers,
  Threshold,          \* kMisbehaviourThreshold
  Window,             \* kMisbehaviourWindow
  AdmissionDeadline,  \* kAdmissionDeadline
  Purges,             \* whether closing takes back what was posted: a set of BOOLEANs
  Kinds,              \* what peers say: "Join", "Commands", "Odd" (no message at all)
  MaxSaid,            \* bound: how many messages each peer sends
  MaxNow              \* bound: the clock's last reading

ASSUME GateAssumption ==
  /\ Threshold \in Nat \ {0} /\ Window \in Nat \ {0} /\ AdmissionDeadline \in Nat \ {0}
  /\ Purges \subseteq BOOLEAN /\ Kinds \subseteq {"Join", "Commands", "Odd"}
  /\ MaxSaid \in Nat /\ MaxNow \in Nat
  /\ IsFiniteSet(Peers) /\ "nobody" \notin Peers

VARIABLES
  purge,      \* external: whether closing takes back what was posted
  wire,       \* external: the life of each connection
  posted,     \* external: changes posted and not yet run
  inbox,      \* external: what each peer sent and no one received
  said,       \* how many messages each peer sent, for the bound
  pending,    \* pending_
  connected,  \* connected_
  queuedEvents,     \* queued_
  losing,     \* the connection the Simulation thread has lost and not closed
  phase,      \* where the Network I/O thread is in its round
  drained,    \* transport_events, drained and not yet applied
  events,     \* what PumpEvents returned, not yet handled
  received,   \* what Receive returned, not yet handled
  now,        \* the round's reading of the clock
  deadlines,  \* connected_at_
  misbehaviour, \* the recent misbehaviours of each peer judged
  expelled,   \* expelled_: those of this round
  members,    \* the peers that have joined
  joined,     \* history: the peers ever admitted
  left,       \* history: the peers whose departure was handled
  gone,       \* history: why each peer was expelled
  offences    \* history: when each peer misbehaved

externalVars == <<purge, wire, posted, inbox, said>>
tableVars == <<pending, connected, queuedEvents>>
roundVars == <<phase, drained, events, received, now>>
gateVars == <<deadlines, misbehaviour, expelled>>
hostVars == <<members, joined, left, gone, offences>>
connectionsVars == <<externalVars, tableVars, losing, roundVars, gateVars, hostVars>>

Nobody == "nobody"
NoMessages == [p \in Peers |-> <<>>]
NoDeadline == MaxNow + 1

ConnectionsInit ==
  /\ purge \in Purges
  /\ wire = [p \in Peers |-> "none"] /\ posted = <<>>
  /\ inbox = NoMessages /\ said = [p \in Peers |-> 0]
  /\ pending = {} /\ connected = {} /\ queuedEvents = <<>>
  /\ losing = Nobody
  /\ phase = "idle" /\ drained = <<>> /\ events = <<>> /\ received = NoMessages /\ now = 0
  /\ deadlines = [p \in Peers |-> NoDeadline]
  /\ misbehaviour = [p \in {} |-> <<>>]
  /\ expelled = {}
  /\ members = {} /\ joined = {} /\ left = {}
  /\ gone = [p \in Peers |-> "no"]
  /\ offences = NoMessages

-----------------------------------------------------------------------------
(***************************************************************************)
(* The peers and the network.                                              *)
(***************************************************************************)
PeerEvent(p, what) == [peer |-> p, what |-> what]

Posts(p, what) == posted' = Append(posted, PeerEvent(p, what))

PeerConnects(p) ==
  /\ wire[p] = "none"
  /\ wire' = [wire EXCEPT ![p] = "connecting"]
  /\ Posts(p, "connecting")
  /\ UNCHANGED <<purge, inbox, said>>

HandshakeEnds(p) ==
  /\ wire[p] = "accepted"
  /\ wire' = [wire EXCEPT ![p] = "open"]
  /\ Posts(p, "connected")
  /\ UNCHANGED <<purge, inbox, said>>

\* Peers are honest where they are given nothing odd to say: a client of ours
\* asks to join first and once, and sends Commands once it has joined.
Honest == "Odd" \notin Kinds

PeerSays(p, kind) ==
  /\ wire[p] = "open"
  /\ said[p] < MaxSaid
  /\ Honest => (kind = "Join" <=> said[p] = 0) /\ (kind = "Commands" => p \in joined)
  /\ inbox' = [inbox EXCEPT ![p] = Append(@, kind)]
  /\ said' = [said EXCEPT ![p] = @ + 1]
  /\ UNCHANGED <<purge, wire, posted>>

ConnectionEnds(p) ==
  /\ wire[p] \in {"connecting", "accepted", "open"}
  /\ wire' = [wire EXCEPT ![p] = "ended"]
  /\ Posts(p, "ended")
  /\ UNCHANGED <<purge, inbox, said>>

(* CloseConnection: nothing more of it is received. *)
Closes(p) ==
  /\ wire' = [wire EXCEPT ![p] = "closed"]
  /\ inbox' = [inbox EXCEPT ![p] = <<>>]
  /\ posted' = IF purge THEN Subsequence(posted, {i \in DOMAIN posted : posted[i].peer # p})
                         ELSE posted
  /\ UNCHANGED <<purge, said>>

-----------------------------------------------------------------------------
(***************************************************************************)
(* PeerTable.  Forget is of a connection this side closes; Lose also       *)
(* reports it.                                                             *)
(***************************************************************************)
Forgets(p) == pending' = pending \ {p} /\ connected' = connected \ {p}

(* Mutant: a lost connection is closed like any other. *)
MutReportsNoLoss(p) == queuedEvents

ReportsLoss(p) == Append(queuedEvents, PeerEvent(p, "kDisconnected"))

Loses(p) == Forgets(p) /\ queuedEvents' = ReportsLoss(p)

(***************************************************************************)
(* The Simulation thread sends to the players: a full queue ends one's     *)
(* connection, which is closed once the lock is let go.                    *)
(***************************************************************************)
SimulationLoses(p) ==
  /\ losing = Nobody
  /\ p \in members \cap connected
  /\ Loses(p)
  /\ losing' = p
  /\ UNCHANGED <<externalVars, roundVars, gateVars, hostVars>>

SimulationCloses ==
  /\ losing # Nobody
  /\ Closes(losing)
  /\ losing' = Nobody
  /\ UNCHANGED <<tableVars, roundVars, gateVars, hostVars>>

(* A send of the Network I/O thread, from one of its handlers. *)
NetworkLoses(p) ==
  /\ phase \in {"events", "messages"}
  /\ p \in connected
  /\ Loses(p)
  /\ Closes(p)
  /\ UNCHANGED <<losing, roundVars, gateVars, hostVars>>

-----------------------------------------------------------------------------
(***************************************************************************)
(* A round.  PumpEvents publishes what is posted, drains it and applies    *)
(* each change, then takes what the table queued and who waits to be       *)
(* accepted.                                                               *)
(***************************************************************************)
StartRound ==
  /\ phase = "idle"
  /\ now' \in {now, now + 1} /\ now' <= MaxNow
  /\ phase' = "apply"
  /\ drained' = posted /\ posted' = <<>>
  /\ UNCHANGED <<purge, wire, inbox, said, tableVars, losing, events, received, gateVars, hostVars>>

Applying(what) ==
  /\ phase = "apply" /\ drained # <<>>
  /\ Head(drained).what = what
  /\ drained' = Tail(drained)
  /\ UNCHANGED <<purge, posted, said, losing, phase, events, received, now, gateVars, hostVars>>

ApplyConnecting ==
  /\ Applying("connecting")
  /\ pending' = pending \cup {Head(drained).peer}
  /\ UNCHANGED <<wire, inbox, connected, queuedEvents>>

(* A connection that is gone cannot join the poll group: it is lost.       *)
ApplyConnected ==
  LET p == Head(drained).peer IN
  /\ Applying("connected")
  /\ pending' = pending \ {p}
  /\ \/ /\ wire[p] # "closed"
        /\ connected' = connected \cup {p}
        /\ queuedEvents' = Append(queuedEvents, PeerEvent(p, "kConnected"))
     \/ /\ wire[p] = "closed"
        /\ connected' = connected \ {p}
        /\ queuedEvents' = queuedEvents \o <<PeerEvent(p, "kConnected"), PeerEvent(p, "kDisconnected")>>
  /\ UNCHANGED <<wire, inbox>>

ApplyEnded ==
  LET p == Head(drained).peer IN
  /\ Applying("ended")
  /\ Forgets(p)
  /\ queuedEvents' = Append(queuedEvents, PeerEvent(p, "kDisconnected"))
  /\ wire' = [wire EXCEPT ![p] = "closed"]
  /\ inbox' = [inbox EXCEPT ![p] = <<>>]

TakeEvents ==
  /\ phase = "apply" /\ drained = <<>>
  /\ \E requests \in SetToSeqs(pending) :
       events' = queuedEvents \o [i \in DOMAIN requests |-> PeerEvent(requests[i], "kConnectRequested")]
  /\ queuedEvents' = <<>>
  /\ phase' = "events"
  /\ UNCHANGED <<externalVars, pending, connected, losing, drained, received, now, gateVars, hostVars>>

(***************************************************************************)
(* HandleDisconnect: the gate forgets the peer, and a member leaves.       *)
(***************************************************************************)
Left(p) ==
  /\ misbehaviour' = [q \in DOMAIN misbehaviour \ {p} |-> misbehaviour[q]]
  /\ deadlines' = [deadlines EXCEPT ![p] = NoDeadline]

HandleDisconnect(p) ==
  /\ Left(p)
  /\ members' = members \ {p}
  /\ left' = left \cup {p}

HandlingEvent(what) ==
  /\ phase = "events" /\ events # <<>>
  /\ Head(events).what = what
  /\ events' = Tail(events)
  /\ UNCHANGED <<purge, posted, inbox, said, queuedEvents, losing, phase, drained, received, now>>

(* Accept, of a connection that may have ended since. *)
HandleConnectRequested ==
  LET p == Head(events).peer IN
  /\ HandlingEvent("kConnectRequested")
  /\ pending' = pending \ {p}
  /\ wire' = [wire EXCEPT ![p] = IF @ = "connecting" THEN "accepted" ELSE @]
  /\ deadlines' = [deadlines EXCEPT ![p] = now]
  /\ UNCHANGED <<connected, misbehaviour, expelled, hostVars>>

HandleConnected ==
  /\ HandlingEvent("kConnected")
  /\ UNCHANGED <<wire, pending, connected, gateVars, hostVars>>

HandleDisconnected ==
  LET p == Head(events).peer IN
  /\ HandlingEvent("kDisconnected")
  /\ HandleDisconnect(p)
  /\ UNCHANGED <<wire, pending, connected, expelled, joined, gone, offences>>

-----------------------------------------------------------------------------
(***************************************************************************)
(* Receive hands over everything sent on the connections of the poll       *)
(* group, those lost and not yet closed included; or the local transport   *)
(* fails, and the runtime stops.                                           *)
(***************************************************************************)
Heard == connected \cup (Peers \cap {losing})

Receive ==
  /\ phase = "events" /\ events = <<>>
  /\ phase' = "messages"
  /\ received' = [p \in Peers |-> IF p \in Heard THEN inbox[p] ELSE <<>>]
  /\ inbox' = [p \in Peers |-> IF p \in Heard THEN <<>> ELSE inbox[p]]
  /\ UNCHANGED <<purge, wire, posted, said, tableVars, losing, drained, events, now, gateVars, hostVars>>

ReceiveFails ==
  /\ phase = "events" /\ events = <<>>
  /\ phase' = "stopped"
  /\ UNCHANGED <<externalVars, tableVars, losing, drained, events, received, now, gateVars, hostVars>>

(***************************************************************************)
(* Expel: Disconnect forgets and closes the connection, and the peer       *)
(* leaves here.                                                            *)
(***************************************************************************)
Expel(p, why) ==
  /\ expelled' = expelled \cup {p}
  /\ Forgets(p) /\ UNCHANGED queuedEvents
  /\ Closes(p)
  /\ HandleDisconnect(p)
  /\ gone' = [gone EXCEPT ![p] = why]

(***************************************************************************)
(* Judge.  Every rejection asks for the peer's tracker, which is made for  *)
(* it; a misbehaviour is kept while it is recent, and too many disconnect. *)
(***************************************************************************)
Tracker(p) == IF p \in DOMAIN misbehaviour THEN misbehaviour[p] ELSE <<>>

(* Mutant: a misbehaviour as old as the window still counts. *)
MutIsRecent(then) == now - then <= Window

IsRecent(then) == now - then < Window

(* How many at the front are no longer recent: the first recent one stops it. *)
Stale(times) ==
  CHOOSE k \in 0 .. Len(times) :
    /\ \A i \in 1 .. k : ~IsRecent(times[i])
    /\ k = Len(times) \/ IsRecent(times[k + 1])

Recent(p) == Append(SubSeq(Tracker(p), Stale(Tracker(p)) + 1, Len(Tracker(p))), now)

Tracks(p, recent) ==
  misbehaviour' = [q \in DOMAIN misbehaviour \cup {p} |->
                     IF q = p THEN recent ELSE misbehaviour[q]]

TooMany(p) == Len(Recent(p)) >= Threshold

Misbehaves(p) ==
  /\ offences' = [offences EXCEPT ![p] = Append(@, now)]
  /\ \/ /\ ~TooMany(p)
        /\ Tracks(p, Recent(p))
        /\ UNCHANGED <<externalVars, tableVars, deadlines, expelled, members, left, gone>>
     \/ /\ TooMany(p)
        /\ Expel(p, "misbehaving")
  /\ UNCHANGED joined

(* A routine rejection, which never counts. *)
Routine(p) ==
  /\ Tracks(p, Tracker(p))
  /\ UNCHANGED <<externalVars, tableVars, deadlines, expelled, hostVars>>

(* Admitted: its deadline ends. *)
WithoutDeadline(p) == [deadlines EXCEPT ![p] = NoDeadline]

Admitted(p) ==
  /\ members' = members \cup {p} /\ joined' = joined \cup {p}
  /\ deadlines' = WithoutDeadline(p)
  /\ UNCHANGED <<externalVars, tableVars, misbehaviour, expelled, left, gone, offences>>

WasExpelled(p) == p \in expelled

Ignored == UNCHANGED <<externalVars, tableVars, gateVars, hostVars>>

HandleMessage(p) ==
  /\ phase = "messages"
  /\ received[p] # <<>>
  /\ received' = [received EXCEPT ![p] = Tail(@)]
  /\ LET kind == Head(received[p]) IN
     \/ WasExpelled(p) /\ Ignored
     \/ /\ ~WasExpelled(p)
        /\ \/ kind = "Join" /\ (Admitted(p) \/ Routine(p))
           \/ kind = "Commands" /\ p \in members /\ (Ignored \/ Routine(p))
           \/ kind = "Commands" /\ p \notin members /\ Misbehaves(p)
           \/ kind = "Odd" /\ Misbehaves(p)
  /\ UNCHANGED <<losing, phase, drained, events, now>>

(***************************************************************************)
(* After the messages, the peers past their deadline are expelled, and the *)
(* round ends.                                                             *)
(***************************************************************************)
(* Mutant: only connected peers have a deadline. *)
MutOverdue(p) ==
  p \in connected /\ deadlines[p] <= now /\ now - deadlines[p] >= AdmissionDeadline

Overdue(p) == deadlines[p] <= now /\ now - deadlines[p] >= AdmissionDeadline

AllHandled == phase = "messages" /\ received = NoMessages

ExpelOverdue(p) ==
  /\ AllHandled
  /\ Overdue(p)
  /\ Expel(p, "overdue")
  /\ UNCHANGED <<losing, roundVars, joined, offences>>

EndRound ==
  /\ AllHandled
  /\ \A p \in Peers : ~Overdue(p)
  /\ expelled' = {}
  /\ phase' = "idle"
  /\ UNCHANGED <<externalVars, tableVars, losing, drained, events, received, now, deadlines,
                 misbehaviour, hostVars>>

-----------------------------------------------------------------------------
RoundStep ==
  \/ StartRound \/ ApplyConnecting \/ ApplyConnected \/ ApplyEnded \/ TakeEvents
  \/ HandleConnectRequested \/ HandleConnected \/ HandleDisconnected
  \/ Receive \/ ReceiveFails
  \/ (\E p \in Peers : HandleMessage(p) \/ ExpelOverdue(p)) \/ EndRound

ExternalStep ==
  /\ \E p \in Peers :
       \/ PeerConnects(p) \/ HandshakeEnds(p) \/ ConnectionEnds(p)
       \/ \E kind \in Kinds : PeerSays(p, kind)
  /\ UNCHANGED <<tableVars, losing, roundVars, gateVars, hostVars>>

ConnectionsNext ==
  \/ RoundStep \/ ExternalStep \/ SimulationCloses
  \/ \E p \in Peers : SimulationLoses(p) \/ NetworkLoses(p)

ConnectionsSpec == ConnectionsInit /\ [][ConnectionsNext]_connectionsVars

(***************************************************************************)
(* The Network I/O thread's rounds go on until the runtime stops, the      *)
(* clock goes on (to its bound, past every deadline that matters), and the *)
(* Simulation thread closes what it lost.                                  *)
(***************************************************************************)
ConnectionsFairSpec ==
  /\ ConnectionsSpec
  /\ WF_connectionsVars(RoundStep) /\ SF_connectionsVars(StartRound /\ now' # now)
  /\ WF_connectionsVars(SimulationCloses)

-----------------------------------------------------------------------------
(***************************************************************************)
(* The type invariant.                                                     *)
(***************************************************************************)
Events(what) == Seq([peer : Peers, what : what])

ConnectionsTypeOK ==
  /\ purge \in BOOLEAN
  /\ wire \in [Peers -> {"none", "connecting", "accepted", "open", "ended", "closed"}]
  /\ posted \in Events({"connecting", "connected", "ended"})
  /\ drained \in Events({"connecting", "connected", "ended"})
  /\ {inbox, received} \subseteq [Peers -> Seq(Kinds)]
  /\ said \in [Peers -> 0 .. MaxSaid]
  /\ pending \subseteq Peers /\ connected \subseteq Peers
  /\ queuedEvents \in Events({"kConnected", "kDisconnected"})
  /\ losing \in Peers \cup {Nobody}
  /\ phase \in {"idle", "apply", "events", "messages", "stopped"}
  /\ events \in Events({"kConnectRequested", "kConnected", "kDisconnected"})
  /\ now \in 0 .. MaxNow
  /\ deadlines \in [Peers -> 0 .. NoDeadline]
  /\ DOMAIN misbehaviour \subseteq Peers
  /\ \A p \in DOMAIN misbehaviour :
       misbehaviour[p] \in Seq(0 .. MaxNow) /\ Len(misbehaviour[p]) < Threshold
  /\ \A set \in {expelled, members, joined, left} : set \subseteq Peers
  /\ gone \in [Peers -> {"no", "misbehaving", "overdue"}]
  /\ offences \in [Peers -> Seq(0 .. MaxNow)]

(***************************************************************************)
(* No member is left behind by its connection untold: the transport still  *)
(* sends to it, or its departure is on its way to the Host, or was handled *)
(* before it joined again.  Lose, in transport_events.cpp, queues the      *)
(* departure before the connection is closed, since closing it here makes  *)
(* the transport report none.                                              *)
(***************************************************************************)
DepartureQueued(p) == PeerEvent(p, "kDisconnected") \in ToSet(queuedEvents) \cup ToSet(events)

MemberIsHeld == \A p \in members : p \in connected \/ DepartureQueued(p) \/ p \in left

(***************************************************************************)
(* Nothing is kept of an expelled peer, though more of what it sent is     *)
(* handled in the round it was expelled in (PumpPeers asks WasExpelled     *)
(* before each message, EndRound forgets it).                              *)
(***************************************************************************)
ExpelledIsForgotten ==
  \A p \in Peers :
    gone[p] # "no" => p \notin members \cup DOMAIN misbehaviour /\ deadlines[p] = NoDeadline

(***************************************************************************)
(* The sliding window of MisbehaviourTracker::Record, against all a peer   *)
(* ever did: one is expelled for its last kMisbehaviourThreshold           *)
(* misbehaviours being within kMisbehaviourWindow, and none whose          *)
(* connection goes on ever did that.                                       *)
(***************************************************************************)
WithinWindow(times, last) ==
  last >= Threshold /\ times[last] - times[last - Threshold + 1] < Window

JudgedByTheWindow ==
  \A p \in Peers :
    /\ gone[p] = "misbehaving" => WithinWindow(offences[p], Len(offences[p]))
    /\ p \notin left => \A last \in DOMAIN offences[p] : ~WithinWindow(offences[p], last)

(***************************************************************************)
(* A peer that was ever admitted is never expelled for not being admitted  *)
(* in time, whichever of its admission, its departure and its deadline     *)
(* comes first (PeerGate::Admitted, Left and TakeOverdue).                 *)
(***************************************************************************)
AdmittedIsNeverOverdue == \A p \in joined : gone[p] # "overdue"

(***************************************************************************)
(* A peer is expelled for what it did, or for what it never did in time,   *)
(* and for nothing else (PeerGate::Misbehaved and TakeOverdue).            *)
(***************************************************************************)
JudgedFairly == JudgedByTheWindow /\ AdmittedIsNeverOverdue

(***************************************************************************)
(* The books of the transport, the gate and the Host between any two steps *)
(* of either thread: no member whose connection ended with nobody told,    *)
(* nothing of a peer expelled (transport_events.cpp, peer_gate.cpp), and   *)
(* none expelled but for a reason.                                         *)
(***************************************************************************)
ConnectionsInv ==
  ConnectionsTypeOK /\ MemberIsHeld /\ ExpelledIsForgotten /\ JudgedFairly

(***************************************************************************)
(* A peer that goes on talking without being admitted does not stay: each  *)
(* accepted connection is admitted or ends (TakeOverdue), if time goes on  *)
(* and the runtime does.  Those accepted too near the clock's bound to be  *)
(* due within it are left out.                                             *)
(***************************************************************************)
NobodyIdles ==
  \A p \in Peers :
    deadlines[p] + AdmissionDeadline <= MaxNow ~> deadlines[p] = NoDeadline \/ phase = "stopped"

(***************************************************************************)
(* A member whose connection ended, from either side, is told to the Host: *)
(* by its departure being reported or by being expelled (PumpPeers).       *)
(***************************************************************************)
DeparturesAreTold ==
  \A p \in Peers :
    p \in members /\ wire[p] \in {"ended", "closed"} ~> p \in left \/ phase = "stopped"

-----------------------------------------------------------------------------
(***************************************************************************)
(* What the repository says and the code does not do.                      *)
(***************************************************************************)

(***************************************************************************)
(* misbehaviour.h, of kMisbehaviourThreshold: "An honest client sends      *)
(* none, whatever its latency and loss".  Kinds must hold no "Odd".        *)
(***************************************************************************)
HonestNeverMisbehaves == \A p \in Peers : offences[p] = <<>>
=============================================================================
