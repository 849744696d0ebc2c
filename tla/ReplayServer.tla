----------------------------- MODULE ReplayServer -----------------------------
(***************************************************************************)
(* A replay server (host/replay_server.cpp): the Network I/O thread        *)
(* answers requests, letting the lock go to read a capture and to build a  *)
(* World, while the Simulation thread steps the Replays of the viewers it  *)
(* found under the lock, without it, and closes those that ended.  Its     *)
(* captures are those its catalog (host/replay_catalog.cpp) finds in a     *)
(* directory a live server may be writing into.                            *)
(*                                                                         *)
(* The peers' connections and the gate are those of Connections: here each *)
(* peer's is open to begin with, and it may be judged or be overdue at any *)
(* time.  A Replay is the number of ticks it has left.                     *)
(***************************************************************************)
EXTENDS Naturals, Sequences, FiniteSets, SequencesExt, FiniteSetsExt

CONSTANTS
  Askers,        \* the peers connected
  Names,     \* names of files in the directory
  MaxViewers,    \* ReplayServerConfig::max_viewers
  ReplayTicks,   \* how many ticks a capture lasts
  MaxAsked,      \* bound: messages of a peer
  MaxWrites      \* bound: how often the directory changes

ASSUME ReplayServerAssumption ==
  /\ IsFiniteSet(Askers)
  /\ {MaxViewers, ReplayTicks} \subseteq Nat \ {0} /\ MaxAsked \in Nat /\ MaxWrites \in Nat

VARIABLES
  connection,    \* external: "open", "lost", or "closed"
  sending,       \* external: what each peer sent and no one received
  asks,          \* how many messages each peer sent, for the bound
  directory,     \* external: the capture files, each replayable here or not, and when written
  writes,        \* how often the directory was written, for the bound
  read,          \* ReplayCatalog::read_
  round,         \* the Network I/O thread: where it is, each peer's messages it has yet
                 \* to handle, and whose it is at with the lock let go
  viewers,       \* viewers: each one's Replay
  dismissed,     \* PeerGate::expelled_
  gauge,         \* metrics.replays
  watching,      \* Tick: the viewers it has yet to step
  atEnd,         \* Tick: those whose Replay ended
  ticking,       \* whether a Tick is under way
  heard          \* history: what each peer was sent of a list or a Replay

networkVars == <<connection, sending, asks>>
catalogVars == <<directory, writes, read>>
replaysVars == <<viewers, dismissed, gauge>>
tickVars == <<watching, atEnd, ticking>>
replayServerVars == <<networkVars, catalogVars, round, replaysVars, tickVars, heard>>

ReplayServerInit ==
  /\ connection = [p \in Askers |-> "open"]
  /\ sending = [p \in Askers |-> <<>>] /\ asks = [p \in Askers |-> 0]
  /\ directory = [name \in Names |-> [replayable |-> TRUE, written |-> 0]] /\ writes = 0
  /\ read = [name \in {} |-> <<>>]
  /\ round = [at |-> "idle", batch |-> [p \in Askers |-> <<>>], of |-> {}, listed |-> {}]
  /\ viewers = [p \in {} |-> 0] /\ dismissed = {} /\ gauge = 0
  /\ watching = {} /\ atEnd = {} /\ ticking = FALSE
  /\ heard = [p \in Askers |-> <<>>]

-----------------------------------------------------------------------------
(***************************************************************************)
(* The peers, and whoever writes captures.                                 *)
(***************************************************************************)
Asks(p, what) ==
  /\ connection[p] = "open" /\ asks[p] < MaxAsked
  /\ sending' = [sending EXCEPT ![p] = Append(@, what)]
  /\ asks' = [asks EXCEPT ![p] = @ + 1]
  /\ UNCHANGED connection

LosesConnection(p) ==
  /\ connection[p] = "open"
  /\ connection' = [connection EXCEPT ![p] = "lost"]
  /\ UNCHANGED <<sending, asks>>

OutsideStep ==
  /\ \/ /\ \E p \in Askers :
             LosesConnection(p) \/ \E what \in {"list", "replay", "join"} : Asks(p, what)
        /\ UNCHANGED <<directory, writes>>
     \/ /\ writes < MaxWrites /\ writes' = writes + 1
        \* bound: right before the directory is looked at
        /\ round.at = "messages"
        /\ \E p \in Askers \ (dismissed \cup DOMAIN viewers) :
             round.batch[p] # <<>> /\ Head(round.batch[p]) \in {"list", "replay"}
        /\ \E name \in Names, replayable \in BOOLEAN :
             \/ directory' = [n \in DOMAIN directory \cup {name} |->
                                IF n = name THEN [replayable |-> replayable, written |-> writes'] ELSE directory[n]]
             \/ directory' = [n \in DOMAIN directory \ {name} |-> directory[n]]
        /\ UNCHANGED networkVars
  /\ UNCHANGED <<read, round, replaysVars, tickVars, heard>>

-----------------------------------------------------------------------------
(***************************************************************************)
(* ReplayCatalog: List reads the files that are new or written since it    *)
(* last did, and forgets those gone; Find always reads.                    *)
(***************************************************************************)

StillKnown(name) == name \in DOMAIN read /\ read[name].written = directory[name].written

AfterList == [name \in DOMAIN directory |-> IF StillKnown(name) THEN read[name] ELSE directory[name]]

Listed == {name \in DOMAIN directory : AfterList[name].replayable}

Found(name) == name \in DOMAIN directory /\ directory[name].replayable

-----------------------------------------------------------------------------
(***************************************************************************)
(* What is done with a peer with the lock held.                            *)
(***************************************************************************)
Sent(p, what) == [heard EXCEPT ![p] = IF connection[p] = "closed" THEN @ ELSE Append(@, what)]

Forget(gone) ==
  /\ viewers' = [p \in DOMAIN viewers \ gone |-> viewers[p]]
  /\ gauge' = Cardinality(DOMAIN viewers')

(* Close: the transport reports no departure of a connection closed here.  *)
CloseAll(peers) ==
  /\ connection' = [p \in Askers |-> IF p \in peers THEN "closed" ELSE connection[p]]
  /\ sending' = [p \in Askers |-> IF p \in peers THEN <<>> ELSE sending[p]]
  /\ Forget(peers)
  /\ UNCHANGED asks

Dismiss(peers) == CloseAll(peers) /\ dismissed' = dismissed \cup peers

(***************************************************************************)
(* A round of PumpNetwork: the departures, then the messages received, in  *)
(* the order they arrived in whoever sent them: each peer's in its own.    *)
(***************************************************************************)
PumpBegins ==
  /\ round.at = "idle"
  /\ LET lost == {p \in Askers : connection[p] = "lost"} IN
     /\ Forget(lost)
     /\ connection' = [p \in Askers |-> IF p \in lost THEN "closed" ELSE connection[p]]
     /\ round' = [round EXCEPT !.at = "messages",
                               !.batch = [p \in Askers |-> IF p \in lost THEN <<>> ELSE sending[p]]]
     /\ sending' = [p \in Askers |-> <<>>]
  /\ UNCHANGED <<asks, catalogVars, dismissed, tickVars, heard>>

Receiving(p, at, what) ==
  /\ round.at = at /\ round.of \subseteq {p}
  /\ round.batch[p] # <<>> /\ Head(round.batch[p]) = what
  /\ p \notin dismissed
  /\ UNCHANGED <<directory, writes, tickVars>>

NextMessage(p) ==
  round' = [at |-> "messages", batch |-> [round.batch EXCEPT ![p] = Tail(@)], of |-> {}, listed |-> {}]

IgnoreExpelled(p) ==
  /\ round.at = "messages" /\ round.batch[p] # <<>>
  /\ p \in dismissed
  /\ NextMessage(p)
  /\ UNCHANGED <<networkVars, catalogVars, replaysVars, tickVars, heard>>

(* Judge: it may be once too often. *)
Judged(p) ==
  \/ UNCHANGED <<networkVars, replaysVars>>
  \/ Dismiss({p})

(* What a viewer sends, or one that asks to play. *)
Drop(p) ==
  /\ round.at = "messages"
  /\ \E what \in {"list", "replay", "join"} :
       /\ Receiving(p, "messages", what)
       /\ p \in DOMAIN viewers
  /\ Judged(p) /\ NextMessage(p)
  /\ UNCHANGED <<read, heard>>

RefuseToPlay(p) ==
  /\ Receiving(p, "messages", "join")
  /\ p \notin DOMAIN viewers
  /\ Judged(p) /\ NextMessage(p)
  /\ UNCHANGED <<read, heard>>

(* HandleReplayListRequest: the directory is looked at with the lock let go. *)
LookAtDirectory(p) ==
  /\ Receiving(p, "messages", "list")
  /\ p \notin DOMAIN viewers
  /\ read' = AfterList
  /\ round' = [round EXCEPT !.at = "listed", !.of = {p}, !.listed = {Listed, {n \in DOMAIN directory : Found(n)}}]
  /\ UNCHANGED <<networkVars, replaysVars, heard>>

AnswerList(p) ==
  /\ Receiving(p, "listed", "list")
  /\ heard' = Sent(p, "list")
  /\ Dismiss({p}) /\ NextMessage(p)
  /\ UNCHANGED read

(* HandleReplayRequest: the capture is found, and the World built, with    *)
(* the lock let go; between the two it is asked whether there is room.     *)
RefuseReplay(p, at) ==
  /\ Receiving(p, at, "replay")
  /\ Judged(p) /\ NextMessage(p)
  /\ UNCHANGED <<read, heard>>

(* Mutant: one viewer more than the most. *)
MutHasRoom == Cardinality(DOMAIN viewers) <= MaxViewers

HasRoom == Cardinality(DOMAIN viewers) < MaxViewers

FindCapture(p) ==
  /\ Receiving(p, "messages", "replay")
  /\ p \notin DOMAIN viewers
  /\ \E name \in Names :
       round' = [round EXCEPT !.at = IF Found(name) THEN "found" ELSE "unknown", !.of = {p}]
  /\ UNCHANGED <<networkVars, read, replaysVars, heard>>

BuildWorld(p) ==
  /\ Receiving(p, "found", "replay")
  /\ HasRoom
  /\ round' = [round EXCEPT !.at = "built"]
  /\ UNCHANGED <<networkVars, read, replaysVars, heard>>

Admit(p) ==
  /\ Receiving(p, "built", "replay")
  /\ heard' = [heard EXCEPT ![p] = @ \o <<"accepted", "start">>]
  /\ viewers' = [q \in DOMAIN viewers \cup {p} |-> IF q = p THEN ReplayTicks ELSE viewers[q]]
  /\ gauge' = Cardinality(DOMAIN viewers')
  /\ NextMessage(p)
  /\ UNCHANGED <<networkVars, dismissed, read>>

RefusesReplay(p) ==
  \/ RefuseReplay(p, "messages") /\ p \notin DOMAIN viewers
  \/ RefuseReplay(p, "unknown")
  \/ RefuseReplay(p, "found") /\ ~HasRoom

(* After the messages, whoever was not admitted in time is expelled, and   *)
(* the round ends.                                                         *)
PumpEnds ==
  /\ round.at = "messages" /\ \A p \in Askers : round.batch[p] = <<>>
  /\ \E overdue \in SUBSET {p \in Askers \ DOMAIN viewers : connection[p] = "open"} : CloseAll(overdue)
  /\ dismissed' = {}
  /\ round' = [round EXCEPT !.at = "idle"]
  /\ UNCHANGED <<catalogVars, tickVars, heard>>

PumpStep ==
  \/ PumpBegins \/ PumpEnds
  \/ \E p \in Askers :
       \/ IgnoreExpelled(p) \/ Drop(p) \/ RefuseToPlay(p) \/ LookAtDirectory(p) \/ AnswerList(p)
       \/ FindCapture(p) \/ BuildWorld(p) \/ Admit(p) \/ RefusesReplay(p)

-----------------------------------------------------------------------------
(***************************************************************************)
(* Tick.  A viewer may be forgotten while its Replay is stepped.           *)
(***************************************************************************)
TickBegins ==
  /\ ~ticking
  /\ ticking' = TRUE
  /\ watching' = {<<p, viewers[p]>> : p \in DOMAIN viewers}
  /\ UNCHANGED <<networkVars, catalogVars, round, replaysVars, atEnd, heard>>

EndsWith(left) == left = 0

(* TickViewer: the tick's messages, and on the last one the Match end. *)
TickViewer(viewer) ==
  LET p == viewer[1]  left == viewer[2] - 1 IN
  /\ viewer \in watching
  /\ watching' = watching \ {viewer}
  /\ viewers' = IF p \in DOMAIN viewers THEN [viewers EXCEPT ![p] = left] ELSE viewers
  /\ heard' = IF connection[p] = "closed" THEN heard
              ELSE [heard EXCEPT ![p] = @ \o IF EndsWith(left) THEN <<"tick", "end">> ELSE <<"tick">>]
  /\ atEnd' = IF EndsWith(left) THEN atEnd \cup {p} ELSE atEnd
  /\ UNCHANGED <<networkVars, catalogVars, round, dismissed, gauge, ticking>>

TickEnds ==
  /\ ticking /\ watching = {}
  /\ ticking' = FALSE
  /\ Dismiss(atEnd \cap DOMAIN viewers)
  /\ atEnd' = {}
  /\ UNCHANGED <<catalogVars, round, watching, heard>>

TickStep == TickBegins \/ TickEnds \/ \E viewer \in watching : TickViewer(viewer)

ReplayServerNext == OutsideStep \/ PumpStep \/ TickStep

ReplayServerSpec == ReplayServerInit /\ [][ReplayServerNext]_replayServerVars

-----------------------------------------------------------------------------
Ticks == [i \in 1 .. ReplayTicks |-> "tick"]

(***************************************************************************)
(* What the two threads do between them never goes past the bound on       *)
(* viewers, though the lock is let go between asking for room and taking   *)
(* it; each viewer hears of its Replay in order and in whole, from Join    *)
(* accepted and Match start, whatever tick is under way, to the Match end, *)
(* and nothing after; no one is a viewer whose connection was closed here; *)
(* and a list is of the captures there when the directory was looked at.   *)
(***************************************************************************)
ReplayServerInv ==
  /\ Cardinality(DOMAIN viewers) <= MaxViewers /\ gauge = Cardinality(DOMAIN viewers)
  /\ \A p \in Askers :
       /\ \/ heard[p] = <<"list">>
          \/ IsPrefix(heard[p], <<"accepted", "start">> \o Ticks \o <<"end">>)
       /\ p \in DOMAIN viewers => connection[p] # "closed"
  /\ Cardinality(round.listed) <= 1
=============================================================================
