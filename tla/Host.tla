-------------------------------- MODULE Host --------------------------------
(***************************************************************************)
(* The server's Host (host/host.cpp, host_network.cpp, host_match.cpp):    *)
(* the Network I/O thread pumps events and messages, each handled under    *)
(* the Host's mutex, while the Simulation thread runs ticks.  A tick takes *)
(* the mutex twice, in PrepareTick and in Act; simulation.Tick and the     *)
(* tick's sends run without it, so any handler may run between the two.    *)
(*                                                                         *)
(* Around the Match it keeps the Player of each session (its peer and      *)
(* command queue), the body of each player in the simulation, whether a    *)
(* match is still in the simulation, and the winner of the last one.  The  *)
(* Capturer's calls are kept as the capture of the match simulated.        *)
(*                                                                         *)
(* The Link is a reliable, ordered stream each way per connection, which   *)
(* may end at any time.  Commands are unreliable, so each arrives, or not, *)
(* at any time (what becomes of their sequences is CommandDelivery's); a   *)
(* command queue is empty or holds a command, tagged with the match it was *)
(* taken in during.  The tick's own messages are left out.                 *)
(***************************************************************************)
EXTENDS Match, Sequences, Functions, TLC

VARIABLES
  conn,        \* what the transport knows of each peer's connection
  toServer,    \* reliable messages on their way from each peer
  toClient,    \* reliable messages on their way to each peer
  players,     \* Player of each session: its peer and command queue
  bodies,      \* the entity of each session with a body in the simulation
  simulating,  \* simulating_match
  matchId,     \* match_id
  matchWinner, \* match_winner
  policy,      \* whether Game policy ended the match the simulation runs
  simThread,   \* where the Simulation thread is in Host::Tick
  action,      \* the winner of the policy action of the tick
  capture,     \* what the Capturer was told of the match in the simulation
  told,        \* history: the winner the match's players were told of
  failed       \* Failed(): a transport or invariant failure was recorded

linkVars == <<conn, toServer, toClient>>
simVars == <<bodies, simulating, policy, simThread, action, capture>>
hostVars == <<matchVars, linkVars, players, simVars, matchId, matchWinner, told, failed>>

NoCapture == [open |-> FALSE, entrants |-> <<>>, left |-> <<>>, winner |-> None]

HostInit ==
  /\ MatchInit
  /\ conn = [p \in Peers |-> "none"]
  /\ toServer = [p \in Peers |-> <<>>]
  /\ toClient = [p \in Peers |-> <<>>]
  /\ players = <<>>
  /\ bodies = <<>>
  /\ simulating = FALSE
  /\ matchId = None
  /\ matchWinner = None
  /\ told = None
  /\ policy = "playing"
  /\ simThread = "idle"
  /\ action = None
  /\ capture = NoCapture
  /\ failed = FALSE

-----------------------------------------------------------------------------
(***************************************************************************)
(* Sends.  Deliver drops a message once the runtime has failed, and the    *)
(* transport one to a connection that is ending.                           *)
(***************************************************************************)
Delivered(streams, to, message) ==
  [p \in Peers |-> IF p \in to /\ conn[p] = "open" /\ ~failed
                   THEN Append(streams[p], message) ELSE streams[p]]

Reply(p, message) == toClient' = Delivered(toClient, {p}, message)

PeersOf(sessions) == {players[s].peer : s \in sessions}

AdmissionMessage(s) == [type |-> "Admission", session |-> s]
RefusalMessage(r) == [type |-> "Refusal", reason |-> r]
LobbyMessage(version, roster) ==
  [type |-> "Lobby", version |-> version, roster |-> roster]
MatchStartMessage(id, sessions) ==
  [type |-> "MatchStart", match |-> id, players |-> sessions]
MatchEndMessage(winner) == [type |-> "MatchEnd", winner |-> winner]

(***************************************************************************)
(* The transport's side of a connection: the peer connects, and either end *)
(* or the network may end it, which the Network I/O thread hears of later. *)
(***************************************************************************)
Connect(p, request) ==
  /\ conn[p] = "none"
  /\ conn' = [conn EXCEPT ![p] = "open"]
  /\ toServer' = [toServer EXCEPT ![p] = <<request>>]
  /\ UNCHANGED <<matchVars, toClient, players, simVars, matchId, matchWinner, told, failed>>

ConnectionEnds(p) ==
  /\ conn[p] = "open"
  /\ conn' = [conn EXCEPT ![p] = "ending"]
  /\ toClient' = [toClient EXCEPT ![p] = <<>>]
  /\ UNCHANGED <<matchVars, toServer, players, simVars, matchId, matchWinner, told, failed>>

(* A send or a receive met a local transport failure, or a message could   *)
(* not be encoded: nothing is sent from here on, and the runtime stops.    *)
RecordFailure ==
  /\ ~failed
  /\ failed' = TRUE
  /\ UNCHANGED <<matchVars, linkVars, players, simVars, matchId, matchWinner, told>>

-----------------------------------------------------------------------------
(***************************************************************************)
(* HandleDisconnect: a player whose connection ended leaves at once; a     *)
(* body it had leaves the simulation at the start of the next tick.        *)
(***************************************************************************)
Closed(p) ==
  /\ conn' = [conn EXCEPT ![p] = "closed"]
  /\ toServer' = [toServer EXCEPT ![p] = <<>>]

(* Mutant: the Player of a session that left stays. *)
MutWithoutPlayerKept(p) == players

WithoutPlayer(p) == Restrict(players, DOMAIN players \ {session[p]})

(* Mutant: a departure is told to no one. *)
MutToRosterNobody(p) == {}

ToRoster(p) == PeersOf(SessionsOf(members \ {p})) \ {p}

HandleDisconnect(p) ==
  \/ /\ p \notin members
     /\ toClient' = [toClient EXCEPT ![p] = <<>>]
     /\ UNCHANGED <<matchVars, players, matchWinner>>
  \/ /\ LeaveLobby(p)
     /\ players' = WithoutPlayer(p)
     /\ toClient' = Delivered([toClient EXCEPT ![p] = <<>>], ToRoster(p),
                      LobbyMessage(rosterVersion', SessionsOf(members \ {p})))
     /\ UNCHANGED matchWinner
  \/ /\ LeaveMatch(p)
     /\ players' = WithoutPlayer(p)
     /\ toClient' = [toClient EXCEPT ![p] = <<>>]
     /\ UNCHANGED matchWinner
  \/ /\ LeaveEndsMatch(p)
     /\ players' = WithoutPlayer(p)
     /\ matchWinner' = None
     /\ toClient' = [toClient EXCEPT ![p] = <<>>]

(* The kDisconnected event of a connection that ended. *)
HandleDisconnected(p) ==
  /\ conn[p] = "ending"
  /\ Closed(p)
  /\ HandleDisconnect(p)
  /\ UNCHANGED <<simVars, matchId, told, failed>>

(***************************************************************************)
(* Expel: the server closes the connection of a peer that misbehaves, or   *)
(* that is not admitted in time, and the player leaves here: the transport *)
(* reports no departure for a connection this side closes.                 *)
(***************************************************************************)
Expel(p) == Closed(p) /\ HandleDisconnect(p)

Live(p) == conn[p] \in {"open", "ending"}

(* Judge, of a rejection that counts: the peer is kept or expelled, as its *)
(* misbehaviour within the window says (PeerGate).                         *)
HandleMisbehaviour(p) ==
  /\ Live(p)
  /\ Expel(p)
  /\ UNCHANGED <<simVars, matchId, told, failed>>

(* TakeOverdue: a peer that joined nothing within kAdmissionDeadline. *)
HandleOverdue(p) ==
  /\ Live(p)
  /\ p \notin members
  /\ Expel(p)
  /\ UNCHANGED <<simVars, matchId, told, failed>>

-----------------------------------------------------------------------------
(***************************************************************************)
(* Messages of a peer, oldest first.                                       *)
(***************************************************************************)
Received(p, type) ==
  /\ Live(p)
  /\ toServer[p] # <<>>
  /\ Head(toServer[p]).type = type
  /\ toServer' = [toServer EXCEPT ![p] = Tail(@)]

WithPlayer(p) ==
  [s \in DOMAIN players \cup {nextId} |->
     IF s = nextId THEN [peer |-> p, commands |-> None] ELSE players[s]]

HandleJoinRequest(p) ==
  /\ Received(p, "Join")
  /\ LET request == Head(toServer[p]) IN
     \/ /\ p \in members
        /\ Reply(p, AdmissionMessage(session[p]))
        /\ UNCHANGED <<matchVars, players>>
     \/ /\ p \notin members
        /\ Refusals(request.faults) # {}
        /\ Reply(p, RefusalMessage(Refusal(request.faults)))
        /\ UNCHANGED <<matchVars, players>>
     \/ /\ Join(p, request.faults)
        /\ players' = WithPlayer(p)
        /\ toClient' = Delivered(Delivered(toClient, {p}, AdmissionMessage(nextId)),
                         PeersOf(SessionsOf(members)) \cup {p},
                         LobbyMessage(rosterVersion', SessionsOf(members) \cup {nextId}))
  /\ UNCHANGED <<conn, simVars, matchId, matchWinner, told, failed>>

(* A Ready that is stale is routine: the client sends another. *)
HandleReady(p) ==
  /\ Received(p, "Ready")
  /\ LET version == Head(toServer[p]).version IN
     \/ Ready(p, version)
     \/ ~ReadyAccepted(p, version) /\ UNCHANGED matchVars
  /\ UNCHANGED <<conn, toClient, players, simVars, matchId, matchWinner, told, failed>>

(* Commands of a player in the match; others are dropped. *)
HandleCommands(p) ==
  /\ Live(p)
  /\ p \in members
  /\ IsPlaying(session[p])
  /\ players' = [players EXCEPT ![session[p]].commands = matchId]
  /\ UNCHANGED <<matchVars, linkVars, simVars, matchId, matchWinner, told, failed>>

-----------------------------------------------------------------------------
(***************************************************************************)
(* EndMatch, of the Host: the players are told, then sent the Roster they  *)
(* are back in.  A winner no longer in the match is none.                  *)
(***************************************************************************)
WinnerOf(winner) == IF IsPlaying(winner) THEN winner ELSE None

(* Mutant: the players are told of the end, but not of the Roster. *)
MutEndToldNoRoster(winner) ==
  Delivered(toClient, PeersOf(Playing), MatchEndMessage(WinnerOf(winner)))

EndTold(winner) ==
  Delivered(Delivered(toClient, PeersOf(Playing), MatchEndMessage(WinnerOf(winner))),
            PeersOf(Playing), LobbyMessage(rosterVersion + 1, SessionsOf(members)))

EndMatch(winner) ==
  /\ End
  /\ toClient' = EndTold(winner)
  /\ matchWinner' = WinnerOf(winner)
  /\ told' = WinnerOf(winner)

(* Host::EndMatch, which the Host's owner may call on any thread. *)
HostEndMatch ==
  /\ EndMatch(None)
  /\ UNCHANGED <<conn, toServer, players, simVars, matchId, failed>>

-----------------------------------------------------------------------------
(***************************************************************************)
(* PrepareTick, under the mutex.  A match that has ended is taken out of   *)
(* the simulation, its capture ending with those of its players who are    *)
(* gone; of a match in progress, the bodies of those who left are.         *)
(***************************************************************************)
EndedMatch == simulating /\ ~inMatch

(* Mutant: a departure the match ended with is not captured. *)
MutRemovedNotAtEnd == {s \in DOMAIN bodies : ~EndedMatch /\ ~IsPlaying(s)}

Removed == {s \in DOMAIN bodies :
              IF EndedMatch THEN s \notin DOMAIN players ELSE ~IsPlaying(s)}

KeptBodies == IF EndedMatch THEN <<>> ELSE Restrict(bodies, DOMAIN bodies \ Removed)

CapturedLeaves == [s \in DOMAIN capture.left |->
                     capture.left[s] + (IF s \in Removed THEN 1 ELSE 0)]

CaptureTakenOut ==
  IF EndedMatch
  THEN [capture EXCEPT !.left = CapturedLeaves, !.open = FALSE, !.winner = matchWinner]
  ELSE [capture EXCEPT !.left = CapturedLeaves]

(* Then each player of the match gives its next command to the tick. *)
CommandsTaken == [s \in DOMAIN players |->
                    IF IsPlaying(s) THEN [players[s] EXCEPT !.commands = None] ELSE players[s]]

PrepareTickNoStart ==
  /\ TickWithoutStart
  /\ bodies' = KeptBodies
  /\ simulating' = (simulating /\ inMatch)
  /\ capture' = CaptureTakenOut
  /\ players' = CommandsTaken
  /\ UNCHANGED <<toClient, policy, matchId, told>>

(* StartMatchIfReady: the bodies enter the simulation, the commands start  *)
(* afresh and the players are told.                                        *)
Entrants == [s \in SessionsOf(members) |->
               EntityOf(CHOOSE p \in members : session[p] = s)]

(* Mutant: what the last match left queued is still there. *)
MutFreshCommandsKept(sessions) == players

FreshCommands(sessions) ==
  [s \in DOMAIN players |-> IF s \in sessions THEN [players[s] EXCEPT !.commands = None]
                                              ELSE players[s]]

StartMatch ==
  /\ TryStart
  /\ bodies' = [s \in DOMAIN KeptBodies \cup DOMAIN Entrants |->
                  IF s \in DOMAIN KeptBodies THEN KeptBodies[s] ELSE Entrants[s]]
  /\ players' = FreshCommands(DOMAIN Entrants)
  /\ simulating' = TRUE
  /\ policy' = "playing"
  /\ matchId' = nextId
  /\ told' = None
  /\ capture' = [open |-> TRUE, entrants |-> Entrants,
                 left |-> [s \in DOMAIN Entrants |-> 0], winner |-> None]
  /\ toClient' = Delivered(toClient, PeersOf(DOMAIN Entrants),
                   MatchStartMessage(nextId, DOMAIN Entrants))

PrepareTick ==
  /\ simThread = "idle"
  /\ PrepareTickNoStart \/ StartMatch
  /\ simThread' = "ticking"
  /\ UNCHANGED <<conn, toServer, matchWinner, action, failed>>

(* simulation.Tick, without the mutex: Game policy may end the match, once, *)
(* with a winner among the players in the simulation or as a draw.          *)
RunTick ==
  /\ simThread = "ticking"
  /\ \/ simThread' = "idle" /\ UNCHANGED <<policy, action>>
     \/ /\ bodies # <<>> /\ policy = "playing"
        /\ \E winner \in DOMAIN bodies \cup {None} :
             action' = winner
        /\ policy' = "ended"
        /\ simThread' = "acting"
  /\ UNCHANGED <<matchVars, linkVars, players, bodies, simulating, capture,
                 matchId, matchWinner, told, failed>>

(* Act, under the mutex, after the tick the match's end was decided on: the *)
(* match may have ended since.                                              *)
Act ==
  /\ simThread = "acting"
  /\ \/ EndMatch(action)
     \/ ~inMatch /\ UNCHANGED <<matchVars, toClient, matchWinner, told>>
  /\ simThread' = "idle"
  /\ action' = None
  /\ UNCHANGED <<conn, toServer, players, bodies, simulating, policy, capture,
                 matchId, failed>>

HostStep ==
  \/ \E p \in Peers : \/ HandleDisconnected(p) \/ HandleMisbehaviour(p) \/ HandleOverdue(p)
                       \/ HandleJoinRequest(p) \/ HandleReady(p) \/ HandleCommands(p)
  \/ HostEndMatch
  \/ PrepareTick \/ RunTick \/ Act

LinkStep == \E p \in Peers : ConnectionEnds(p)

-----------------------------------------------------------------------------
HostTypeOK ==
  /\ MatchTypeOK
  /\ conn \in [Peers -> {"none", "open", "ending", "closed"}]
  /\ DOMAIN players \subseteq 1..nextId
  /\ \A s \in DOMAIN players : players[s] \in [peer : Peers, commands : 0..nextId]
  /\ bodies \in [DOMAIN bodies -> 1..nextEntity]
  /\ simulating \in BOOLEAN
  /\ matchId \in Nat /\ matchWinner \in Nat /\ told \in Nat
  /\ policy \in {"playing", "ended"}
  /\ simThread \in {"idle", "ticking", "acting"}
  /\ action \in Nat
  /\ failed \in BOOLEAN

(***************************************************************************)
(* The Match and the Host keep books of their own: whoever has joined has  *)
(* a Player, with its peer, and no one else has; a match in progress is in *)
(* the simulation, and each of its players has a body there.  The code     *)
(* looks them up with at(), which would throw and stop the server          *)
(* (host_match.cpp 119, 202-203; host.cpp SendTo).                         *)
(***************************************************************************)
BooksAgree ==
  /\ DOMAIN players = SessionsOf(members)
  /\ \A p \in members : players[session[p]].peer = p
  /\ inMatch => simulating /\ Playing \subseteq DOMAIN bodies
  /\ ~simulating => bodies = <<>>

(***************************************************************************)
(* A command waiting to be simulated was taken in during the match in      *)
(* progress, whenever one is: what the last match left queued is gone when *)
(* the next starts (StartMatchIfReady's fresh CommandQueue).               *)
(***************************************************************************)
CommandsOfThisMatch ==
  inMatch => \A s \in Playing : players[s].commands \in {None, matchId}

(***************************************************************************)
(* The Host between any two of its locked sections: its types, its books   *)
(* in agreement with the Match's (PrepareTick, host_network.cpp), and no   *)
(* command of another match.                                               *)
(***************************************************************************)
HostInv == HostTypeOK /\ BooksAgree /\ CommandsOfThisMatch

(***************************************************************************)
(* A capture closes with exactly one Leave for each entrant who has left   *)
(* the server by then, none for one who has not, and the winner the players *)
(* were told of when this match ended, if any of them were told: never the *)
(* winner of the match before (TakeOutEndedMatch, PrepareTick's erase_if    *)
(* and HandleDisconnect's reset of match_winner together).                 *)
(***************************************************************************)
CaptureTellsEveryDeparture ==
  [][capture.open /\ ~capture'.open =>
       /\ \A s \in DOMAIN capture.entrants :
            capture'.left[s] = (IF s \in DOMAIN players THEN 0 ELSE 1)
       /\ capture'.winner = told]_hostVars
=============================================================================
