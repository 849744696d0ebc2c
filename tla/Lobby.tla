-------------------------------- MODULE Lobby -------------------------------
(***************************************************************************)
(* The Host composed with its clients, from joining to the end of a match: *)
(* each client's Session sends its Join request once it is connected, its  *)
(* Inbox takes in what the server says, message by message, on the Network *)
(* I/O thread, and its Main/Render thread loads the characters of the      *)
(* newest Roster it saw and reports Ready for it (harness/harness.cpp,     *)
(* harness/inbox.cpp, client/lobby_readiness.cpp, client/client.cpp).      *)
(*                                                                         *)
(* Every player brings a character of its own, so a character is named by  *)
(* its player's session: no client has one loaded by luck.                 *)
(***************************************************************************)
EXTENDS Host

CONSTANTS
  Requests,    \* join requests, each the set of faults it is refused for
  MaxMatches,  \* bound: how many matches start
  MaxDepartures, \* bound: how many connections end
  MaxFailures  \* bound: how many local failures, none or one

ASSUME RequestsAssumption == Requests \subseteq SUBSET Faults

VARIABLES
  view,     \* the ServerView each client's Inbox publishes
  plan,     \* the Roster each client is loading the characters of
  loaded,   \* the sessions whose characters each client has loaded
  reported, \* ready_version_: the Roster version each client last was ready for
  matches   \* how many matches have started, for the bound

clientVars == <<view, plan, loaded, reported>>
vars == <<hostVars, clientVars, matches>>

NoPlan == [version |-> 0, roster |-> {}]

EmptyView == [accepted |-> None, refused |-> FALSE, lobby |-> NoPlan,
              inMatch |-> FALSE, players |-> {}]

Init ==
  /\ HostInit
  /\ view = [p \in Peers |-> EmptyView]
  /\ plan = [p \in Peers |-> NoPlan]
  /\ loaded = [p \in Peers |-> {}]
  /\ reported = [p \in Peers |-> 0]
  /\ matches = 0

ClientConnect(p) ==
  /\ \E faults \in Requests : Connect(p, [type |-> "Join", faults |-> faults])
  /\ UNCHANGED clientVars

(***************************************************************************)
(* Inbox::Receive: what each message makes of the view.  A Match start     *)
(* that leaves the client out, or before its admission, is dropped.        *)
(***************************************************************************)
Seen(v, message) ==
  CASE message.type = "Admission" -> [v EXCEPT !.accepted = message.session]
    [] message.type = "Refusal" -> [v EXCEPT !.refused = TRUE]
    [] message.type = "Lobby" ->
         [v EXCEPT !.lobby = [version |-> message.version, roster |-> message.roster]]
    [] message.type = "MatchStart" ->
         IF v.accepted \in message.players
         THEN [v EXCEPT !.inMatch = TRUE, !.players = message.players]
         ELSE v
    [] message.type = "MatchEnd" -> [v EXCEPT !.inMatch = FALSE]

ClientReceive(p) ==
  /\ toClient[p] # <<>>
  /\ view' = [view EXCEPT ![p] = Seen(@, Head(toClient[p]))]
  /\ toClient' = [toClient EXCEPT ![p] = Tail(@)]
  /\ UNCHANGED <<matchVars, conn, toServer, players, simVars, matchId, matchWinner,
                 told, failed, plan, loaded, reported>>

(***************************************************************************)
(* GetReadyForLobby.  LobbyReadiness plans from the view as it is; loading *)
(* takes time, in which the Inbox may publish a newer one; then Ready is   *)
(* sent only if the view still has the Roster that was planned for.        *)
(***************************************************************************)
ClientPlan(p) ==
  LET v == view[p] IN
  /\ conn[p] = "open"
  /\ plan[p] = NoPlan
  /\ v.accepted # None /\ ~v.inMatch
  /\ v.lobby # NoPlan /\ v.lobby.version # reported[p]
  /\ plan' = [plan EXCEPT ![p] = v.lobby]
  /\ UNCHANGED <<hostVars, view, loaded, reported>>

ClientReportReady(p) ==
  LET version == plan[p].version IN
  /\ plan[p] # NoPlan
  /\ loaded' = [loaded EXCEPT ![p] = @ \cup plan[p].roster]
  /\ reported' = [reported EXCEPT ![p] = version]
  /\ toServer' = IF conn[p] = "open" /\ view[p].lobby.version = version
                 THEN [toServer EXCEPT ![p] = Append(@, [type |-> "Ready", version |-> version])]
                 ELSE toServer
  /\ plan' = [plan EXCEPT ![p] = NoPlan]
  /\ UNCHANGED <<matchVars, conn, toClient, players, simVars, matchId, matchWinner,
                 told, failed, view>>

ClientStep(p) == ClientConnect(p) \/ ClientReceive(p) \/ ClientPlan(p) \/ ClientReportReady(p)

Bounded ==
  /\ matches' = matches + (IF matchId' # matchId THEN 1 ELSE 0)
  /\ matches' <= MaxMatches
  /\ Cardinality({p \in Peers : conn'[p] \in {"ending", "closed"}}) <= MaxDepartures
  /\ failed' => MaxFailures > 0

Next ==
  /\ \/ \E p \in Peers : ClientStep(p)
     \/ (HostStep \/ LinkStep \/ RecordFailure) /\ UNCHANGED clientVars
  /\ Bounded

Spec == Init /\ [][Next]_vars

(***************************************************************************)
(* Fairness.  Each thread is a loop: the client's Network I/O thread       *)
(* receives and its Main/Render thread gets ready every frame, the         *)
(* server's Network I/O thread handles what arrived every pump, and its    *)
(* Simulation thread ticks.  A match is not promised to end.               *)
(***************************************************************************)
ServerStep(A) == A /\ UNCHANGED clientVars /\ Bounded

Fairness ==
  /\ \A p \in Peers : /\ WF_vars(ClientReceive(p) /\ Bounded)
                       /\ WF_vars(ClientPlan(p) /\ Bounded)
                       /\ WF_vars(ClientReportReady(p) /\ Bounded)
                       /\ WF_vars(ServerStep(HandleJoinRequest(p)))
                       /\ WF_vars(ServerStep(HandleReady(p)))
  /\ WF_vars(ServerStep(PrepareTick))
  /\ WF_vars(ServerStep(RunTick))
  /\ WF_vars(ServerStep(Act))

FairSpec == Spec /\ Fairness

-----------------------------------------------------------------------------
(***************************************************************************)
(* A client in a match has loaded the character of everyone the Match      *)
(* start named: its Ready was for a Roster that held them all, whatever    *)
(* joined, left or was replanned while it loaded and the messages crossed. *)
(***************************************************************************)
MatchIsLoaded ==
  \A p \in Peers : view[p].inMatch => view[p].players \subseteq loaded[p]

(***************************************************************************)
(* Once a member has taken in everything sent to it, it knows the state of *)
(* the Lobby: whether a match is in progress and, when none is, the Roster *)
(* and its version.  Every change of either is followed by the message     *)
(* that tells it, under the same lock (SendRoster, SendTo).                *)
(***************************************************************************)
ClientsKnowTheLobby ==
  \A p \in members : conn[p] = "open" /\ ~failed /\ toClient[p] = <<>> =>
    /\ view[p].accepted = session[p]
    /\ view[p].inMatch = inMatch
    /\ ~inMatch => view[p].lobby = [version |-> rosterVersion, roster |-> GetRoster]

(***************************************************************************)
(* What the clients of a Lobby hold of it, however the messages cross.     *)
(***************************************************************************)
LobbyInv == MatchIsLoaded /\ ClientsKnowTheLobby

(***************************************************************************)
(* A Lobby that stays full, with every connection of it open and no local  *)
(* failure, gets its match: the server never waits for a Ready no client   *)
(* will send, nor a client for a Roster it will not hear of.  (A bound on  *)
(* the matches of the model ends the promise.)                             *)
(***************************************************************************)
WaitingForMatch ==
  /\ Cardinality(members) = PlayerCount /\ ~inMatch
  /\ \A p \in members : conn[p] = "open"
  /\ ~failed
  /\ matches < MaxMatches

FullLobbyStarts == []<>~WaitingForMatch
=============================================================================
