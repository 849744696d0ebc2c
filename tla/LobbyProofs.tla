---------------------------- MODULE LobbyProofs -----------------------------
(***************************************************************************)
(* Proofs about the Match (Match.tla), for any peers, Player count and     *)
(* pause, and the Host with its clients (Host.tla, Lobby.tla): the Host    *)
(* uses the Match as its methods say, so what is proved of the Match holds *)
(* of the server; its own books agree with the Match's between any two of  *)
(* its locked sections; a capture tells every departure; and the clients   *)
(* know the Lobby and have loaded whom they meet, however messages cross.  *)
(***************************************************************************)
EXTENDS Lobby, Subsequences, FiniteSetTheorems, TLAPS

-----------------------------------------------------------------------------
(***************************************************************************)
(* The Match.  MatchInv is inductive: it adds to what is wanted that no    *)
(* peer is Ready for a version still to come, so a new version finds no    *)
(* one Ready, and that the current Roster names those in the Lobby, so a   *)
(* Ready for it is about all of them.                                      *)
(***************************************************************************)
USE PeersAssumption, PlayerCountAssumption, PauseTicksAssumption

LEMMA InitEstablishes == MatchInit => MatchInv
<1>1. Cardinality({}) = 0
  BY FS_EmptySet
<1>2. ASSUME MatchInit PROVE MatchTypeOK
  <2>1. [v \in {0} |-> {}] \in [0..0 -> SUBSET Nat]
    <3>1. 0..0 = {0}
      OBVIOUS
    <3>2. QED
      BY <3>1
  <2>2. inMatch \in BOOLEAN
    BY <1>2, Zenon DEF MatchInit
  <2>3. 0 \in Nat /\ 1 \in Nat \ {0} /\ PauseTicks \in 0..PauseTicks
    OBVIOUS
  <2>4. QED
    BY <1>2, <2>1, <2>2, <2>3 DEF MatchInit, MatchTypeOK, None
<1>3. ASSUME MatchInit PROVE SessionsOf(members) = {}
  BY <1>3 DEF MatchInit, SessionsOf
<1>4. ASSUME MatchInit PROVE published[rosterVersion] = {}
  BY <1>4 DEF MatchInit
<1>5. ASSUME MatchInit
      PROVE  VersionsNotAhead /\ RosterNamesLobby /\ ReadyMeansLoaded /\ MatchHasPlayers
  <2>1. VersionsNotAhead
    BY <1>5 DEF MatchInit, VersionsNotAhead
  <2>2. RosterNamesLobby
    BY <1>5, <1>3, <1>4 DEF RosterNamesLobby
  <2>3. ReadyMeansLoaded
    BY <1>5 DEF MatchInit, ReadyMeansLoaded
  <2>4. MatchHasPlayers
    BY <1>5, <1>1 DEF MatchInit, MatchHasPlayers
  <2>5. QED
    BY <2>1, <2>2, <2>3, <2>4
<1>6. QED
  BY <1>2, <1>5 DEF MatchInv

(***************************************************************************)
(* Leaving never makes a set of members larger than the Player count.      *)
(***************************************************************************)
LEMMA FewerMembers ==
  ASSUME MatchTypeOK, Cardinality(members) <= PlayerCount, NEW p
  PROVE  Cardinality(members \ {p}) <= PlayerCount
<1>1. IsFiniteSet(members)
  BY FS_Subset DEF MatchTypeOK
<1>2. Cardinality(members) \in Nat
  BY <1>1, FS_CardinalityType
<1>3. QED
  BY <1>1, <1>2, FS_RemoveElement

LEMMA JoinPreserves ==
  ASSUME MatchInv, NEW p \in Peers, NEW faults, Join(p, faults)
  PROVE  MatchInv'
<1> USE DEF Join, MatchInv, MatchTypeOK
<1>1. ~inMatch /\ ~(Cardinality(members) >= PlayerCount)
  BY DEF Refusals
<1>2. MatchTypeOK'
  BY DEF Publish, SessionsOf
<1>3. VersionsNotAhead'
  BY DEF VersionsNotAhead
<1>4. RosterNamesLobby'
  BY DEF RosterNamesLobby, Publish, SessionsOf
<1>5. ReadyMeansLoaded'
  BY <1>1 DEF ReadyMeansLoaded, IsReady, VersionsNotAhead
<1>6. MatchHasPlayers'
  <2>1. IsFiniteSet(members)
    BY FS_Subset
  <2>2. Cardinality(members) \in Nat /\ Cardinality(members \cup {p}) = Cardinality(members) + 1
    BY <2>1, FS_CardinalityType, FS_AddElement
  <2>3. QED
    BY <1>1, <2>2 DEF MatchHasPlayers
<1>7. QED
  BY <1>2, <1>3, <1>4, <1>5, <1>6

LEMMA LeaveLobbyPreserves ==
  ASSUME MatchInv, NEW p \in Peers, LeaveLobby(p)
  PROVE  MatchInv'
<1> USE DEF LeaveLobby, Forget, MatchInv, MatchTypeOK, None
<1>1. readyVersion' \in [Peers -> Nat]
  BY SMTT(30) DEF CarriedReady
<1>2. MatchTypeOK'
  BY <1>1 DEF Publish, SessionsOf
<1>3. VersionsNotAhead'
  BY DEF VersionsNotAhead, CarriedReady
<1>4. RosterNamesLobby'
  BY DEF RosterNamesLobby, Publish, SessionsOf
<1>5. ReadyMeansLoaded'
  <2> SUFFICES ASSUME NEW q \in members', readyVersion'[q] = rosterVersion'
               PROVE  SessionsOf(members)' \subseteq vouched'[q]
    BY DEF ReadyMeansLoaded, IsReady
  <2>1. q \in members /\ q # p /\ vouched'[q] = vouched[q]
    OBVIOUS
  <2>2. readyVersion[q] = rosterVersion
    BY <2>1 DEF CarriedReady, VersionsNotAhead
  <2>3. SessionsOf(members) \subseteq vouched[q]
    BY <2>1, <2>2 DEF ReadyMeansLoaded, IsReady
  <2>4. QED
    BY <2>1, <2>3 DEF SessionsOf
<1>6. MatchHasPlayers'
  BY FewerMembers DEF MatchHasPlayers
<1>7. QED
  BY <1>2, <1>3, <1>4, <1>5, <1>6

LEMMA LeaveMatchPreserves ==
  ASSUME MatchInv, NEW p \in Peers, LeaveMatch(p)
  PROVE  MatchInv'
<1> USE DEF LeaveMatch, Forget, MatchInv, MatchTypeOK, None
<1>1. MatchTypeOK'
  OBVIOUS
<1>2. VersionsNotAhead'
  BY DEF VersionsNotAhead
<1>3. RosterNamesLobby'
  BY DEF RosterNamesLobby
<1>4. ReadyMeansLoaded'
  BY DEF ReadyMeansLoaded, IsReady, SessionsOf
<1>5. MatchHasPlayers'
  <2>1. members' # {}
    OBVIOUS
  <2>2. QED
    BY <2>1, FewerMembers DEF MatchHasPlayers
<1>6. QED
  BY <1>1, <1>2, <1>3, <1>4, <1>5

(***************************************************************************)
(* The new version is published beside the versions before it.             *)
(***************************************************************************)
LEMMA PublishType ==
  ASSUME MatchTypeOK, NEW names \in SUBSET Nat, Publish(names),
         rosterVersion' = rosterVersion + 1
  PROVE  published' \in [0..rosterVersion' -> SUBSET Nat]
BY DEF MatchTypeOK, Publish

(***************************************************************************)
(* However a match ends, no one is Ready for the version its players are   *)
(* back in the Lobby under.                                                *)
(***************************************************************************)
LEMMA NoneReadyAfterTheMatch ==
  ASSUME MatchInv, NEW remaining, BackToLobby(remaining), members' \subseteq Peers,
         \A q \in members' : readyVersion'[q] = readyVersion[q]
  PROVE  ReadyMeansLoaded'
BY DEF MatchInv, MatchTypeOK, BackToLobby, ReadyMeansLoaded, IsReady, VersionsNotAhead

LEMMA LeaveEndsMatchPreserves ==
  ASSUME MatchInv, NEW p \in Peers, LeaveEndsMatch(p)
  PROVE  MatchInv'
<1> USE DEF LeaveEndsMatch, BackToLobby, Forget, MatchInv, MatchTypeOK, None
<1>0. members' = {}
  OBVIOUS
<1>1. MatchTypeOK'
  <2>1. SessionsOf({}) \in SUBSET Nat
    BY DEF SessionsOf
  <2>2. published' \in [0..rosterVersion' -> SUBSET Nat]
    BY <2>1, PublishType
  <2>3. ticksSinceEnd' \in 0..PauseTicks
    OBVIOUS
  <2>4. inMatch' \in BOOLEAN
    BY Zenon
  <2>5. QED
    BY <2>2, <2>3, <2>4
<1>2. VersionsNotAhead'
  BY DEF VersionsNotAhead
<1>3. RosterNamesLobby'
  BY <1>0 DEF RosterNamesLobby, Publish, SessionsOf
<1>4. ReadyMeansLoaded'
  BY <1>0 DEF ReadyMeansLoaded
<1>5. MatchHasPlayers'
  BY FewerMembers DEF MatchHasPlayers
<1>6. QED
  BY <1>1, <1>2, <1>3, <1>4, <1>5

LEMMA EndPreserves ==
  ASSUME MatchInv, End
  PROVE  MatchInv'
<1> USE DEF End, MatchInv, MatchTypeOK
<1>1. MatchTypeOK'
  <2>1. SessionsOf(members) \in SUBSET Nat
    BY DEF SessionsOf
  <2>2. published' \in [0..rosterVersion' -> SUBSET Nat]
    BY <2>1, PublishType DEF BackToLobby
  <2>3. ticksSinceEnd' \in 0..PauseTicks
    BY DEF BackToLobby
  <2>4. inMatch' \in BOOLEAN
    BY Zenon DEF BackToLobby
  <2>5. QED
    BY <2>2, <2>3, <2>4 DEF BackToLobby
<1>2. VersionsNotAhead'
  BY DEF VersionsNotAhead, BackToLobby
<1>3. RosterNamesLobby'
  BY DEF RosterNamesLobby, BackToLobby, Publish, SessionsOf
<1>4. ReadyMeansLoaded'
  BY NoneReadyAfterTheMatch
<1>5. MatchHasPlayers'
  BY DEF MatchHasPlayers, BackToLobby
<1>6. QED
  BY <1>1, <1>2, <1>3, <1>4, <1>5

LEMMA ReadyPreserves ==
  ASSUME MatchInv, NEW p \in Peers, NEW version, Ready(p, version)
  PROVE  MatchInv'
<1> USE DEF Ready, ReadyAccepted, MatchInv, MatchTypeOK
<1>1. MatchTypeOK'
  OBVIOUS
<1>2. VersionsNotAhead'
  BY DEF VersionsNotAhead
<1>3. RosterNamesLobby'
  BY DEF RosterNamesLobby, SessionsOf
<1>4. ReadyMeansLoaded'
  BY DEF ReadyMeansLoaded, IsReady, RosterNamesLobby, SessionsOf
<1>5. MatchHasPlayers'
  BY DEF MatchHasPlayers
<1>6. QED
  BY <1>1, <1>2, <1>3, <1>4, <1>5

LEMMA TryStartPreserves ==
  ASSUME MatchInv, TryStart
  PROVE  MatchInv'
<1> USE DEF TryStart, CanStart, Ticked, MatchInv, MatchTypeOK
<1>1. IsFiniteSet(members)
  BY FS_Subset
<1>2. Cardinality(members) \in Nat
  BY <1>1, FS_CardinalityType
<1>3. MatchTypeOK'
  BY <1>2
<1>4. VersionsNotAhead'
  BY DEF VersionsNotAhead
<1>5. RosterNamesLobby'
  BY DEF RosterNamesLobby
<1>6. ReadyMeansLoaded'
  BY DEF ReadyMeansLoaded, IsReady, SessionsOf
<1>7. MatchHasPlayers'
  BY <1>1, FS_EmptySet DEF MatchHasPlayers
<1>8. QED
  BY <1>3, <1>4, <1>5, <1>6, <1>7

LEMMA TickWithoutStartPreserves ==
  ASSUME MatchInv, TickWithoutStart
  PROVE  MatchInv'
BY DEF TickWithoutStart, Ticked, MatchInv, MatchTypeOK, VersionsNotAhead, RosterNamesLobby,
       ReadyMeansLoaded, MatchHasPlayers, IsReady, SessionsOf

LEMMA StutterPreserves ==
  ASSUME MatchInv, UNCHANGED matchVars
  PROVE  MatchInv'
BY DEF matchVars, bookVars, MatchInv, MatchTypeOK, VersionsNotAhead, RosterNamesLobby,
       ReadyMeansLoaded, MatchHasPlayers, IsReady, SessionsOf

(* Every step of the Match preserves the invariant.                        *)
LEMMA NextPreserves ==
  ASSUME MatchInv, [MatchNext]_matchVars
  PROVE  MatchInv'
<1>1. CASE \E p \in Peers, faults \in SUBSET Faults : Join(p, faults)
  BY <1>1, JoinPreserves
<1>2. CASE \E p \in Peers : Leave(p)
  BY <1>2, LeaveLobbyPreserves, LeaveMatchPreserves, LeaveEndsMatchPreserves DEF Leave
<1>3. CASE \E p \in Peers : \E version \in 0..rosterVersion : Ready(p, version)
  BY <1>3, ReadyPreserves
<1>4. CASE Tick
  BY <1>4, TryStartPreserves, TickWithoutStartPreserves DEF Tick
<1>5. CASE End
  BY <1>5, EndPreserves
<1>6. CASE UNCHANGED matchVars
  BY <1>6, StutterPreserves
<1>7. QED
  BY <1>1, <1>2, <1>3, <1>4, <1>5, <1>6 DEF MatchNext

(***************************************************************************)
(* Every method of Match keeps what a Ready is worth and a match in        *)
(* progress peopled, whatever the order the Host's threads call them in.   *)
(***************************************************************************)
THEOREM MatchInvariant == MatchSpec => []MatchInv
<1>1. MatchInit => MatchInv
  BY InitEstablishes
<1>2. MatchInv /\ [MatchNext]_matchVars => MatchInv'
  BY NextPreserves
<1>3. QED
  BY <1>1, <1>2, PTL DEF MatchSpec

(***************************************************************************)
(* A match starts, and goes on, only among players each of whom was Ready  *)
(* for a Roster naming them all.                                           *)
(***************************************************************************)
THEOREM OnlyTheLoadedMeet == MatchSpec => []ReadyMeansLoaded
<1>1. MatchInv => ReadyMeansLoaded
  BY DEF MatchInv
<1>2. QED
  BY <1>1, MatchInvariant, PTL

(***************************************************************************)
(* No match is ever left without players, which nothing would end, and no  *)
(* more than the Player count are ever admitted.                           *)
(***************************************************************************)
THEOREM MatchesArePeopled == MatchSpec => []MatchHasPlayers
<1>1. MatchInv => MatchHasPlayers
  BY DEF MatchInv
<1>2. QED
  BY <1>1, MatchInvariant, PTL

-----------------------------------------------------------------------------
(***************************************************************************)
(* The strengthening.  No two members have one session, and the generator  *)
(* never gives one twice.                                                  *)
(***************************************************************************)
SessionsDistinct ==
  /\ \A p \in members : session[p] \in 1..(nextId - 1)
  /\ \A p, q \in members : session[p] = session[q] => p = q

(***************************************************************************)
(* A capture is open while its match is in the simulation.  An entrant is  *)
(* in the simulation and has no Leave, or has left both it and the server  *)
(* and has one; its body goes a tick after its player.                     *)
(***************************************************************************)
CaptureRecord ==
  /\ capture = [open |-> capture.open, entrants |-> capture.entrants,
                left |-> capture.left, winner |-> capture.winner]
  /\ capture.open = simulating
  /\ capture.left = [s \in DOMAIN capture.entrants |-> capture.left[s]]

CaptureTracks ==
  simulating =>
    /\ DOMAIN bodies \subseteq DOMAIN capture.entrants
    /\ DOMAIN capture.entrants \subseteq 1..(nextId - 1)
    /\ \A s \in DOMAIN capture.entrants :
         \/ s \in DOMAIN bodies /\ capture.left[s] = 0
         \/ s \notin DOMAIN bodies /\ s \notin DOMAIN players /\ capture.left[s] = 1

(***************************************************************************)
(* Nobody has been told of the end of a match in progress; of one that has *)
(* ended, the winner kept for its capture is the one told.                 *)
(***************************************************************************)
WinnerTold ==
  /\ inMatch => told = None
  /\ simulating /\ ~inMatch => told = matchWinner

HostBooks ==
  /\ HostTypeOK
  /\ matchId \in 0..(nextId - 1)
  /\ SessionsDistinct
  /\ BooksAgree
  /\ CommandsOfThisMatch
  /\ CaptureRecord
  /\ CaptureTracks
  /\ WinnerTold

HostIInv == MatchInv /\ HostBooks

-----------------------------------------------------------------------------
(* A request is accepted only if it has no fault of its own.               *)
LEMMA AcceptedIsFaultless ==
  ASSUME NEW p \in Peers, NEW faults, Join(p, faults)
  PROVE  MatchNext
<1>1. faults = {}
  BY DEF Join, Refusals
<1>2. faults \in SUBSET Faults
  BY <1>1
<1>3. QED
  BY <1>2 DEF MatchNext

(***************************************************************************)
(* Each of the Host's locked sections calls the Match as one of its        *)
(* methods, or leaves it alone (host_network.cpp, host_match.cpp).         *)
(***************************************************************************)
LEMMA HostStepIsMatchs ==
  ASSUME MatchTypeOK, HostStep
  PROVE  [MatchNext]_matchVars
<1>1. ASSUME NEW p \in Peers, HandleDisconnect(p)
      PROVE  [MatchNext]_matchVars
  BY <1>1 DEF HandleDisconnect, MatchNext, Leave
<1>2. ASSUME NEW p \in Peers, HandleDisconnected(p) \/ HandleMisbehaviour(p) \/ HandleOverdue(p)
      PROVE  [MatchNext]_matchVars
  BY <1>1, <1>2 DEF HandleDisconnected, HandleMisbehaviour, HandleOverdue, Expel
<1>3. ASSUME NEW p \in Peers, HandleJoinRequest(p)
      PROVE  [MatchNext]_matchVars
  BY <1>3, AcceptedIsFaultless DEF HandleJoinRequest
<1>4. ASSUME NEW p \in Peers, HandleReady(p)
      PROVE  [MatchNext]_matchVars
  <2>. DEFINE version == Head(toServer[p]).version
  <2>1. CASE Ready(p, version)
    <3>1. version \in 0..rosterVersion
      BY <2>1 DEF Ready, ReadyAccepted, MatchTypeOK
    <3>2. QED
      BY <2>1, <3>1 DEF MatchNext
  <2>2. QED
    BY <1>4, <2>1 DEF HandleReady
<1>5. CASE HostEndMatch
  BY <1>5 DEF HostEndMatch, EndMatch, MatchNext
<1>6. CASE PrepareTick
  BY <1>6 DEF PrepareTick, PrepareTickNoStart, StartMatch, MatchNext, Tick
<1>7. CASE RunTick \/ Act
  BY <1>7 DEF RunTick, Act, EndMatch, MatchNext
<1>8. ASSUME NEW p \in Peers, HandleCommands(p)
      PROVE  [MatchNext]_matchVars
  BY <1>8 DEF HandleCommands
<1>9. QED
  BY <1>2, <1>3, <1>4, <1>5, <1>6, <1>7, <1>8 DEF HostStep

(* So does every step of the whole: the clients and the Link touch no Match. *)
LEMMA LobbyStepIsMatchs ==
  ASSUME MatchTypeOK, [Next]_vars
  PROVE  [MatchNext]_matchVars
<1>1. CASE HostStep
  BY <1>1, HostStepIsMatchs
<1>2. ASSUME NEW p \in Peers, ClientStep(p)
      PROVE  [MatchNext]_matchVars
  BY <1>2 DEF ClientStep, ClientConnect, Connect, ClientReceive, ClientPlan, ClientReportReady, hostVars
<1>3. CASE LinkStep \/ RecordFailure \/ UNCHANGED vars
  BY <1>3 DEF LinkStep, ConnectionEnds, RecordFailure, vars, hostVars
<1>4. QED
  BY <1>1, <1>2, <1>3 DEF Next

-----------------------------------------------------------------------------
(* The states of a connection, which most handlers leave alone.            *)
ConnTypeOK == conn \in [Peers -> {"none", "open", "ending", "closed"}]

(***************************************************************************)
(* What touches neither the Match, nor the Host's books, nor the           *)
(* simulation keeps them: clients, the Link, replies and refusals.         *)
(***************************************************************************)
LEMMA QuietPreserves ==
  ASSUME HostBooks, UNCHANGED <<matchVars, players, simVars, matchId, matchWinner, told>>,
         ConnTypeOK', failed' \in BOOLEAN
  PROVE  HostBooks'
  BY SMTT(30) DEF HostBooks, HostTypeOK, MatchTypeOK, ConnTypeOK, SessionsDistinct, BooksAgree, SessionsOf, Playing,
         CommandsOfThisMatch, CaptureRecord, CaptureTracks, WinnerTold, matchVars, bookVars, simVars

(***************************************************************************)
(* A departure takes the player out of the Match and of the Host's players *)
(* together; its body stays until the next tick (HandleDisconnect).        *)
(***************************************************************************)
LEMMA DeparturePreserves ==
  ASSUME HostIInv, MatchTypeOK', NEW p \in Peers, ConnTypeOK',
         \/ (LeaveLobby(p) \/ LeaveMatch(p)) /\ UNCHANGED matchWinner
         \/ LeaveEndsMatch(p) /\ matchWinner' = None,
         players' = WithoutPlayer(p), UNCHANGED <<simVars, matchId, told, failed>>
  PROVE  HostBooks'
<1>. USE DEF HostIInv, HostBooks, HostTypeOK, MatchTypeOK, None
<1>1. /\ p \in members /\ members' = members \ {p}
      /\ session' = [session EXCEPT ![p] = None]
      /\ UNCHANGED <<nextId, nextEntity>>
      /\ inMatch' => inMatch
  BY DEF LeaveLobby, LeaveMatch, LeaveEndsMatch, BackToLobby, Forget
<1>2. SessionsDistinct'
  BY <1>1 DEF SessionsDistinct
<1>3. SessionsOf(members)' = SessionsOf(members) \ {session[p]}
  BY <1>1, SMTT(30) DEF SessionsOf, SessionsDistinct
<1>4. /\ DOMAIN players' = DOMAIN players \ {session[p]}
      /\ \A s \in DOMAIN players' : players'[s] = players[s]
  BY DEF WithoutPlayer, Restrict
<1>5. HostTypeOK'
  <2>1. conn' \in [Peers -> {"none", "open", "ending", "closed"}]
    BY DEF ConnTypeOK
  <2>2. /\ DOMAIN players' \subseteq 1..nextId'
        /\ \A s \in DOMAIN players' : players'[s] \in [peer : Peers, commands : 0..nextId']
    BY <1>1, <1>4
  <2>3. bodies' \in [DOMAIN bodies' -> 1..nextEntity']
    BY <1>1 DEF simVars
  <2>4. /\ simulating' \in BOOLEAN /\ policy' \in {"playing", "ended"}
        /\ simThread' \in {"idle", "ticking", "acting"} /\ action' \in Nat
    BY DEF simVars
  <2>5. matchId' \in Nat /\ matchWinner' \in Nat /\ told' \in Nat /\ failed' \in BOOLEAN
    BY SMTT(30)
  <2>6. QED
    BY <2>1, <2>2, <2>3, <2>4, <2>5
<1>6. BooksAgree'
  <2>1. DOMAIN players' = SessionsOf(members)'
    BY <1>3, <1>4 DEF BooksAgree
  <2>2. ASSUME NEW q \in members' PROVE players'[session'[q]].peer = q
    <3>1. q \in members /\ session'[q] = session[q] /\ session[q] # session[p]
      BY <1>1 DEF SessionsDistinct
    <3>2. session[q] \in DOMAIN players'
      BY <1>4, <3>1 DEF BooksAgree, SessionsOf
    <3>3. QED
      BY <1>4, <3>1, <3>2 DEF BooksAgree
  <2>3. Playing' \subseteq Playing
    BY <1>1, <1>3 DEF Playing
  <2>4. QED
    BY <1>1, <2>1, <2>2, <2>3 DEF BooksAgree, simVars
<1>7. CommandsOfThisMatch'
  <2>1. SUFFICES ASSUME inMatch', NEW s \in Playing' PROVE players'[s].commands \in {None, matchId}
    BY DEF CommandsOfThisMatch
  <2>2. s \in Playing /\ s \in DOMAIN players'
    BY <1>1, <1>3, <1>4, <2>1 DEF Playing, BooksAgree
  <2>3. QED
    BY <1>1, <1>4, <2>1, <2>2 DEF CommandsOfThisMatch
<1>8. CaptureRecord' /\ CaptureTracks'
  BY <1>1, <1>4 DEF CaptureRecord, CaptureTracks, simVars
<1>9. WinnerTold'
  BY DEF WinnerTold, simVars, LeaveLobby, LeaveMatch, LeaveEndsMatch, BackToLobby
<1>10. matchId' \in 0..(nextId' - 1)
  BY <1>1
<1>11. QED
  BY <1>2, <1>5, <1>6, <1>7, <1>8, <1>9, <1>10

(***************************************************************************)
(* A newcomer gets a Player and a session of its own (Join).               *)
(***************************************************************************)
LEMMA JoinPreservesBooks ==
  ASSUME HostIInv, MatchTypeOK', NEW p \in Peers, NEW faults, Join(p, faults),
         players' = WithPlayer(p),
         UNCHANGED <<conn, simVars, matchId, matchWinner, told, failed>>
  PROVE  HostBooks'
<1>. USE DEF HostIInv, HostBooks, HostTypeOK, MatchTypeOK, None
<1>1. /\ p \notin members /\ members' = members \cup {p}
      /\ session' = [session EXCEPT ![p] = nextId]
      /\ nextId' = nextId + 1 /\ nextEntity' = nextEntity
      /\ ~inMatch /\ ~inMatch'
  BY DEF Join, Refusals
<1>2. SessionsDistinct'
  <2>1. \A q \in members : session'[q] = session[q] /\ session[q] # nextId
    BY <1>1, SMTT(30) DEF SessionsDistinct
  <2>2. session'[p] = nextId
    BY <1>1
  <2>3. \A q \in members' : session'[q] \in 1..(nextId' - 1)
    <3>1. ASSUME NEW q \in members' PROVE q = p \/ q \in members
      BY <1>1
    <3>2. nextId \in Nat \ {0}
      OBVIOUS
    <3>3. ASSUME NEW q \in members PROVE session'[q] \in 1..(nextId' - 1)
      <4>1. session[q] \in 1..(nextId - 1)
        BY DEF SessionsDistinct
      <4>. HIDE DEF HostIInv, HostBooks, HostTypeOK, MatchTypeOK
      <4>2. QED
        BY <1>1, <2>1, <3>2, <4>1
    <3>. HIDE DEF HostIInv, HostBooks, HostTypeOK, MatchTypeOK
    <3>4. QED
      BY <1>1, <2>2, <3>1, <3>2, <3>3
  <2>4. QED
    BY <1>1, <2>1, <2>2, <2>3, ZenonT(30) DEF SessionsDistinct
<1>3. SessionsOf(members)' = SessionsOf(members) \cup {nextId}
  BY <1>1, SMTT(30) DEF SessionsOf
<1>4. /\ DOMAIN players' = DOMAIN players \cup {nextId}
      /\ players'[nextId] = [peer |-> p, commands |-> 0]
      /\ \A s \in DOMAIN players : s # nextId => players'[s] = players[s]
  BY DEF WithPlayer
<1>5. nextId \notin DOMAIN players
  BY DEF BooksAgree, SessionsOf, SessionsDistinct
<1>6. HostTypeOK'
  <2>1. /\ DOMAIN players' \subseteq 1..nextId'
        /\ \A s \in DOMAIN players' : players'[s] \in [peer : Peers, commands : 0..nextId']
    <3>1. nextId \in Nat \ {0} /\ DOMAIN players \subseteq 1..nextId
      OBVIOUS
    <3>2. ASSUME NEW s \in DOMAIN players PROVE players[s] \in [peer : Peers, commands : 0..nextId]
      OBVIOUS
    <3>. HIDE DEF HostIInv, HostBooks, HostTypeOK, MatchTypeOK
    <3>3. DOMAIN players' \subseteq 1..nextId'
      BY <1>1, <1>4, <3>1
    <3>4. ASSUME NEW s \in DOMAIN players PROVE players'[s] \in [peer : Peers, commands : 0..nextId']
      BY <1>1, <1>4, <1>5, <3>1, <3>2
    <3>5. players'[nextId] \in [peer : Peers, commands : 0..nextId']
      BY <1>1, <1>4, <3>1
    <3>6. QED
      BY <1>4, <3>3, <3>4, <3>5
  <2>2. bodies' \in [DOMAIN bodies' -> 1..nextEntity']
    BY <1>1 DEF simVars
  <2>3. /\ simulating' \in BOOLEAN /\ policy' \in {"playing", "ended"}
        /\ simThread' \in {"idle", "ticking", "acting"} /\ action' \in Nat
    BY DEF simVars
  <2>4. matchId' \in Nat /\ matchWinner' \in Nat /\ told' \in Nat /\ failed' \in BOOLEAN
    OBVIOUS
  <2>5. QED
    BY <2>1, <2>2, <2>3, <2>4
<1>7. BooksAgree'
  <2>1. DOMAIN players' = SessionsOf(members)'
    BY <1>3, <1>4 DEF BooksAgree
  <2>2. ASSUME NEW q \in members' PROVE players'[session'[q]].peer = q
    <3>1. CASE q = p
      <4>1. session \in [Peers -> Nat]
        OBVIOUS
      <4>. HIDE DEF HostIInv, HostBooks, HostTypeOK, MatchTypeOK
      <4>2. session'[q] = nextId
        BY <1>1, <3>1, <4>1
      <4>3. QED
        BY <1>4, <3>1, <4>2
    <3>2. CASE q \in members
      <4>1. session[q] \in DOMAIN players /\ players[session[q]].peer = q
        BY <3>2 DEF BooksAgree, SessionsOf
      <4>2. session'[q] = session[q]
        BY <1>1, <3>2
      <4>. HIDE DEF HostIInv, HostBooks, HostTypeOK, MatchTypeOK
      <4>3. QED
        BY <1>4, <1>5, <4>1, <4>2
    <3>3. QED
      BY <1>1, <3>1, <3>2
  <2>3. QED
    BY <1>1, <2>1, <2>2 DEF BooksAgree, simVars
<1>8. CommandsOfThisMatch'
  BY <1>1 DEF CommandsOfThisMatch
<1>9. CaptureRecord' /\ CaptureTracks'
  <2>1. UNCHANGED <<bodies, simulating, capture>>
    BY DEF simVars
  <2>2. CaptureRecord'
    BY <2>1 DEF CaptureRecord
  <2>3. ASSUME simulating PROVE DOMAIN capture.entrants \subseteq 1..(nextId - 1)
    BY <2>3 DEF CaptureTracks
  <2>4. ASSUME simulating, NEW s \in DOMAIN capture.entrants PROVE s \in DOMAIN players' <=> s \in DOMAIN players
    BY <1>4, <2>3, <2>4, SMTT(30)
  <2>5. DOMAIN capture.entrants \subseteq 1..(nextId' - 1) \/ ~simulating
    BY <1>1, <2>3, SMTT(30)
  <2>6. CaptureTracks'
    <3>. HIDE DEF HostIInv, HostBooks, HostTypeOK, MatchTypeOK
    <3>1. CaptureTracks
      BY DEF HostIInv, HostBooks
    <3>2. QED
      BY <2>1, <2>4, <2>5, <3>1 DEF CaptureTracks
  <2>7. QED
    BY <2>2, <2>6
<1>10. WinnerTold' /\ matchId' \in 0..(nextId' - 1)
  BY <1>1, SMTT(30) DEF WinnerTold, simVars
<1>11. QED
  BY <1>2, <1>6, <1>7, <1>8, <1>9, <1>10

(* Agreement needs of the Host's players no more than whose they are.      *)
LEMMA AgreementKept ==
  ASSUME BooksAgree, UNCHANGED <<members, session, bodies, simulating>>, inMatch' => inMatch,
         DOMAIN players' = DOMAIN players,
         \A s \in DOMAIN players : players'[s].peer = players[s].peer
  PROVE  BooksAgree'
<1>1. SessionsOf(members)' = SessionsOf(members)
  BY DEF SessionsOf
<1>2. \A p \in members : session[p] \in DOMAIN players
  BY DEF BooksAgree, SessionsOf
<1>3. \A p \in members' : players'[session'[p]].peer = p
  BY <1>2 DEF BooksAgree
<1>4. inMatch' => simulating' /\ Playing' \subseteq DOMAIN bodies'
  BY <1>1 DEF BooksAgree, Playing
<1>5. QED
  BY <1>1, <1>3, <1>4 DEF BooksAgree

(* The record of a capture that nobody touches stands.                     *)
LEMMA CaptureKept ==
  ASSUME CaptureRecord, CaptureTracks, UNCHANGED <<bodies, simulating, capture, nextId>>,
         DOMAIN players' = DOMAIN players
  PROVE  CaptureRecord' /\ CaptureTracks'
BY DEF CaptureRecord, CaptureTracks

(* A Ready concerns the Match alone, and never one in progress.            *)
LEMMA ReadyPreservesBooks ==
  ASSUME HostIInv, MatchTypeOK', NEW p \in Peers, NEW version, Ready(p, version),
         UNCHANGED <<conn, players, simVars, matchId, matchWinner, told, failed>>
  PROVE  HostBooks'
<1>1. UNCHANGED <<members, session, inMatch, nextEntity, nextId, bodies, simulating, capture>>
  BY DEF Ready, simVars
<1>2. HostTypeOK'
  BY <1>1 DEF HostIInv, HostBooks, HostTypeOK, simVars
<1>3. SessionsDistinct' /\ matchId' \in 0..(nextId' - 1)
  BY <1>1 DEF HostIInv, HostBooks, SessionsDistinct
<1>4. BooksAgree'
  BY <1>1, AgreementKept DEF HostIInv, HostBooks
<1>5. CommandsOfThisMatch'
  BY <1>1 DEF HostIInv, HostBooks, CommandsOfThisMatch, Playing, Ready, ReadyAccepted
<1>6. CaptureRecord' /\ CaptureTracks'
  BY <1>1, CaptureKept DEF HostIInv, HostBooks
<1>7. WinnerTold'
  BY <1>1 DEF HostIInv, HostBooks, WinnerTold
<1>8. QED
  BY <1>2, <1>3, <1>4, <1>5, <1>6, <1>7 DEF HostBooks

(***************************************************************************)
(* A command taken in is tagged with the match in progress, so it is of    *)
(* this one (HandleCommands).                                              *)
(***************************************************************************)
LEMMA CommandsPreserveBooks ==
  ASSUME HostIInv, NEW p \in Peers, HandleCommands(p)
  PROVE  HostBooks'
<1>1. /\ UNCHANGED <<members, session, inMatch, nextEntity, nextId, bodies, simulating, capture>>
      /\ UNCHANGED <<conn, policy, simThread, action, matchId, matchWinner, told, failed>>
      /\ UNCHANGED matchVars
  BY DEF HandleCommands, matchVars, bookVars, simVars, linkVars
<1>2. /\ DOMAIN players' = DOMAIN players
      /\ \A s \in DOMAIN players :
           players'[s] = [players[s] EXCEPT
                            !.commands = IF s = session[p] THEN matchId ELSE players[s].commands]
  <2>1. \A s \in DOMAIN players : players[s] \in [peer : Peers, commands : 0..nextId]
    BY DEF HostIInv, HostBooks, HostTypeOK
  <2>2. QED
    BY <2>1 DEF HandleCommands
<1>3. HostTypeOK'
  <2>1. \A s \in DOMAIN players : players[s] \in [peer : Peers, commands : 0..nextId]
    BY DEF HostIInv, HostBooks, HostTypeOK
  <2>2. matchId \in 0..nextId
    BY DEF HostIInv, HostBooks, HostTypeOK, MatchTypeOK
  <2>3. \A s \in DOMAIN players' : players'[s] \in [peer : Peers, commands : 0..nextId']
    BY <1>1, <1>2, <2>1, <2>2
  <2>4. MatchTypeOK'
    BY <1>1 DEF HostIInv, HostBooks, HostTypeOK, MatchTypeOK, matchVars, bookVars
  <2>5. QED
    BY <1>1, <1>2, <2>3, <2>4 DEF HostIInv, HostBooks, HostTypeOK
<1>4. SessionsDistinct' /\ matchId' \in 0..(nextId' - 1)
  BY <1>1 DEF HostIInv, HostBooks, SessionsDistinct
<1>5. BooksAgree'
  <2>1. \A s \in DOMAIN players : players[s] \in [peer : Peers, commands : 0..nextId]
    BY DEF HostIInv, HostBooks, HostTypeOK
  <2>2. \A s \in DOMAIN players : players'[s].peer = players[s].peer
    BY <1>2, <2>1
  <2>3. QED
    BY <1>1, <1>2, <2>2, AgreementKept DEF HostIInv, HostBooks
<1>6. CommandsOfThisMatch'
  <2>1. Playing' = Playing /\ Playing \subseteq DOMAIN players
    BY <1>1 DEF HostIInv, HostBooks, BooksAgree, Playing, SessionsOf
  <2>2. \A s \in Playing : players'[s].commands = IF s = session[p] THEN matchId ELSE players[s].commands
    BY <1>2, <2>1 DEF HostIInv, HostBooks, HostTypeOK
  <2>3. QED
    BY <1>1, <2>1, <2>2 DEF HostIInv, HostBooks, CommandsOfThisMatch
<1>7. CaptureRecord' /\ CaptureTracks'
  BY <1>1, <1>2, CaptureKept DEF HostIInv, HostBooks
<1>8. WinnerTold'
  BY <1>1 DEF HostIInv, HostBooks, WinnerTold
<1>9. QED
  BY <1>3, <1>4, <1>5, <1>6, <1>7, <1>8 DEF HostBooks

(***************************************************************************)
(* However the Host ends a match, the winner it keeps for the capture is   *)
(* the one it tells the players of (EndMatch).                             *)
(***************************************************************************)
LEMMA EndMatchPreservesBooks ==
  ASSUME HostIInv, MatchTypeOK', NEW winner, EndMatch(winner),
         UNCHANGED <<conn, players, bodies, simulating, policy, capture, matchId, failed>>,
         simThread' \in {"idle", "ticking", "acting"}, action' \in Nat
  PROVE  HostBooks'
<1>1. /\ UNCHANGED <<members, session, nextEntity, nextId>>
      /\ inMatch /\ ~inMatch'
  BY DEF EndMatch, End, BackToLobby
<1>2. told' = matchWinner' /\ told' \in Nat
  <2>1. Playing \subseteq Nat
    BY DEF HostIInv, HostBooks, HostTypeOK, MatchTypeOK, Playing, SessionsOf
  <2>2. QED
    BY <2>1 DEF EndMatch, WinnerOf, IsPlaying, None
<1>3. HostTypeOK'
  BY <1>1, <1>2 DEF HostIInv, HostBooks, HostTypeOK
<1>4. SessionsDistinct' /\ matchId' \in 0..(nextId' - 1)
  BY <1>1 DEF HostIInv, HostBooks, SessionsDistinct
<1>5. BooksAgree'
  BY <1>1, AgreementKept DEF HostIInv, HostBooks
<1>6. CommandsOfThisMatch'
  BY <1>1 DEF CommandsOfThisMatch
<1>7. CaptureRecord' /\ CaptureTracks'
  BY <1>1, CaptureKept DEF HostIInv, HostBooks
<1>8. WinnerTold'
  BY <1>1, <1>2 DEF WinnerTold
<1>9. QED
  BY <1>3, <1>4, <1>5, <1>6, <1>7, <1>8 DEF HostBooks

-----------------------------------------------------------------------------
(* What PrepareTick takes out of the simulation, and what it keeps.        *)
LEMMA BodiesKept ==
  ASSUME HostIInv
  PROVE  /\ DOMAIN KeptBodies = (IF EndedMatch THEN {} ELSE DOMAIN bodies \cap Playing)
         /\ \A s \in DOMAIN KeptBodies : KeptBodies[s] = bodies[s]
         /\ ~simulating => KeptBodies = <<>>
         /\ EndedMatch => KeptBodies = <<>>
<1>1. CASE EndedMatch
  BY <1>1 DEF KeptBodies, EndedMatch
<1>2. CASE ~EndedMatch
  <2>1. DOMAIN bodies \ Removed = DOMAIN bodies \cap Playing
    BY <1>2 DEF Removed, IsPlaying
  <2>2. DOMAIN KeptBodies = DOMAIN bodies \cap Playing
    BY <1>2, <2>1 DEF KeptBodies, Restrict
  <2>3. \A s \in DOMAIN KeptBodies : KeptBodies[s] = bodies[s]
    BY <1>2, <2>1 DEF KeptBodies, Restrict
  <2>4. ~simulating => KeptBodies = <<>>
    <3>1. SUFFICES ASSUME ~simulating PROVE KeptBodies = <<>>
      OBVIOUS
    <3>2. bodies = <<>>
      BY <3>1 DEF HostIInv, HostBooks, BooksAgree
    <3>3. DOMAIN bodies \ Removed = {}
      BY <3>2
    <3>4. QED
      BY <1>2, <3>3 DEF KeptBodies, Restrict
  <2>5. QED
    BY <1>2, <2>2, <2>3, <2>4
<1>3. QED
  BY <1>1, <1>2

(***************************************************************************)
(* A tick that starts no match: an ended one leaves the simulation and its *)
(* capture closes; of one in progress, who left leaves it.                 *)
(***************************************************************************)
LEMMA TickPreservesBooks ==
  ASSUME HostIInv, MatchTypeOK', PrepareTickNoStart,
         UNCHANGED <<conn, matchWinner, action, failed>>, simThread' = "ticking"
  PROVE  HostBooks'
<1>1. UNCHANGED <<members, session, inMatch, nextEntity, nextId, policy, matchId, told>>
  BY DEF PrepareTickNoStart, TickWithoutStart
<1>2. /\ DOMAIN players' = DOMAIN players
      /\ \A s \in DOMAIN players :
           players'[s] = [players[s] EXCEPT
                            !.commands = IF IsPlaying(s) THEN None ELSE players[s].commands]
  <2>1. \A s \in DOMAIN players : players[s] \in [peer : Peers, commands : 0..nextId]
    BY DEF HostIInv, HostBooks, HostTypeOK
  <2>2. QED
    BY <2>1 DEF PrepareTickNoStart, CommandsTaken
<1>3. \A s \in DOMAIN players : players[s] \in [peer : Peers, commands : 0..nextId]
  BY DEF HostIInv, HostBooks, HostTypeOK
<1>4. /\ bodies' = KeptBodies
      /\ \A s \in DOMAIN bodies' : s \in DOMAIN bodies /\ bodies'[s] = bodies[s]
  BY BodiesKept DEF PrepareTickNoStart
<1>5. simulating' = (simulating /\ inMatch)
  BY DEF PrepareTickNoStart
<1>6. HostTypeOK'
  <2>1. bodies' \in [DOMAIN bodies' -> 1..nextEntity']
    <3>1. bodies' = [s \in DOMAIN bodies' |-> bodies'[s]]
      <4>1. CASE EndedMatch
        <5>1. bodies' = <<>> /\ DOMAIN bodies' = {}
          BY <1>4, <4>1 DEF KeptBodies
        <5>2. QED
          BY <5>1
      <4>2. CASE ~EndedMatch
        BY <1>4, <4>2 DEF KeptBodies, Restrict
      <4>3. QED
        BY <4>1, <4>2
    <3>2. \A s \in DOMAIN bodies : bodies[s] \in 1..nextEntity
      BY DEF HostIInv, HostBooks, HostTypeOK
    <3>3. \A s \in DOMAIN bodies' : bodies'[s] \in 1..nextEntity'
      BY <1>1, <1>4, <3>2
    <3>4. QED
      BY <3>1, <3>3
  <2>2. nextId \in Nat \ {0}
    BY DEF HostIInv, HostBooks, HostTypeOK, MatchTypeOK
  <2>3. \A s \in DOMAIN players' : players'[s] \in [peer : Peers, commands : 0..nextId']
    BY <1>1, <1>2, <1>3, <2>2 DEF None
  <2>4. simulating' \in BOOLEAN
    BY <1>5
  <2>5. QED
    BY <1>1, <1>2, <2>1, <2>3, <2>4 DEF HostIInv, HostBooks, HostTypeOK
<1>7. SessionsDistinct' /\ matchId' \in 0..(nextId' - 1)
  BY <1>1 DEF HostIInv, HostBooks, SessionsDistinct
<1>8. SessionsOf(members)' = SessionsOf(members) /\ Playing' = Playing
  BY <1>1 DEF SessionsOf, Playing
<1>9. Playing \subseteq DOMAIN players /\ (inMatch => Playing = DOMAIN players)
  BY DEF HostIInv, HostBooks, BooksAgree, Playing
<1>10. BooksAgree'
  <2>1. DOMAIN players' = SessionsOf(members)'
    BY <1>2, <1>8 DEF HostIInv, HostBooks, BooksAgree
  <2>2. \A p \in members' : players'[session'[p]].peer = p
    <3>1. \A p \in members : session[p] \in DOMAIN players /\ players[session[p]].peer = p
      BY DEF HostIInv, HostBooks, BooksAgree, SessionsOf
    <3>2. \A s \in DOMAIN players : players'[s].peer = players[s].peer
      BY <1>2, <1>3
    <3>3. QED
      BY <1>1, <3>1, <3>2
  <2>3. inMatch' => simulating' /\ Playing' \subseteq DOMAIN bodies'
    BY <1>1, <1>4, <1>5, <1>8, BodiesKept DEF HostIInv, HostBooks, BooksAgree, EndedMatch
  <2>4. ~simulating' => bodies' = <<>>
    BY <1>4, <1>5, BodiesKept DEF EndedMatch
  <2>5. QED
    BY <2>1, <2>2, <2>3, <2>4 DEF BooksAgree
<1>11. CommandsOfThisMatch'
  <2>1. \A s \in Playing : players'[s].commands = None
    BY <1>2, <1>3, <1>9 DEF IsPlaying
  <2>2. QED
    BY <1>8, <2>1 DEF CommandsOfThisMatch
<1>12. CaptureRecord
  BY DEF HostIInv, HostBooks
<1>13. capture' = CaptureTakenOut
  BY DEF PrepareTickNoStart
<1>14. CaptureRecord'
  <2>1. /\ capture'.entrants = capture.entrants /\ capture'.left = CapturedLeaves
        /\ capture'.open = (capture.open /\ ~EndedMatch)
        /\ capture' = [open |-> capture'.open, entrants |-> capture'.entrants,
                       left |-> capture'.left, winner |-> capture'.winner]
    <3>. HIDE DEF EndedMatch
    <3>1. CASE EndedMatch
      BY <1>12, <1>13, <3>1 DEF CaptureRecord, CaptureTakenOut
    <3>2. CASE ~EndedMatch
      <4>1. capture.open \in BOOLEAN
        BY <1>12 DEF CaptureRecord, HostIInv, HostBooks, HostTypeOK
      <4>2. QED
        BY <1>12, <1>13, <3>2, <4>1 DEF CaptureRecord, CaptureTakenOut
    <3>3. QED
      BY <3>1, <3>2
  <2>2. CapturedLeaves = [s \in DOMAIN capture.entrants |-> CapturedLeaves[s]]
    BY <1>12 DEF CaptureRecord, CapturedLeaves
  <2>3. QED
    BY <1>5, <1>12, <2>1, <2>2 DEF CaptureRecord, EndedMatch
<1>15. CaptureTracks'
  <2>1. SUFFICES ASSUME simulating' PROVE CaptureTracks'
    BY DEF CaptureTracks
  <2>2. simulating /\ inMatch /\ ~EndedMatch
    BY <1>5, <2>1 DEF EndedMatch
  <2>3. capture'.entrants = capture.entrants
    BY <1>12, <1>13 DEF CaptureRecord, CaptureTakenOut
  <2>4. \A s \in DOMAIN capture.entrants :
          capture'.left[s] = capture.left[s] + (IF s \in Removed THEN 1 ELSE 0)
    BY <1>12, <1>13 DEF CaptureRecord, CaptureTakenOut, CapturedLeaves
  <2>5. DOMAIN bodies' = DOMAIN bodies \cap DOMAIN players
    BY <1>4, <1>9, <2>2, BodiesKept
  <2>6. Removed = DOMAIN bodies \ DOMAIN players
    BY <1>9, <2>2 DEF Removed, IsPlaying
  <2>7. ASSUME NEW s \in DOMAIN capture.entrants
        PROVE  \/ s \in DOMAIN bodies' /\ capture'.left[s] = 0
               \/ s \notin DOMAIN bodies' /\ s \notin DOMAIN players' /\ capture'.left[s] = 1
    <3>1. CASE s \in DOMAIN bodies /\ capture.left[s] = 0
      BY <1>2, <2>4, <2>5, <2>6, <3>1
    <3>2. CASE s \notin DOMAIN bodies /\ s \notin DOMAIN players /\ capture.left[s] = 1
      BY <1>2, <2>4, <2>5, <2>6, <3>2
    <3>3. QED
      BY <2>2, <3>1, <3>2 DEF HostIInv, HostBooks, CaptureTracks
  <2>8. QED
    BY <1>1, <2>2, <2>3, <2>5, <2>7 DEF HostIInv, HostBooks, CaptureTracks
<1>16. WinnerTold'
  BY <1>1, <1>5 DEF HostIInv, HostBooks, WinnerTold
<1>17. QED
  BY <1>6, <1>7, <1>10, <1>11, <1>14, <1>15, <1>16 DEF HostBooks

(* The entities given out are the next, one for each member.               *)
LEMMA EntitiesAreNew ==
  ASSUME MatchTypeOK
  PROVE  /\ Cardinality(members) \in Nat
         /\ \A p \in members : EntityOf(p) \in 1..(nextEntity + Cardinality(members))
<1>1. IsFiniteSet(members)
  BY PeersAssumption, FS_Subset DEF MatchTypeOK
<1>2. Cardinality(members) \in Nat
  BY <1>1, FS_CardinalityType
<1>3. ASSUME NEW p \in members
      PROVE  EntityOf(p) \in 1..(nextEntity + Cardinality(members))
  <2>. DEFINE earlier == {q \in members : session[q] < session[p]}
  <2>1. earlier \subseteq members
    OBVIOUS
  <2>2. Cardinality(earlier) \in Nat /\ Cardinality(earlier) <= Cardinality(members)
    <3>1. IsFiniteSet(earlier) /\ Cardinality(earlier) <= Cardinality(members)
      BY <1>1, <2>1, FS_Subset
    <3>2. QED
      BY <3>1, FS_CardinalityType
  <2>3. EntityOf(p) = nextEntity + Cardinality(earlier)
    BY DEF EntityOf
  <2>. HIDE DEF earlier
  <2>4. QED
    BY <1>2, <2>2, <2>3 DEF MatchTypeOK
<1>4. QED
  BY <1>2, <1>3

(***************************************************************************)
(* A tick that starts a match: everyone in the Lobby enters a simulation   *)
(* that holds nobody, with an empty queue and a capture of its own.        *)
(***************************************************************************)
LEMMA StartPreservesBooks ==
  ASSUME HostIInv, MatchTypeOK', StartMatch,
         UNCHANGED <<conn, matchWinner, action, failed>>, simThread' = "ticking"
  PROVE  HostBooks'
<1>1. /\ UNCHANGED <<members, session>>
      /\ ~inMatch /\ inMatch'
      /\ nextId' = nextId + 1 /\ nextEntity' = nextEntity + Cardinality(members)
  BY DEF StartMatch, TryStart, CanStart
<1>2. MatchTypeOK /\ nextId \in Nat \ {0}
  BY DEF HostIInv, HostBooks, HostTypeOK, MatchTypeOK
<1>3. DOMAIN Entrants = SessionsOf(members) /\ DOMAIN players = SessionsOf(members)
  BY DEF Entrants, HostIInv, HostBooks, BooksAgree
<1>4. DOMAIN KeptBodies = {}
  <2>1. CASE EndedMatch
    BY <2>1, BodiesKept
  <2>2. CASE ~simulating
    BY <2>2, BodiesKept
  <2>3. QED
    BY <1>1, <2>1, <2>2 DEF EndedMatch
<1>5. bodies' = [s \in SessionsOf(members) |-> Entrants[s]]
  BY <1>3, <1>4 DEF StartMatch
<1>6. \A s \in DOMAIN players : players[s] \in [peer : Peers, commands : 0..nextId]
  BY DEF HostIInv, HostBooks, HostTypeOK
<1>7. /\ DOMAIN players' = DOMAIN players
      /\ \A s \in DOMAIN players : players'[s] = [players[s] EXCEPT !.commands = None]
  BY <1>3, <1>6 DEF StartMatch, FreshCommands
<1>8. simulating' = TRUE /\ policy' = "playing" /\ matchId' = nextId /\ told' = None
  BY DEF StartMatch
<1>9. SessionsOf(members)' = SessionsOf(members)
  BY <1>1 DEF SessionsOf
<1>10. ASSUME NEW s \in SessionsOf(members) PROVE Entrants[s] \in 1..nextEntity'
  <2>. DEFINE q == CHOOSE q \in members : session[q] = s
  <2>1. PICK p \in members : session[p] = s
    BY DEF SessionsOf
  <2>2. q \in members
    BY <2>1
  <2>. HIDE DEF q
  <2>3. EntityOf(q) \in 1..(nextEntity + Cardinality(members))
    BY <1>2, <2>2, EntitiesAreNew
  <2>4. Entrants[s] = EntityOf(q)
    BY DEF Entrants, q
  <2>5. QED
    BY <1>1, <2>3, <2>4
<1>11. HostTypeOK'
  <2>1. bodies' \in [DOMAIN bodies' -> 1..nextEntity']
    BY <1>5, <1>10
  <2>2. \A s \in DOMAIN players' : players'[s] \in [peer : Peers, commands : 0..nextId']
    BY <1>1, <1>2, <1>6, <1>7 DEF None
  <2>3. DOMAIN players' \subseteq 1..nextId'
    <3>1. DOMAIN players \subseteq 1..nextId
      BY DEF HostIInv, HostBooks, HostTypeOK
    <3>2. QED
      BY <1>1, <1>2, <1>7, <3>1
  <2>4. matchId' \in Nat /\ told' \in Nat
    BY <1>2, <1>8 DEF None
  <2>5. QED
    BY <1>8, <2>1, <2>2, <2>3, <2>4 DEF HostIInv, HostBooks, HostTypeOK
<1>12. SessionsDistinct'
  BY <1>1, <1>2 DEF HostIInv, HostBooks, SessionsDistinct
<1>13. BooksAgree'
  <2>1. ASSUME NEW p \in members' PROVE players'[session'[p]].peer = p
    <3>1. session[p] \in DOMAIN players /\ players[session[p]].peer = p
      BY <1>1 DEF HostIInv, HostBooks, BooksAgree, SessionsOf
    <3>2. QED
      BY <1>1, <1>6, <1>7, <3>1
  <2>2. DOMAIN bodies' = SessionsOf(members)
    BY <1>5
  <2>3. QED
    BY <1>3, <1>7, <1>8, <1>9, <2>1, <2>2 DEF BooksAgree, Playing
<1>14. CommandsOfThisMatch'
  <2>1. Playing' = DOMAIN players
    BY <1>1, <1>3, <1>9 DEF Playing
  <2>2. \A s \in DOMAIN players : players'[s].commands = None
    BY <1>6, <1>7
  <2>3. QED
    BY <2>1, <2>2 DEF CommandsOfThisMatch
<1>15. capture' = [open |-> TRUE, entrants |-> Entrants,
                   left |-> [s \in DOMAIN Entrants |-> 0], winner |-> None]
  BY DEF StartMatch
<1>16. CaptureRecord'
  BY <1>8, <1>15 DEF CaptureRecord
<1>17. CaptureTracks'
  <2>1. capture'.entrants = Entrants /\ capture'.left = [s \in SessionsOf(members) |-> 0]
    BY <1>3, <1>15
  <2>2. SessionsOf(members) \subseteq 1..(nextId' - 1)
    <3>1. \A p \in members : session[p] \in 1..(nextId - 1)
      BY DEF HostIInv, HostBooks, SessionsDistinct
    <3>2. QED
      BY <1>1, <1>2, <3>1 DEF SessionsOf
  <2>3. DOMAIN bodies' = SessionsOf(members)
    BY <1>5
  <2>4. QED
    BY <1>3, <2>1, <2>2, <2>3 DEF CaptureTracks
<1>18. WinnerTold' /\ matchId' \in 0..(nextId' - 1)
  BY <1>1, <1>2, <1>8 DEF WinnerTold
<1>19. QED
  BY <1>11, <1>12, <1>13, <1>14, <1>16, <1>17, <1>18 DEF HostBooks

(***************************************************************************)
(* The tick itself runs without the mutex, and touches none of the books;  *)
(* what Game policy decided in it is a session or a draw.                  *)
(***************************************************************************)
LEMMA RunTickPreservesBooks ==
  ASSUME HostIInv, RunTick
  PROVE  HostBooks'
<1>1. /\ UNCHANGED <<members, session, inMatch, nextEntity, nextId, bodies, simulating, capture>>
      /\ UNCHANGED <<matchVars, conn, players, matchId, matchWinner, told, failed>>
  BY DEF RunTick, matchVars, bookVars, linkVars
<1>2. action' \in Nat
  <2>1. DOMAIN bodies \subseteq Nat
    <3>1. CASE simulating
      BY <3>1 DEF HostIInv, HostBooks, CaptureTracks
    <3>2. CASE ~simulating
      <4>1. bodies = <<>>
        BY <3>2 DEF HostIInv, HostBooks, BooksAgree
      <4>2. QED
        BY <4>1
    <3>3. QED
      BY <3>1, <3>2
  <2>2. action \in Nat
    BY DEF HostIInv, HostBooks, HostTypeOK
  <2>3. QED
    BY <2>1, <2>2 DEF RunTick, None
<1>3. HostTypeOK'
  <2>1. MatchTypeOK'
    BY <1>1 DEF HostIInv, HostBooks, HostTypeOK, MatchTypeOK, matchVars, bookVars
  <2>2. policy' \in {"playing", "ended"} /\ simThread' \in {"idle", "ticking", "acting"}
    BY DEF RunTick, HostIInv, HostBooks, HostTypeOK
  <2>3. QED
    BY <1>1, <1>2, <2>1, <2>2 DEF HostIInv, HostBooks, HostTypeOK
<1>4. SessionsDistinct' /\ matchId' \in 0..(nextId' - 1)
  BY <1>1 DEF HostIInv, HostBooks, SessionsDistinct
<1>5. BooksAgree'
  BY <1>1, AgreementKept DEF HostIInv, HostBooks
<1>6. CommandsOfThisMatch'
  BY <1>1 DEF HostIInv, HostBooks, CommandsOfThisMatch, Playing, SessionsOf
<1>7. CaptureRecord' /\ CaptureTracks'
  BY <1>1, CaptureKept DEF HostIInv, HostBooks
<1>8. WinnerTold'
  BY <1>1 DEF HostIInv, HostBooks, WinnerTold
<1>9. QED
  BY <1>3, <1>4, <1>5, <1>6, <1>7, <1>8 DEF HostBooks

-----------------------------------------------------------------------------
(* A Host just started: no one has joined, and nothing is simulated.       *)
LEMMA HostInitEstablishes == HostInit => HostIInv
<1>1. HostInit => MatchInv
  BY InitEstablishes DEF HostInit
<1>2. ASSUME HostInit PROVE HostBooks
  <2>. USE <1>2 DEF HostInit, MatchInit
  <2>1. HostTypeOK
    <3>1. bodies \in [DOMAIN bodies -> 1..nextEntity]
      <4>1. <<>> \in [{} -> 1..nextEntity]
        OBVIOUS
      <4>2. QED
        BY <4>1
    <3>2. DOMAIN players \subseteq 1..nextId /\ DOMAIN players = {}
      OBVIOUS
    <3>3. QED
      BY <1>1, <3>1, <3>2 DEF HostTypeOK, MatchInv, None
  <2>2. SessionsDistinct /\ matchId \in 0..(nextId - 1)
    BY DEF SessionsDistinct, None
  <2>3. BooksAgree /\ CommandsOfThisMatch
    BY DEF BooksAgree, CommandsOfThisMatch, SessionsOf, None
  <2>4. CaptureRecord /\ CaptureTracks /\ WinnerTold
    BY DEF CaptureRecord, CaptureTracks, WinnerTold, NoCapture, None
  <2>5. QED
    BY <2>1, <2>2, <2>3, <2>4 DEF HostBooks
<1>3. QED
  BY <1>1, <1>2 DEF HostIInv

(* Every handler of a peer's event or message keeps the Host's books.      *)
LEMMA HandlersPreserveBooks ==
  ASSUME HostIInv, MatchTypeOK', NEW p \in Peers,
         \/ HandleDisconnected(p) \/ HandleMisbehaviour(p) \/ HandleOverdue(p)
         \/ HandleJoinRequest(p) \/ HandleReady(p) \/ HandleCommands(p)
  PROVE  HostBooks'
<1>1. conn \in [Peers -> {"none", "open", "ending", "closed"}] /\ failed \in BOOLEAN
  BY DEF HostIInv, HostBooks, HostTypeOK
<1>2. CASE HandleDisconnected(p) \/ HandleMisbehaviour(p) \/ HandleOverdue(p)
  <2>1. Closed(p) /\ HandleDisconnect(p) /\ UNCHANGED <<simVars, matchId, told, failed>>
    BY <1>2 DEF HandleDisconnected, HandleMisbehaviour, HandleOverdue, Expel
  <2>2. ConnTypeOK'
    BY <1>1, <2>1 DEF ConnTypeOK, Closed
  <2>3. CASE UNCHANGED <<matchVars, players, matchWinner>>
    BY <1>1, <2>1, <2>2, <2>3, QuietPreserves DEF HostIInv
  <2>4. CASE /\ \/ (LeaveLobby(p) \/ LeaveMatch(p)) /\ UNCHANGED matchWinner
                \/ LeaveEndsMatch(p) /\ matchWinner' = None
             /\ players' = WithoutPlayer(p)
    BY <2>1, <2>2, <2>4, DeparturePreserves
  <2>5. QED
    BY <2>1, <2>3, <2>4 DEF HandleDisconnect
<1>3. CASE HandleJoinRequest(p)
  <2>1. UNCHANGED <<conn, simVars, matchId, matchWinner, told, failed>>
    BY <1>3 DEF HandleJoinRequest
  <2>2. ConnTypeOK' /\ failed' \in BOOLEAN
    BY <1>1, <2>1 DEF ConnTypeOK
  <2>3. CASE UNCHANGED <<matchVars, players>>
    BY <2>1, <2>2, <2>3, QuietPreserves DEF HostIInv
  <2>4. ASSUME NEW faults, Join(p, faults), players' = WithPlayer(p)
        PROVE  HostBooks'
    BY <2>1, <2>4, JoinPreservesBooks
  <2>5. QED
    BY <1>3, <2>3, <2>4 DEF HandleJoinRequest
<1>4. CASE HandleReady(p)
  <2>. DEFINE version == Head(toServer[p]).version
  <2>1. UNCHANGED <<conn, players, simVars, matchId, matchWinner, told, failed>>
    BY <1>4 DEF HandleReady
  <2>2. ConnTypeOK' /\ failed' \in BOOLEAN
    BY <1>1, <2>1 DEF ConnTypeOK
  <2>3. CASE UNCHANGED matchVars
    BY <2>1, <2>2, <2>3, QuietPreserves DEF HostIInv
  <2>4. CASE Ready(p, version)
    BY <2>1, <2>4, ReadyPreservesBooks
  <2>5. QED
    BY <1>4, <2>3, <2>4 DEF HandleReady
<1>5. CASE HandleCommands(p)
  BY <1>5, CommandsPreserveBooks
<1>6. QED
  BY <1>2, <1>3, <1>4, <1>5

(* And so does every step of the Simulation thread, and of the Host's owner. *)
LEMMA TicksPreserveBooks ==
  ASSUME HostIInv, MatchTypeOK', HostEndMatch \/ PrepareTick \/ RunTick \/ Act
  PROVE  HostBooks'
<1>1. CASE HostEndMatch
  <2>1. simThread \in {"idle", "ticking", "acting"} /\ action \in Nat
    BY DEF HostIInv, HostBooks, HostTypeOK
  <2>2. QED
    BY <1>1, <2>1, EndMatchPreservesBooks DEF HostEndMatch, simVars
<1>2. CASE PrepareTick
  BY <1>2, TickPreservesBooks, StartPreservesBooks DEF PrepareTick
<1>3. CASE RunTick
  BY <1>3, RunTickPreservesBooks
<1>4. CASE Act
  <2>1. simThread' \in {"idle", "ticking", "acting"} /\ action' \in Nat
    BY <1>4 DEF Act, None
  <2>2. CASE EndMatch(action)
    BY <1>4, <2>1, <2>2, EndMatchPreservesBooks DEF Act
  <2>3. CASE ~inMatch /\ UNCHANGED <<matchVars, toClient, matchWinner, told>>
    <3>. USE <1>4, <2>1, <2>3 DEF Act, HostIInv, HostBooks
    <3>1. UNCHANGED <<members, session, inMatch, nextEntity, nextId>>
      BY DEF matchVars, bookVars
    <3>2. HostTypeOK' /\ SessionsDistinct'
      BY <3>1 DEF HostTypeOK, MatchTypeOK, SessionsDistinct
    <3>3. BooksAgree' /\ CommandsOfThisMatch'
      BY <3>1 DEF BooksAgree, CommandsOfThisMatch, Playing, SessionsOf
    <3>4. CaptureRecord' /\ CaptureTracks' /\ WinnerTold'
      BY <3>1 DEF CaptureRecord, CaptureTracks, WinnerTold
    <3>5. QED
      BY <3>1, <3>2, <3>3, <3>4
  <2>4. QED
    BY <1>4, <2>2, <2>3 DEF Act
<1>5. QED
  BY <1>1, <1>2, <1>3, <1>4

(***************************************************************************)
(* A step of the server keeps the Match's invariant, as the Match's own do, *)
(* and the Host's books; a step of a client or of the Link touches neither. *)
(***************************************************************************)
LEMMA LobbyStepPreserves ==
  ASSUME HostIInv, [Next]_vars
  PROVE  HostIInv'
<1>1. MatchInv'
  BY LobbyStepIsMatchs, NextPreserves DEF HostIInv, MatchInv
<1>2. MatchTypeOK'
  BY <1>1 DEF MatchInv
<1>3. CASE HostStep
  BY <1>2, <1>3, HandlersPreserveBooks, TicksPreserveBooks, <1>1 DEF HostStep, HostIInv
<1>4. CASE ~HostStep
  <2>1. conn \in [Peers -> {"none", "open", "ending", "closed"}] /\ failed \in BOOLEAN
    BY DEF HostIInv, HostBooks, HostTypeOK
  <2>2. /\ UNCHANGED <<matchVars, players, simVars, matchId, matchWinner, told>>
        /\ ConnTypeOK' /\ failed' \in BOOLEAN
    <3>1. ASSUME NEW p \in Peers, ClientStep(p) PROVE <2>2
      BY <2>1, <3>1 DEF ClientStep, ClientConnect, Connect, ClientReceive, ClientPlan, ClientReportReady,
                        hostVars, linkVars, ConnTypeOK
    <3>2. CASE LinkStep \/ RecordFailure \/ UNCHANGED vars
      BY <2>1, <3>2 DEF LinkStep, ConnectionEnds, RecordFailure, vars, hostVars, linkVars, ConnTypeOK
    <3>3. QED
      BY <1>4, <3>1, <3>2 DEF Next
  <2>3. QED
    BY <1>1, <2>2, QuietPreserves DEF HostIInv
<1>5. QED
  BY <1>3, <1>4

(* The inductive invariant of the Host with its clients.                   *)
LEMMA HostInductive == Spec => []HostIInv
<1>1. Init => HostIInv
  BY HostInitEstablishes DEF Init
<1>2. HostIInv /\ [Next]_vars => HostIInv'
  BY LobbyStepPreserves
<1>3. QED
  BY <1>1, <1>2, PTL DEF Spec

-----------------------------------------------------------------------------
(***************************************************************************)
(* Whatever the peers send, the Link loses and the two threads interleave, *)
(* the Host's books agree with the Match's, so none of the lookups of the  *)
(* code throws, and every waiting command is of the match in progress.     *)
(***************************************************************************)
THEOREM HostInvariant == Spec => []HostInv
<1>1. HostIInv => HostInv
  BY DEF HostIInv, HostBooks, HostInv
<1>2. QED
  BY <1>1, HostInductive, PTL

(***************************************************************************)
(* The Host is a Match: every behaviour of the server with its clients is  *)
(* one the Match allows, its handlers, ticks and departures calling it as  *)
(* its methods say (host.cpp, host_network.cpp, host_match.cpp).           *)
(***************************************************************************)
THEOREM HostRunsTheMatch == Spec => MatchSpec
<1>1. Init => MatchInit
  BY DEF Init, HostInit
<1>2. HostIInv /\ [Next]_vars => [MatchNext]_matchVars
  BY LobbyStepIsMatchs DEF HostIInv, MatchInv
<1>3. QED
  BY <1>1, <1>2, HostInductive, PTL DEF Spec, MatchSpec

(***************************************************************************)
(* A capture that closes holds one Leave for each entrant gone from the    *)
(* server, none for one who is not, and the winner the players were told   *)
(* of (TakeOutEndedMatch, PrepareTick, HandleDisconnect).                  *)
(***************************************************************************)
THEOREM CapturesTellEveryDeparture == Spec => CaptureTellsEveryDeparture
<1>. DEFINE Told == capture.open /\ ~capture'.open =>
                      /\ \A s \in DOMAIN capture.entrants :
                           capture'.left[s] = (IF s \in DOMAIN players THEN 0 ELSE 1)
                      /\ capture'.winner = told
<1>1. HostIInv /\ [Next]_vars => [Told]_hostVars
  <2>. SUFFICES ASSUME HostIInv, [Next]_vars, capture.open, ~capture'.open
                PROVE  /\ \A s \in DOMAIN capture.entrants :
                            capture'.left[s] = (IF s \in DOMAIN players THEN 0 ELSE 1)
                       /\ capture'.winner = told
    OBVIOUS
  <2>1. capture' # capture
    OBVIOUS
  <2>2. PrepareTickNoStart
    <3>1. ASSUME NEW p \in Peers, HandleDisconnected(p) \/ HandleMisbehaviour(p) \/ HandleOverdue(p)
          PROVE  FALSE
      BY <2>1, <3>1 DEF HandleDisconnected, HandleMisbehaviour, HandleOverdue, simVars
    <3>2. ASSUME NEW p \in Peers, HandleJoinRequest(p) \/ HandleReady(p) \/ HandleCommands(p)
          PROVE  FALSE
      BY <2>1, <3>2 DEF HandleJoinRequest, HandleReady, HandleCommands, simVars
    <3>3. ASSUME HostEndMatch \/ RunTick \/ Act PROVE FALSE
      BY <2>1, <3>3 DEF HostEndMatch, RunTick, Act, simVars
    <3>4. ASSUME NEW p \in Peers, ClientStep(p) PROVE FALSE
      BY <2>1, <3>4 DEF ClientStep, ClientConnect, Connect, ClientReceive, ClientPlan, ClientReportReady,
                        hostVars, simVars
    <3>5. ASSUME LinkStep \/ RecordFailure \/ UNCHANGED vars PROVE FALSE
      BY <2>1, <3>5 DEF LinkStep, ConnectionEnds, RecordFailure, vars, hostVars, simVars
    <3>6. ~StartMatch
      BY DEF StartMatch
    <3>7. QED
      BY <3>1, <3>2, <3>3, <3>4, <3>5, <3>6 DEF Next, HostStep, PrepareTick
  <2>. USE DEF HostIInv, HostBooks
  <2>3. EndedMatch
    BY <2>2 DEF CaptureRecord, PrepareTickNoStart, CaptureTakenOut
  <2>4. simulating /\ ~inMatch
    BY <2>3 DEF EndedMatch
  <2>5. capture'.winner = told
    BY <2>2, <2>3, <2>4 DEF WinnerTold, PrepareTickNoStart, CaptureTakenOut, CaptureRecord
  <2>6. ASSUME NEW s \in DOMAIN capture.entrants
        PROVE  capture'.left[s] = (IF s \in DOMAIN players THEN 0 ELSE 1)
    <3>1. capture'.left[s] = capture.left[s] + (IF s \in Removed THEN 1 ELSE 0)
      BY <2>2 DEF PrepareTickNoStart, CaptureTakenOut, CaptureRecord, CapturedLeaves
    <3>2. s \in Removed <=> s \in DOMAIN bodies /\ s \notin DOMAIN players
      BY <2>3 DEF Removed
    <3>3. CASE s \in DOMAIN bodies /\ capture.left[s] = 0
      BY <3>1, <3>2, <3>3
    <3>4. CASE s \notin DOMAIN bodies /\ s \notin DOMAIN players /\ capture.left[s] = 1
      BY <3>1, <3>2, <3>4
    <3>5. QED
      BY <2>4, <3>3, <3>4 DEF CaptureTracks
  <2>7. QED
    BY <2>5, <2>6
<1>2. QED
  BY <1>1, HostInductive, PTL DEF Spec, CaptureTellsEveryDeparture

-----------------------------------------------------------------------------
(***************************************************************************)
(* What the clients know.  The messages between the server and a client.   *)
(***************************************************************************)
JoinMessage(faults) == [type |-> "Join", faults |-> faults]
ReadyMessage(version) == [type |-> "Ready", version |-> version]
Reasons == Faults \cup {"kMatchInProgress", "kLobbyFull"}
Rosters == [version : Nat, roster : SUBSET Nat]

ToServer == {JoinMessage(faults) : faults \in Requests} \cup {ReadyMessage(v) : v \in Nat}

ToClient == {AdmissionMessage(s) : s \in Nat} \cup {RefusalMessage(r) : r \in Reasons}
            \cup {LobbyMessage(v, r) : v \in Nat, r \in SUBSET Nat}
            \cup {MatchStartMessage(id, ps) : id \in Nat, ps \in SUBSET Nat}
            \cup {MatchEndMessage(s) : s \in Nat}

ClientTypeOK ==
  /\ toClient \in [Peers -> Seq(ToClient)]
  /\ toServer \in [Peers -> Seq(ToServer)]
  /\ view \in [Peers -> [accepted : Nat, refused : BOOLEAN, lobby : Rosters,
                         inMatch : BOOLEAN, players : SUBSET Nat]]
  /\ plan \in [Peers -> Rosters]
  /\ loaded \in [Peers -> SUBSET Nat]
  /\ reported \in [Peers -> Nat]

(***************************************************************************)
(* Every Roster on its way to a client, in its view or being loaded is one *)
(* that was published; a Ready on its way is for one the client has loaded, *)
(* so the last one accepted of it was too, and a Match start names only    *)
(* players its client has loaded.                                          *)
(***************************************************************************)
Named(r) == r.version \in 0..rosterVersion /\ r.roster = published[r.version]

TrueTo(p, m) ==
  /\ m.type = "Admission" => m.session = session[p]
  /\ m.type = "Lobby" => Named(m)
  /\ m.type = "MatchStart" => m.players \subseteq loaded[p]

LoadedBy(p, m) ==
  m.type = "Ready" => m.version \in 0..rosterVersion /\ published[m.version] \subseteq loaded[p]

Loads(p) ==
  /\ \A i \in DOMAIN toClient[p] : TrueTo(p, toClient[p][i])
  /\ \A i \in DOMAIN toServer[p] : LoadedBy(p, toServer[p][i])
  /\ Named(view[p].lobby) /\ Named(plan[p])
  /\ vouched[p] \subseteq loaded[p]
  /\ view[p].inMatch => view[p].players \subseteq loaded[p]

(***************************************************************************)
(* A client joins once, with its first message, and is told nothing until  *)
(* then.                                                                   *)
(***************************************************************************)
JoinPending(p) == \E i \in DOMAIN toServer[p] : toServer[p][i].type = "Join"

JoinsOnce(p) ==
  /\ \A i \in DOMAIN toServer[p] : toServer[p][i].type = "Join" => i = 1
  /\ conn[p] = "none" \/ JoinPending(p) =>
       p \notin members /\ toClient[p] = <<>> /\ view[p] = EmptyView

(***************************************************************************)
(* The last message of these types, once it is taken in, leaves the client *)
(* with the news; with none on its way it has seen the news already.       *)
(***************************************************************************)
Told(s, types, news, seen) ==
  \/ seen /\ \A i \in DOMAIN s : s[i].type \notin types
  \/ \E i \in DOMAIN s : /\ s[i] \in news
                         /\ \A j \in DOMAIN s : j > i => s[j].type \notin types

StartOrEnd == {"MatchStart", "MatchEnd"}

MatchNews(p) ==
  IF inMatch THEN {m \in ToClient : m.type = "MatchStart" /\ session[p] \in m.players}
             ELSE {m \in ToClient : m.type = "MatchEnd"}

RosterNow == [version |-> rosterVersion, roster |-> GetRoster]

Knows(p) ==
  p \in members /\ conn[p] = "open" /\ ~failed =>
    /\ \/ view[p].accepted = session[p]
       \/ toClient[p] # <<>> /\ Head(toClient[p]) = AdmissionMessage(session[p])
    /\ Told(toClient[p], StartOrEnd, MatchNews(p), view[p].inMatch = inMatch)
    /\ ~inMatch => Told(toClient[p], {"Lobby"}, {LobbyMessage(rosterVersion, GetRoster)},
                        view[p].lobby = RosterNow)

LobbyIInv ==
  /\ ClientTypeOK
  /\ Named(NoPlan)
  /\ \A p \in Peers : Loads(p) /\ JoinsOnce(p) /\ Knows(p)

-----------------------------------------------------------------------------
(* A message has one of five types, and what the Host sends is one.        *)
LEMMA MessageTypes ==
  ASSUME NEW m \in ToClient
  PROVE  m.type \in {"Admission", "Refusal", "Lobby", "MatchStart", "MatchEnd"}
BY DEF ToClient, AdmissionMessage, RefusalMessage, LobbyMessage, MatchStartMessage, MatchEndMessage

LEMMA MessagesSent ==
  /\ \A s \in Nat : AdmissionMessage(s) \in ToClient
  /\ \A r \in Reasons : RefusalMessage(r) \in ToClient
  /\ \A v \in Nat, r \in SUBSET Nat : LobbyMessage(v, r) \in ToClient
  /\ \A id \in Nat, ps \in SUBSET Nat : MatchStartMessage(id, ps) \in ToClient
  /\ \A s \in Nat : MatchEndMessage(s) \in ToClient
BY DEF ToClient

(* A request that is refused is refused for a reason there is.             *)
LEMMA RefusalIsAReason ==
  ASSUME NEW faults \in Requests, Refusals(faults) # {}
  PROVE  Refusal(faults) \in Reasons
<1>1. Refusals(faults) \subseteq Reasons
  BY RequestsAssumption DEF Refusals, Reasons
<1>2. /\ DOMAIN RefusalOrder = 1..6
      /\ Reasons = {RefusalOrder[1], RefusalOrder[2], RefusalOrder[3],
                    RefusalOrder[4], RefusalOrder[5], RefusalOrder[6]}
  BY DEF RefusalOrder, Reasons, Faults
<1>. DEFINE hits == {i \in 1..6 : RefusalOrder[i] \in Refusals(faults)}
<1>3. hits # {}
  BY <1>1, <1>2
<1>4. PICK i \in hits : \A k \in hits : i <= k
  BY <1>3, LeastNat
<1>5. /\ i \in DOMAIN RefusalOrder
      /\ RefusalOrder[i] \in Refusals(faults)
      /\ \A j \in 1..(i - 1) : RefusalOrder[j] \notin Refusals(faults)
  BY <1>2, <1>4
<1>6. Refusal(faults) \in Refusals(faults)
  BY <1>5, Zenon DEF Refusal
<1>7. QED
  BY <1>1, <1>6

(***************************************************************************)
(* A message sent, or taken in, and what it makes of the news.             *)
(***************************************************************************)
LEMMA ToldMore ==
  ASSUME NEW s \in Seq(ToClient), NEW m \in ToClient, NEW types, NEW news, NEW seen \in BOOLEAN
  PROVE  /\ m \in news => Told(Append(s, m), types, news, seen)
         /\ m.type \notin types /\ Told(s, types, news, seen) => Told(Append(s, m), types, news, seen)
<1>1. /\ DOMAIN Append(s, m) = 1..(Len(s) + 1) /\ DOMAIN s = 1..Len(s) /\ Len(s) \in Nat
      /\ Append(s, m)[Len(s) + 1] = m
      /\ \A i \in DOMAIN s : Append(s, m)[i] = s[i]
  OBVIOUS
<1>2. ASSUME m \in news PROVE Told(Append(s, m), types, news, seen)
  <2>1. Len(s) + 1 \in DOMAIN Append(s, m) /\ ~ \E j \in DOMAIN Append(s, m) : j > Len(s) + 1
    BY <1>1
  <2>2. QED
    BY <1>1, <1>2, <2>1 DEF Told
<1>3. ASSUME m.type \notin types, Told(s, types, news, seen)
      PROVE  Told(Append(s, m), types, news, seen)
  <2>1. ASSUME NEW j \in DOMAIN Append(s, m) PROVE j \in DOMAIN s \/ j = Len(s) + 1
    BY <1>1
  <2>2. CASE seen /\ \A i \in DOMAIN s : s[i].type \notin types
    BY <1>1, <1>3, <2>1, <2>2 DEF Told
  <2>3. ASSUME NEW i \in DOMAIN s, s[i] \in news, \A j \in DOMAIN s : j > i => s[j].type \notin types
        PROVE  Told(Append(s, m), types, news, seen)
    <3>1. i \in DOMAIN Append(s, m) /\ Append(s, m)[i] \in news
      BY <1>1, <2>3
    <3>2. \A j \in DOMAIN Append(s, m) : j > i => Append(s, m)[j].type \notin types
      BY <1>1, <1>3, <2>1, <2>3
    <3>3. QED
      BY <3>1, <3>2 DEF Told
  <2>4. QED
    BY <1>3, <2>2, <2>3 DEF Told
<1>4. QED
  BY <1>2, <1>3

LEMMA ToldLess ==
  ASSUME NEW s \in Seq(ToClient), s # <<>>, NEW types, NEW news,
         NEW seen \in BOOLEAN, NEW after \in BOOLEAN, Told(s, types, news, seen),
         Head(s) \in news => after,
         Head(s).type \notin types /\ seen => after
  PROVE  Told(Tail(s), types, news, after)
<1>1. /\ DOMAIN s = 1..Len(s) /\ Len(s) \in Nat \ {0} /\ DOMAIN Tail(s) = 1..(Len(s) - 1)
      /\ Head(s) = s[1]
      /\ \A i \in DOMAIN Tail(s) : Tail(s)[i] = s[i + 1]
  OBVIOUS
<1>2. CASE seen /\ \A i \in DOMAIN s : s[i].type \notin types
  BY <1>1, <1>2 DEF Told
<1>3. ASSUME NEW i \in DOMAIN s, s[i] \in news, \A j \in DOMAIN s : j > i => s[j].type \notin types
      PROVE  Told(Tail(s), types, news, after)
  <2>1. \A j \in DOMAIN Tail(s) : j > i - 1 => Tail(s)[j].type \notin types
    BY <1>1, <1>3
  <2>2. CASE i = 1
    BY <1>1, <1>3, <2>1, <2>2 DEF Told
  <2>3. CASE i # 1
    <3>1. i - 1 \in DOMAIN Tail(s) /\ Tail(s)[i - 1] = s[i]
      BY <1>1, <2>3
    <3>2. QED
      BY <1>3, <2>1, <3>1 DEF Told
  <2>4. QED
    BY <2>2, <2>3
<1>4. QED
  BY <1>2, <1>3 DEF Told

-----------------------------------------------------------------------------
(* A Roster once published stays what it was.                              *)
LEMMA PublishedKept ==
  ASSUME MatchTypeOK, [MatchNext]_matchVars
  PROVE  /\ rosterVersion' \in Nat /\ rosterVersion <= rosterVersion'
         /\ \A v \in 0..rosterVersion : v \in 0..rosterVersion' /\ published'[v] = published[v]
<1>1. rosterVersion \in Nat
  BY DEF MatchTypeOK
<1>2. CASE UNCHANGED <<rosterVersion, published>>
  BY <1>1, <1>2
<1>3. ASSUME NEW names, Publish(names), rosterVersion' = rosterVersion + 1
      PROVE  /\ rosterVersion' \in Nat /\ rosterVersion <= rosterVersion'
             /\ \A v \in 0..rosterVersion : v \in 0..rosterVersion' /\ published'[v] = published[v]
  BY <1>1, <1>3 DEF Publish
<1>4. CASE \E p \in Peers, faults \in SUBSET Faults : Join(p, faults)
  BY <1>3, <1>4 DEF Join
<1>5. ASSUME NEW p \in Peers, Leave(p)
      PROVE  /\ rosterVersion' \in Nat /\ rosterVersion <= rosterVersion'
             /\ \A v \in 0..rosterVersion : v \in 0..rosterVersion' /\ published'[v] = published[v]
  BY <1>2, <1>3, <1>5 DEF Leave, LeaveLobby, LeaveMatch, LeaveEndsMatch, BackToLobby
<1>6. CASE \E p \in Peers, version \in 0..rosterVersion : Ready(p, version)
  BY <1>2, <1>6 DEF Ready
<1>7. CASE Tick
  BY <1>2, <1>7 DEF Tick, TryStart, TickWithoutStart
<1>8. CASE End
  BY <1>3, <1>8 DEF End, BackToLobby
<1>9. CASE UNCHANGED matchVars
  BY <1>2, <1>9 DEF matchVars, bookVars
<1>10. QED
  BY <1>4, <1>5, <1>6, <1>7, <1>8, <1>9 DEF MatchNext

LEMMA NamedKept ==
  ASSUME MatchTypeOK, [MatchNext]_matchVars, NEW r, Named(r)
  PROVE  Named(r)'
BY PublishedKept DEF Named

(***************************************************************************)
(* What the server may do to what a client has loaded of what it hears: to *)
(* keep its messages or drop them, and to send true ones.                  *)
(***************************************************************************)
LEMMA LoadsKept ==
  ASSUME MatchTypeOK, [MatchNext]_matchVars, NEW p \in Peers, Loads(p),
         view'[p] = view[p], plan'[p] = plan[p], loaded'[p] = loaded[p],
         vouched'[p] \subseteq loaded[p],
         \A i \in DOMAIN toServer'[p] : \E j \in DOMAIN toServer[p] : toServer'[p][i] = toServer[p][j],
         \A i \in DOMAIN toClient'[p] :
           \/ \E j \in DOMAIN toClient[p] : session'[p] = session[p] /\ toClient'[p][i] = toClient[p][j]
           \/ TrueTo(p, toClient[p][i])'
  PROVE  Loads(p)'
<1>1. \A r : Named(r) => r.version \in 0..rosterVersion' /\ r.roster = published'[r.version]
  BY PublishedKept DEF Named
<1>2. Named(view[p].lobby)' /\ Named(plan[p])'
  BY <1>1 DEF Loads, Named
<1>3. ASSUME NEW i \in DOMAIN toClient'[p] PROVE TrueTo(p, toClient[p][i])'
  <2>1. ASSUME NEW j \in DOMAIN toClient[p], session'[p] = session[p], toClient'[p][i] = toClient[p][j]
        PROVE  TrueTo(p, toClient[p][i])'
    <3>1. TrueTo(p, toClient[p][j])
      BY DEF Loads
    <3>2. Named(toClient[p][j]) => /\ toClient[p][j].version \in 0..rosterVersion'
                                   /\ toClient[p][j].roster = published'[toClient[p][j].version]
      BY <1>1
    <3>3. toClient[p][j].type = "Lobby" => Named(toClient[p][i])'
      BY <2>1, <3>1, <3>2 DEF TrueTo, Named
    <3>4. QED
      BY <2>1, <3>1, <3>3 DEF TrueTo
  <2>2. QED
    BY <2>1
<1>4. ASSUME NEW i \in DOMAIN toServer'[p] PROVE LoadedBy(p, toServer[p][i])'
  <2>1. PICK j \in DOMAIN toServer[p] : toServer'[p][i] = toServer[p][j]
    OBVIOUS
  <2>2. LoadedBy(p, toServer[p][j])
    BY DEF Loads
  <2>. DEFINE m == toServer[p][j]
  <2>3. m.type = "Ready" => m.version \in 0..rosterVersion /\ published[m.version] \subseteq loaded[p]
    BY <2>2 DEF LoadedBy
  <2>4. m.type = "Ready" => m.version \in 0..rosterVersion' /\ published'[m.version] \subseteq loaded'[p]
    BY <2>3, PublishedKept
  <2>5. QED
    BY <2>1, <2>4 DEF LoadedBy
<1>5. vouched'[p] \subseteq loaded'[p] /\ (view'[p].inMatch => view'[p].players \subseteq loaded'[p])
  BY DEF Loads
<1>6. QED
  BY <1>2, <1>3, <1>4, <1>5, Zenon DEF Loads

(***************************************************************************)
(* A client's join request is its first message, and it hears nothing      *)
(* until the server has taken it in.                                       *)
(***************************************************************************)
LEMMA JoinsOnceKept ==
  ASSUME ClientTypeOK, NEW p \in Peers, JoinsOnce(p),
         view'[p] = view[p],
         \/ toServer'[p] \in {toServer[p], <<>>}
         \/ toServer[p] # <<>> /\ toServer'[p] = Tail(toServer[p]),
         conn'[p] = "none" => conn[p] = "none",
         (/\ p \notin members /\ toClient[p] = <<>>
          /\ conn[p] = "none" \/ JoinPending(p)
          /\ conn'[p] = "none" \/ toServer'[p] = toServer[p])
            => p \notin members' /\ toClient'[p] = <<>>
  PROVE  JoinsOnce(p)'
<1>1. toServer[p] \in Seq(ToServer)
  BY DEF ClientTypeOK
<1>2. CASE toServer'[p] = toServer[p]
  BY <1>2 DEF JoinsOnce, JoinPending
<1>3. CASE toServer'[p] # toServer[p]
  <2>1. \A i \in DOMAIN toServer'[p] : toServer'[p][i].type # "Join"
    <3>1. CASE toServer'[p] = <<>>
      BY <3>1
    <3>2. CASE toServer[p] # <<>> /\ toServer'[p] = Tail(toServer[p])
      <4>1. \A i \in DOMAIN toServer'[p] : i + 1 \in DOMAIN toServer[p] /\ i + 1 # 1
                                           /\ toServer'[p][i] = toServer[p][i + 1]
        BY <1>1, <3>2
      <4>2. QED
        BY <4>1 DEF JoinsOnce
    <3>3. QED
      BY <1>3, <3>1, <3>2
  <2>2. QED
    BY <2>1 DEF JoinsOnce, JoinPending
<1>4. QED
  BY <1>2, <1>3

(***************************************************************************)
(* A client that knows the Lobby knows it still if nothing it is told      *)
(* about changes, or it is no longer there to be told.                     *)
(***************************************************************************)
LEMMA KnowsKept ==
  ASSUME NEW p \in Peers, Knows(p),
         p \in members' /\ conn'[p] = "open" /\ ~failed' =>
           /\ p \in members /\ conn[p] = "open" /\ ~failed
           /\ view'[p] = view[p] /\ session'[p] = session[p] /\ toClient'[p] = toClient[p]
           /\ inMatch' = inMatch
           /\ ~inMatch => rosterVersion' = rosterVersion /\ GetRoster' = GetRoster
  PROVE  Knows(p)'
<1>1. SUFFICES ASSUME p \in members', conn'[p] = "open", ~failed'
               PROVE  /\ \/ view'[p].accepted = session'[p]
                         \/ toClient'[p] # <<>> /\ Head(toClient'[p]) = AdmissionMessage(session'[p])
                      /\ Told(toClient'[p], StartOrEnd, MatchNews(p)', view'[p].inMatch = inMatch')
                      /\ ~inMatch' => Told(toClient'[p], {"Lobby"}, {LobbyMessage(rosterVersion', GetRoster')},
                                           view'[p].lobby = RosterNow')
  BY DEF Knows
<1>2. MatchNews(p)' = MatchNews(p)
  <2>1. session'[p] = session[p] /\ inMatch' = inMatch
    BY <1>1
  <2>2. \A m : m \in MatchNews(p)' <=> m \in MatchNews(p)
    BY <2>1 DEF MatchNews
  <2>3. QED
    BY <2>2 DEF MatchNews
<1>3. /\ p \in members /\ conn[p] = "open" /\ ~failed
      /\ view'[p] = view[p] /\ session'[p] = session[p] /\ toClient'[p] = toClient[p]
      /\ inMatch' = inMatch
      /\ ~inMatch => rosterVersion' = rosterVersion /\ GetRoster' = GetRoster /\ RosterNow' = RosterNow
  BY <1>1 DEF RosterNow
<1>4. /\ \/ view[p].accepted = session[p]
         \/ toClient[p] # <<>> /\ Head(toClient[p]) = AdmissionMessage(session[p])
      /\ Told(toClient[p], StartOrEnd, MatchNews(p), view[p].inMatch = inMatch)
      /\ ~inMatch => Told(toClient[p], {"Lobby"}, {LobbyMessage(rosterVersion, GetRoster)},
                          view[p].lobby = RosterNow)
  BY <1>3, Zenon DEF Knows
<1>5. \/ view'[p].accepted = session'[p]
      \/ toClient'[p] # <<>> /\ Head(toClient'[p]) = AdmissionMessage(session'[p])
  BY <1>3, <1>4
<1>6. Told(toClient'[p], StartOrEnd, MatchNews(p)', view'[p].inMatch = inMatch')
  BY <1>2, <1>3, <1>4
<1>7. ~inMatch' => Told(toClient'[p], {"Lobby"}, {LobbyMessage(rosterVersion', GetRoster')},
                        view'[p].lobby = RosterNow')
  BY <1>3, <1>4
<1>8. QED
  BY <1>5, <1>6, <1>7

-----------------------------------------------------------------------------
(* Delivered appends one message to the streams of those it is for.        *)
LEMMA DeliveredTo ==
  ASSUME NEW streams \in [Peers -> Seq(ToClient)], NEW to, NEW m \in ToClient
  PROVE  /\ Delivered(streams, to, m) \in [Peers -> Seq(ToClient)]
         /\ \A q \in Peers : Delivered(streams, to, m)[q] =
              IF q \in to /\ conn[q] = "open" /\ ~failed THEN Append(streams[q], m) ELSE streams[q]
BY DEF Delivered

LEMMA PeersOfMembers ==
  ASSUME HostBooks, NEW S \in SUBSET members
  PROVE  PeersOf(SessionsOf(S)) = S
<1>1. \A p \in S : players[session[p]].peer = p
  BY DEF HostBooks, BooksAgree
<1>2. QED
  BY <1>1 DEF PeersOf, SessionsOf

LEMMA RosterType ==
  MatchInv =>
         /\ RosterNow \in Rosters /\ SessionsOf(members) \subseteq Nat
         /\ LobbyMessage(rosterVersion, GetRoster) \in ToClient
         /\ ~inMatch => Named(RosterNow) /\ GetRoster = published[rosterVersion]
<1>. SUFFICES ASSUME MatchInv
              PROVE  /\ RosterNow \in Rosters /\ SessionsOf(members) \subseteq Nat
                     /\ LobbyMessage(rosterVersion, GetRoster) \in ToClient
                     /\ ~inMatch => Named(RosterNow) /\ GetRoster = published[rosterVersion]
  OBVIOUS
<1>1. members \subseteq Peers /\ session \in [Peers -> Nat] /\ rosterVersion \in Nat
  BY DEF MatchInv, MatchTypeOK
<1>2. SessionsOf(members) \subseteq Nat
  BY <1>1 DEF SessionsOf
<1>3. GetRoster \in SUBSET Nat
  BY <1>2 DEF GetRoster
<1>4. ~inMatch => GetRoster = published[rosterVersion]
  BY DEF GetRoster, MatchInv, RosterNamesLobby
<1>5. QED
  BY <1>1, <1>2, <1>3, <1>4, MessagesSent DEF RosterNow, Rosters, Named

(* One message more, and true: the stream is still one of true messages.   *)
LEMMA StreamKept ==
  ASSUME ClientTypeOK, NEW p \in Peers, NEW m \in ToClient,
         session'[p] = session[p], TrueTo(p, m)',
         toClient'[p] \in {toClient[p], <<>>, Append(toClient[p], m)}
  PROVE  \A i \in DOMAIN toClient'[p] :
           \/ \E j \in DOMAIN toClient[p] : session'[p] = session[p] /\ toClient'[p][i] = toClient[p][j]
           \/ TrueTo(p, toClient[p][i])'
<1>1. toClient[p] \in Seq(ToClient)
  BY DEF ClientTypeOK
<1>2. CASE toClient'[p] \in {toClient[p], <<>>}
  BY <1>2
<1>3. CASE toClient'[p] = Append(toClient[p], m)
  <2>1. TAKE i \in DOMAIN toClient'[p]
  <2>2. CASE i \in DOMAIN toClient[p]
    BY <1>1, <1>3, <2>2
  <2>3. CASE i \notin DOMAIN toClient[p]
    <3>1. toClient'[p][i] = m
      BY <1>1, <1>3, <2>3
    <3>2. QED
      BY <3>1 DEF TrueTo, Named
  <2>4. QED
    BY <2>2, <2>3
<1>4. QED
  BY <1>2, <1>3

(***************************************************************************)
(* A member that is sent the Roster knows the Lobby.                       *)
(***************************************************************************)
LEMMA RosterSent ==
  ASSUME MatchInv, MatchInv', ClientTypeOK, NEW p \in Peers, Knows(p), ~inMatch, ~inMatch',
         p \in members, conn[p] = "open", ~failed,
         view'[p] = view[p], session'[p] = session[p],
         toClient'[p] = Append(toClient[p], LobbyMessage(rosterVersion', GetRoster'))
  PROVE  Knows(p)'
<1>1. PICK m \in ToClient : m = LobbyMessage(rosterVersion', GetRoster')
  <2>1. MatchInv' => (LobbyMessage(rosterVersion, GetRoster) \in ToClient)'
    BY RosterType, PTL
  <2>2. QED
    BY <2>1
<1>2. toClient[p] \in Seq(ToClient) /\ toClient'[p] = Append(toClient[p], m)
  BY <1>1 DEF ClientTypeOK
<1>3. m.type = "Lobby"
  BY <1>1 DEF LobbyMessage
<1>4. MatchNews(p)' = MatchNews(p)
  <2>1. \A n : n \in MatchNews(p)' <=> n \in MatchNews(p)
    BY DEF MatchNews
  <2>2. QED
    BY <2>1 DEF MatchNews
<1>5. /\ \/ view[p].accepted = session[p]
         \/ toClient[p] # <<>> /\ Head(toClient[p]) = AdmissionMessage(session[p])
      /\ Told(toClient[p], StartOrEnd, MatchNews(p), view[p].inMatch = inMatch)
  BY DEF Knows
<1>6. \/ view'[p].accepted = session'[p]
      \/ toClient'[p] # <<>> /\ Head(toClient'[p]) = AdmissionMessage(session'[p])
  BY <1>2, <1>5
<1>7. Told(toClient'[p], StartOrEnd, MatchNews(p)', view'[p].inMatch = inMatch')
  <2>1. m.type \notin StartOrEnd
    BY <1>3 DEF StartOrEnd
  <2>2. inMatch' = inMatch
    BY DEF MatchInv, MatchTypeOK
  <2>3. Told(Append(toClient[p], m), StartOrEnd, MatchNews(p), view[p].inMatch = inMatch)
    BY <1>2, <1>5, <2>1, ToldMore
  <2>4. QED
    BY <1>2, <1>4, <2>2, <2>3
<1>8. Told(toClient'[p], {"Lobby"}, {LobbyMessage(rosterVersion', GetRoster')},
           view'[p].lobby = RosterNow')
  BY <1>1, <1>2, ToldMore
<1>9. QED
  BY <1>6, <1>7, <1>8 DEF Knows

(* A member told of the end of its match, then of the Roster it is in.     *)
LEMMA EndSent ==
  ASSUME MatchInv, MatchInv', ClientTypeOK, NEW p \in Peers, Knows(p), ~inMatch',
         p \in members, conn[p] = "open", ~failed,
         view'[p] = view[p], session'[p] = session[p], NEW winner \in Nat,
         toClient'[p] = Append(Append(toClient[p], MatchEndMessage(winner)),
                               LobbyMessage(rosterVersion', GetRoster'))
  PROVE  Knows(p)'
<1>1. PICK m \in ToClient : m = LobbyMessage(rosterVersion', GetRoster')
  <2>1. MatchInv' => (LobbyMessage(rosterVersion, GetRoster) \in ToClient)'
    BY RosterType, PTL
  <2>2. QED
    BY <2>1
<1>2. PICK e \in ToClient : e = MatchEndMessage(winner)
  BY MessagesSent
<1>. DEFINE told1 == Append(toClient[p], e)
<1>3. /\ toClient[p] \in Seq(ToClient) /\ told1 \in Seq(ToClient)
      /\ toClient'[p] = Append(told1, m)
  BY <1>1, <1>2 DEF ClientTypeOK
<1>4. m.type = "Lobby" /\ e.type = "MatchEnd"
  BY <1>1, <1>2 DEF LobbyMessage, MatchEndMessage
<1>5. \/ view'[p].accepted = session'[p]
      \/ toClient'[p] # <<>> /\ Head(toClient'[p]) = AdmissionMessage(session'[p])
  <2>1. \/ view[p].accepted = session[p]
        \/ toClient[p] # <<>> /\ Head(toClient[p]) = AdmissionMessage(session[p])
    BY DEF Knows
  <2>2. toClient[p] # <<>> => toClient'[p] # <<>> /\ Head(toClient'[p]) = Head(toClient[p])
    BY <1>3
  <2>3. QED
    BY <2>1, <2>2
<1>6. Told(toClient'[p], StartOrEnd, MatchNews(p)', view'[p].inMatch = inMatch')
  <2>1. e \in MatchNews(p)'
    BY <1>4 DEF MatchNews
  <2>2. Told(told1, StartOrEnd, MatchNews(p)', view'[p].inMatch = inMatch')
    BY <1>3, <2>1, ToldMore
  <2>3. m.type \notin StartOrEnd
    BY <1>4 DEF StartOrEnd
  <2>. HIDE DEF told1
  <2>4. Told(Append(told1, m), StartOrEnd, MatchNews(p)', view'[p].inMatch = inMatch')
    BY <1>3, <2>2, <2>3, ToldMore
  <2>5. QED
    BY <1>3, <2>4
<1>7. Told(toClient'[p], {"Lobby"}, {LobbyMessage(rosterVersion', GetRoster')},
           view'[p].lobby = RosterNow')
  <2>. HIDE DEF told1
  <2>1. QED
    BY <1>1, <1>3, ToldMore
<1>8. QED
  BY <1>5, <1>6, <1>7 DEF Knows

(* A member told that a match starts with it.                              *)
LEMMA StartSent ==
  ASSUME ClientTypeOK, NEW p \in Peers, Knows(p), inMatch',
         p \in members, conn[p] = "open", ~failed,
         view'[p] = view[p], session'[p] = session[p], NEW m \in ToClient,
         m.type = "MatchStart", session[p] \in m.players,
         toClient'[p] = Append(toClient[p], m)
  PROVE  Knows(p)'
<1>1. toClient[p] \in Seq(ToClient)
  BY DEF ClientTypeOK
<1>2. \/ view'[p].accepted = session'[p]
      \/ toClient'[p] # <<>> /\ Head(toClient'[p]) = AdmissionMessage(session'[p])
  <2>1. \/ view[p].accepted = session[p]
        \/ toClient[p] # <<>> /\ Head(toClient[p]) = AdmissionMessage(session[p])
    BY DEF Knows
  <2>2. toClient[p] # <<>> => toClient'[p] # <<>> /\ Head(toClient'[p]) = Head(toClient[p])
    BY <1>1
  <2>3. QED
    BY <2>1, <2>2
<1>3. m \in MatchNews(p)'
  BY DEF MatchNews
<1>4. Told(toClient'[p], StartOrEnd, MatchNews(p)', view'[p].inMatch = inMatch')
  BY <1>1, <1>3, ToldMore
<1>5. QED
  BY <1>2, <1>4 DEF Knows

(* A newcomer, told of its admission and of the Roster.                    *)
LEMMA WelcomeSent ==
  ASSUME NEW p \in Peers, inMatch' = FALSE, view'[p] = EmptyView,
         toClient'[p] \in Seq(ToClient), Len(toClient'[p]) = 2,
         toClient'[p][1] = AdmissionMessage(session'[p]),
         toClient'[p][2] = LobbyMessage(rosterVersion', GetRoster')
  PROVE  Knows(p)'
<1>1. /\ DOMAIN toClient'[p] = {1, 2} /\ toClient'[p] # <<>>
      /\ Head(toClient'[p]) = AdmissionMessage(session'[p])
  OBVIOUS
<1>2. toClient'[p][1].type = "Admission" /\ toClient'[p][2].type = "Lobby"
  BY DEF AdmissionMessage, LobbyMessage
<1>3. view'[p].inMatch = inMatch'
  <2>1. EmptyView.inMatch = FALSE
    BY Zenon DEF EmptyView
  <2>2. QED
    BY <2>1, Zenon
<1>4. Told(toClient'[p], StartOrEnd, MatchNews(p)', view'[p].inMatch = inMatch')
  BY <1>1, <1>2, <1>3 DEF Told, StartOrEnd
<1>5. Told(toClient'[p], {"Lobby"}, {LobbyMessage(rosterVersion', GetRoster')}, view'[p].lobby = RosterNow')
  BY <1>1 DEF Told
<1>6. QED
  BY <1>1, <1>4, <1>5 DEF Knows

-----------------------------------------------------------------------------
(* A peer that a step leaves alone.                                        *)
LEMMA OthersKept ==
  ASSUME NEW p \in Peers, Loads(p), JoinsOnce(p), Knows(p), UNCHANGED <<matchVars, failed>>,
         view'[p] = view[p], plan'[p] = plan[p], loaded'[p] = loaded[p], conn'[p] = conn[p],
         toClient'[p] = toClient[p], toServer'[p] = toServer[p]
  PROVE  Loads(p)' /\ JoinsOnce(p)' /\ Knows(p)'
<1>1. UNCHANGED <<members, session, inMatch, rosterVersion, published, vouched>>
  BY DEF matchVars, bookVars
<1>2. Loads(p)'
  <2>1. \A r : Named(r)' <=> Named(r)
    BY <1>1 DEF Named
  <2>2. Named(view[p].lobby)' /\ Named(plan[p])'
    BY <1>1 DEF Loads, Named
  <2>3. ASSUME NEW i \in DOMAIN toClient[p] PROVE TrueTo(p, toClient[p][i])'
    BY <1>1 DEF Loads, TrueTo, Named
  <2>4. ASSUME NEW i \in DOMAIN toServer[p] PROVE LoadedBy(p, toServer[p][i])'
    BY <1>1 DEF Loads, LoadedBy
  <2>5. vouched'[p] \subseteq loaded'[p] /\ (view'[p].inMatch => view'[p].players \subseteq loaded'[p])
    BY <1>1 DEF Loads
  <2>6. QED
    BY <2>2, <2>3, <2>4, <2>5 DEF Loads
<1>3. JoinsOnce(p)'
  BY <1>1 DEF JoinsOnce, JoinPending
<1>4. Knows(p)'
  <2>1. GetRoster' = GetRoster
    BY <1>1 DEF GetRoster, SessionsOf
  <2>2. QED
    BY <1>1, <2>1, KnowsKept
<1>5. QED
  BY <1>2, <1>3, <1>4

(* A client connects and asks to join.                                     *)
LEMMA ConnectKeeps ==
  ASSUME LobbyIInv, NEW p \in Peers, ClientConnect(p)
  PROVE  LobbyIInv'
<1>. PICK faults \in Requests : Connect(p, JoinMessage(faults))
  BY DEF ClientConnect, JoinMessage
<1>1. /\ conn[p] = "none" /\ toServer' = [toServer EXCEPT ![p] = <<JoinMessage(faults)>>]
      /\ conn' = [conn EXCEPT ![p] = "open"]
      /\ UNCHANGED <<matchVars, toClient, view, plan, loaded, reported, failed>>
  BY DEF Connect, ClientConnect, clientVars
<1>2. ClientTypeOK'
  <2>1. JoinMessage(faults) \in ToServer
    BY DEF ToServer
  <2>2. <<JoinMessage(faults)>> \in Seq(ToServer)
    BY <2>1
  <2>3. QED
    BY <1>1, <2>2 DEF LobbyIInv, ClientTypeOK
<1>3. UNCHANGED <<members, session, inMatch, rosterVersion, published, vouched>>
  BY <1>1 DEF matchVars, bookVars
<1>4. Named(NoPlan)'
  BY <1>3 DEF LobbyIInv, Named, NoPlan
<1>5. ASSUME NEW q \in Peers PROVE Loads(q)' /\ JoinsOnce(q)' /\ Knows(q)'
  <2>1. CASE q # p
    <3>1. toServer'[q] = toServer[q] /\ conn'[q] = conn[q]
      BY <1>1, <2>1
    <3>2. QED
      BY <1>1, <3>1, OthersKept DEF LobbyIInv
  <2>2. CASE q = p
    <3>1. /\ toServer \in [Peers -> Seq(ToServer)]
          /\ toServer'[p] = <<JoinMessage(faults)>>
      BY <1>1 DEF LobbyIInv, ClientTypeOK
    <3>2. p \notin members /\ toClient[p] = <<>> /\ view[p] = EmptyView
      BY <1>1 DEF LobbyIInv, JoinsOnce
    <3>3. Knows(p)'
      BY <1>3, <3>2 DEF Knows
    <3>4. JoinsOnce(p)'
      <4>1. \A i \in DOMAIN toServer'[p] : i = 1
        BY <3>1
      <4>2. QED
        BY <1>1, <1>3, <3>2, <4>1 DEF JoinsOnce
    <3>5. Loads(p)'
      <4>1. ASSUME NEW i \in DOMAIN toServer'[p] PROVE LoadedBy(p, toServer[p][i])'
        <5>1. toServer'[p][i].type = "Join"
          BY <3>1 DEF JoinMessage
        <5>2. QED
          BY <5>1 DEF LoadedBy
      <4>2. Named(view[p].lobby)' /\ Named(plan[p])'
        BY <1>1, <1>3 DEF LobbyIInv, Loads, Named
      <4>3. vouched'[p] \subseteq loaded'[p] /\ (view'[p].inMatch => view'[p].players \subseteq loaded'[p])
        BY <1>1, <1>3 DEF LobbyIInv, Loads
      <4>4. \A i \in DOMAIN toClient'[p] : TrueTo(p, toClient[p][i])'
        BY <1>1, <3>2
      <4>5. QED
        BY <4>1, <4>2, <4>3, <4>4 DEF Loads
    <3>6. QED
      BY <2>2, <3>3, <3>4, <3>5
  <2>3. QED
    BY <2>1, <2>2
<1>6. QED
  BY <1>2, <1>4, <1>5 DEF LobbyIInv

(* A client plans to load the characters of the Roster it sees.            *)
LEMMA PlanKeeps ==
  ASSUME LobbyIInv, NEW p \in Peers, ClientPlan(p)
  PROVE  LobbyIInv'
<1>1. /\ plan' = [plan EXCEPT ![p] = view[p].lobby]
      /\ UNCHANGED <<matchVars, toClient, toServer, conn, view, loaded, reported, failed>>
  BY DEF ClientPlan, hostVars, linkVars
<1>2. ClientTypeOK'
  BY <1>1 DEF LobbyIInv, ClientTypeOK
<1>3. UNCHANGED <<members, session, inMatch, rosterVersion, published, vouched>>
  BY <1>1 DEF matchVars, bookVars
<1>4. Named(NoPlan)'
  BY <1>3 DEF LobbyIInv, Named, NoPlan
<1>5. ASSUME NEW q \in Peers PROVE Loads(q)' /\ JoinsOnce(q)' /\ Knows(q)'
  <2>1. CASE q # p
    <3>1. plan'[q] = plan[q]
      BY <1>1, <2>1
    <3>2. QED
      BY <1>1, <3>1, OthersKept DEF LobbyIInv
  <2>2. CASE q = p
    <3>1. plan'[p] = view[p].lobby
      BY <1>1 DEF LobbyIInv, ClientTypeOK
    <3>2. Loads(p)'
      <4>1. Named(view[p].lobby)' /\ Named(plan[p])'
        BY <1>1, <1>3, <3>1 DEF LobbyIInv, Loads, Named
      <4>2. ASSUME NEW i \in DOMAIN toClient[p] PROVE TrueTo(p, toClient[p][i])'
        BY <1>1, <1>3 DEF LobbyIInv, Loads, TrueTo, Named
      <4>3. ASSUME NEW i \in DOMAIN toServer[p] PROVE LoadedBy(p, toServer[p][i])'
        BY <1>1, <1>3 DEF LobbyIInv, Loads, LoadedBy
      <4>4. vouched'[p] \subseteq loaded'[p] /\ (view'[p].inMatch => view'[p].players \subseteq loaded'[p])
        BY <1>1, <1>3 DEF LobbyIInv, Loads
      <4>5. QED
        BY <1>1, <4>1, <4>2, <4>3, <4>4 DEF Loads
    <3>3. JoinsOnce(p)'
      BY <1>1, <1>3 DEF LobbyIInv, JoinsOnce, JoinPending
    <3>4. Knows(p)'
      <4>1. GetRoster' = GetRoster
        BY <1>3 DEF GetRoster, SessionsOf
      <4>2. QED
        BY <1>1, <1>3, <4>1, KnowsKept DEF LobbyIInv
    <3>5. QED
      BY <2>2, <3>2, <3>3, <3>4
  <2>3. QED
    BY <2>1, <2>2
<1>6. QED
  BY <1>2, <1>4, <1>5 DEF LobbyIInv

(***************************************************************************)
(* A client has loaded what it planned, and reports Ready if the Roster it *)
(* planned for is still the newest it has seen.                            *)
(***************************************************************************)
LEMMA ReportReadyKeeps ==
  ASSUME MatchTypeOK, LobbyIInv, NEW p \in Peers, ClientReportReady(p)
  PROVE  LobbyIInv'
<1>. DEFINE ready == ReadyMessage(plan[p].version)
<1>1. /\ loaded' = [loaded EXCEPT ![p] = @ \cup plan[p].roster]
      /\ reported' = [reported EXCEPT ![p] = plan[p].version]
      /\ plan' = [plan EXCEPT ![p] = NoPlan]
      /\ UNCHANGED <<matchVars, toClient, conn, view, failed>>
  BY DEF ClientReportReady
<1>2. toServer' = [toServer EXCEPT ![p] = Append(@, ready)] \/ toServer' = toServer
  BY DEF ClientReportReady, ReadyMessage
<1>3. conn'[p] = "open" \/ toServer' = toServer
  BY <1>1 DEF ClientReportReady
<1>4. /\ plan[p].version \in 0..rosterVersion /\ plan[p].roster = published[plan[p].version]
      /\ plan[p] \in Rosters /\ plan[p].version \in Nat /\ plan[p].roster \in SUBSET Nat
  BY DEF LobbyIInv, Loads, Named, ClientTypeOK, Rosters
<1>5. ready \in ToServer
  BY <1>4 DEF ToServer
<1>6. ClientTypeOK'
  <2>1. NoPlan \in Rosters
    BY DEF NoPlan, Rosters
  <2>2. toServer' \in [Peers -> Seq(ToServer)]
    <3>1. toServer \in [Peers -> Seq(ToServer)] /\ toServer[p] \in Seq(ToServer)
      BY DEF LobbyIInv, ClientTypeOK
    <3>. HIDE DEF ready
    <3>2. Append(toServer[p], ready) \in Seq(ToServer)
      BY <1>5, <3>1
    <3>3. QED
      BY <1>2, <3>1, <3>2
  <2>3. /\ loaded' \in [Peers -> SUBSET Nat] /\ reported' \in [Peers -> Nat]
        /\ plan' \in [Peers -> Rosters]
    BY <1>1, <1>4, <2>1 DEF LobbyIInv, ClientTypeOK
  <2>4. QED
    BY <1>1, <2>2, <2>3 DEF LobbyIInv, ClientTypeOK
<1>7. UNCHANGED <<members, session, inMatch, rosterVersion, published, vouched>>
  BY <1>1 DEF matchVars, bookVars
<1>8. Named(NoPlan)'
  BY <1>7 DEF LobbyIInv, Named, NoPlan
<1>9. ASSUME NEW q \in Peers PROVE Loads(q)' /\ JoinsOnce(q)' /\ Knows(q)'
  <2>1. CASE q # p
    <3>1. /\ plan'[q] = plan[q] /\ loaded'[q] = loaded[q] /\ toServer'[q] = toServer[q]
      BY <1>1, <1>2, <2>1 DEF LobbyIInv, ClientTypeOK
    <3>2. QED
      BY <1>1, <3>1, OthersKept DEF LobbyIInv
  <2>2. CASE q = p
    <3>1. /\ plan'[p] = NoPlan /\ loaded'[p] = loaded[p] \cup plan[p].roster
          /\ toServer[p] \in Seq(ToServer)
          /\ \/ toServer'[p] = toServer[p]
             \/ conn'[p] = "open" /\ toServer'[p] = Append(toServer[p], ready)
      <4>1. /\ toServer \in [Peers -> Seq(ToServer)] /\ loaded \in [Peers -> SUBSET Nat]
            /\ plan \in [Peers -> Rosters]
        BY DEF LobbyIInv, ClientTypeOK
      <4>. HIDE DEF ready
      <4>2. plan'[p] = NoPlan /\ loaded'[p] = loaded[p] \cup plan[p].roster
        BY <1>1, <4>1
      <4>3. CASE toServer' = toServer
        BY <4>1, <4>2, <4>3
      <4>4. CASE toServer' # toServer
        BY <1>2, <1>3, <4>1, <4>2, <4>4
      <4>5. QED
        BY <4>3, <4>4
    <3>2. ASSUME NEW i \in DOMAIN toServer'[p]
          PROVE  \/ i \in DOMAIN toServer[p] /\ toServer'[p][i] = toServer[p][i]
                 \/ toServer'[p][i] = ready
      BY <3>1
    <3>3. ready.type = "Ready" /\ ready.version = plan[p].version
      BY DEF ReadyMessage
    <3>. HIDE DEF ready
    <3>4. Loads(p)'
      <4>1. Named(view[p].lobby)' /\ Named(plan[p])'
        <5>1. Named(view[p].lobby)'
          BY <1>1, <1>7 DEF LobbyIInv, Loads, Named
        <5>2. Named(plan[p])'
          BY <1>7, <1>8, <3>1 DEF Named
        <5>3. QED
          BY <5>1, <5>2
      <4>2. ASSUME NEW i \in DOMAIN toClient[p] PROVE TrueTo(p, toClient[p][i])'
        BY <1>1, <1>7, <3>1 DEF LobbyIInv, Loads, TrueTo, Named
      <4>3. ASSUME NEW i \in DOMAIN toServer'[p] PROVE LoadedBy(p, toServer[p][i])'
        <5>1. CASE i \in DOMAIN toServer[p] /\ toServer'[p][i] = toServer[p][i]
          <6>1. LoadedBy(p, toServer[p][i])
            BY <5>1 DEF LobbyIInv, Loads
          <6>2. QED
            BY <1>7, <3>1, <5>1, <6>1 DEF LoadedBy
        <5>2. CASE toServer'[p][i] = ready
          BY <1>4, <1>7, <3>1, <3>3, <5>2 DEF LoadedBy
        <5>3. QED
          BY <3>2, <5>1, <5>2
      <4>4. vouched'[p] \subseteq loaded'[p] /\ (view'[p].inMatch => view'[p].players \subseteq loaded'[p])
        <5>1. vouched[p] \subseteq loaded[p] /\ (view[p].inMatch => view[p].players \subseteq loaded[p])
          BY DEF LobbyIInv, Loads
        <5>2. QED
          BY <1>1, <1>7, <3>1, <5>1
      <4>5. QED
        BY <1>1, <4>1, <4>2, <4>3, <4>4 DEF Loads
    <3>5. JoinsOnce(p)'
      <4>1. JoinsOnce(p)
        BY DEF LobbyIInv
      <4>2. \A i \in DOMAIN toServer'[p] : toServer'[p][i].type = "Join" => i = 1
        BY <3>2, <3>3, <4>1 DEF JoinsOnce
      <4>3. JoinPending(p)' => JoinPending(p)
        BY <3>2, <3>3 DEF JoinPending
      <4>4. QED
        BY <1>1, <1>7, <4>1, <4>2, <4>3 DEF JoinsOnce
    <3>6. Knows(p)'
      <4>1. GetRoster' = GetRoster
        BY <1>7 DEF GetRoster, SessionsOf
      <4>2. QED
        BY <1>1, <1>7, <4>1, KnowsKept DEF LobbyIInv
    <3>7. QED
      BY <2>2, <3>4, <3>5, <3>6
  <2>3. QED
    BY <2>1, <2>2
<1>10. QED
  BY <1>6, <1>8, <1>9 DEF LobbyIInv

(***************************************************************************)
(* A client takes in the oldest message sent to it.                        *)
(***************************************************************************)
LEMMA ReceiveKeeps ==
  ASSUME MatchTypeOK, LobbyIInv, NEW p \in Peers, ClientReceive(p)
  PROVE  LobbyIInv'
<1>. DEFINE m == Head(toClient[p])
            v == view[p]
<1>1. /\ toClient[p] # <<>>
      /\ view' = [view EXCEPT ![p] = Seen(v, m)]
      /\ toClient' = [toClient EXCEPT ![p] = Tail(toClient[p])]
      /\ UNCHANGED <<matchVars, conn, toServer, plan, loaded, reported, failed>>
  BY DEF ClientReceive
<1>2. UNCHANGED <<members, session, inMatch, rosterVersion, published, vouched>>
  BY <1>1 DEF matchVars, bookVars
<1>3. /\ toClient[p] \in Seq(ToClient) /\ DOMAIN toClient[p] = 1..Len(toClient[p])
      /\ 1 \in DOMAIN toClient[p] /\ m = toClient[p][1] /\ m \in ToClient
      /\ v \in [accepted : Nat, refused : BOOLEAN, lobby : Rosters, inMatch : BOOLEAN, players : SUBSET Nat]
      /\ toClient'[p] = Tail(toClient[p]) /\ view'[p] = Seen(v, m)
      /\ session[p] \in Nat /\ loaded[p] \in SUBSET Nat
  BY <1>1 DEF LobbyIInv, ClientTypeOK, MatchTypeOK
<1>4. Loads(p) /\ JoinsOnce(p) /\ Knows(p) /\ TrueTo(p, m)
  BY <1>3 DEF LobbyIInv, Loads
<1>5. m.type = "Lobby" => Named([version |-> m.version, roster |-> m.roster])
                          /\ [version |-> m.version, roster |-> m.roster] \in Rosters
  BY <1>4 DEF TrueTo, Named, Rosters, MatchTypeOK
<1>. HIDE DEF m, v
<1>6. /\ m.type = "Admission" => /\ view'[p] = [v EXCEPT !.accepted = session[p]]
      /\ m.type = "Refusal" => view'[p] = [v EXCEPT !.refused = TRUE]
      /\ m.type = "Lobby" =>
           view'[p] = [v EXCEPT !.lobby = [version |-> m.version, roster |-> m.roster]]
      /\ m.type = "MatchStart" =>
           /\ v.accepted \in m.players => view'[p] = [v EXCEPT !.inMatch = TRUE, !.players = m.players]
           /\ v.accepted \notin m.players => view'[p] = v
      /\ m.type = "MatchEnd" => view'[p] = [v EXCEPT !.inMatch = FALSE]
  <2>1. view'[p] = Seen(v, m)
    BY <1>3
  <2>2. m.type = "Admission" => m.session = session[p]
    BY <1>4 DEF TrueTo
  <2>3. QED
    BY <2>1, <2>2 DEF Seen
<1>7. m.type \in {"Admission", "Refusal", "Lobby", "MatchStart", "MatchEnd"}
  BY <1>3, MessageTypes
<1>8. /\ view'[p].accepted = IF m.type = "Admission" THEN session[p] ELSE v.accepted
      /\ view'[p].lobby = IF m.type = "Lobby" THEN [version |-> m.version, roster |-> m.roster] ELSE v.lobby
  BY <1>3, <1>6, <1>7
<1>9. /\ m.type \notin StartOrEnd => view'[p].inMatch = v.inMatch /\ view'[p].players = v.players
      /\ m.type = "MatchEnd" => view'[p].inMatch = FALSE
      /\ m.type = "MatchStart" /\ v.accepted \in m.players =>
           view'[p].inMatch = TRUE /\ view'[p].players = m.players
      /\ m.type = "MatchStart" /\ v.accepted \notin m.players => view'[p] = v
  <2>1. m.type \notin StartOrEnd => view'[p].inMatch = v.inMatch /\ view'[p].players = v.players
    BY <1>3, <1>6, <1>7 DEF StartOrEnd
  <2>2. m.type = "MatchEnd" => view'[p].inMatch = FALSE
    BY <1>3, <1>6
  <2>3. m.type = "MatchStart" /\ v.accepted \in m.players =>
           view'[p].inMatch = TRUE /\ view'[p].players = m.players
    BY <1>3, <1>6
  <2>4. QED
    BY <1>6, <2>1, <2>2, <2>3
<1>10. ClientTypeOK'
  <2>1. m.type = "MatchStart" => m.players \in SUBSET Nat
    BY <1>3, <1>4 DEF TrueTo
  <2>2. view'[p] \in [accepted : Nat, refused : BOOLEAN, lobby : Rosters,
                      inMatch : BOOLEAN, players : SUBSET Nat]
    <3>1. CASE m.type = "Admission"
      BY <1>3, <1>6, <3>1
    <3>2. CASE m.type = "Refusal" \/ m.type = "MatchEnd"
      BY <1>3, <1>6, <3>2
    <3>3. CASE m.type = "Lobby"
      BY <1>3, <1>5, <1>6, <3>3
    <3>4. CASE m.type = "MatchStart"
      BY <1>3, <1>6, <2>1, <3>4
    <3>5. QED
      BY <1>7, <3>1, <3>2, <3>3, <3>4
  <2>3. toClient' \in [Peers -> Seq(ToClient)]
    BY <1>1, <1>3 DEF LobbyIInv, ClientTypeOK
  <2>4. view' \in [Peers -> [accepted : Nat, refused : BOOLEAN, lobby : Rosters,
                             inMatch : BOOLEAN, players : SUBSET Nat]]
    BY <1>1, <1>3, <2>2 DEF LobbyIInv, ClientTypeOK
  <2>5. QED
    BY <1>1, <2>3, <2>4 DEF LobbyIInv, ClientTypeOK
<1>11. Named(NoPlan)'
  BY <1>2 DEF LobbyIInv, Named, NoPlan
<1>12. Loads(p)'
  <2>1. Named(view[p].lobby)' /\ Named(plan[p])'
    <3>1. Named(view[p].lobby)'
      BY <1>2, <1>4, <1>5, <1>8 DEF Loads, Named, v
    <3>2. QED
      BY <1>1, <1>2, <1>4, <3>1 DEF Loads, Named
  <2>2. ASSUME NEW i \in DOMAIN toClient'[p] PROVE TrueTo(p, toClient[p][i])'
    <3>1. i + 1 \in DOMAIN toClient[p] /\ toClient'[p][i] = toClient[p][i + 1]
      <4>1. toClient'[p] = Tail(toClient[p]) /\ toClient[p] \in Seq(ToClient) /\ toClient[p] # <<>>
        BY <1>1, <1>3
      <4>2. QED
        BY <4>1
    <3>2. TrueTo(p, toClient[p][i + 1])
      BY <1>4, <3>1 DEF Loads
    <3>3. QED
      BY <1>1, <1>2, <3>1, <3>2 DEF TrueTo, Named
  <2>3. ASSUME NEW i \in DOMAIN toServer[p] PROVE LoadedBy(p, toServer[p][i])'
    BY <1>1, <1>2, <1>4 DEF Loads, LoadedBy
  <2>4. view'[p].inMatch => view'[p].players \subseteq loaded[p]
    <3>1. v.inMatch => v.players \subseteq loaded[p]
      BY <1>4 DEF Loads, v
    <3>2. m.type = "MatchStart" => m.players \subseteq loaded[p]
      BY <1>4 DEF TrueTo
    <3>3. QED
      BY <1>7, <1>9, <3>1, <3>2 DEF StartOrEnd
  <2>5. vouched'[p] \subseteq loaded'[p]
    BY <1>1, <1>2, <1>4 DEF Loads
  <2>6. QED
    BY <1>1, <2>1, <2>2, <2>3, <2>4, <2>5 DEF Loads
<1>13. JoinsOnce(p)'
  BY <1>1, <1>2, <1>4 DEF JoinsOnce, JoinPending
<1>14. Knows(p)'
  <2>1. SUFFICES ASSUME p \in members, conn[p] = "open", ~failed
                 PROVE  Knows(p)'
    BY <1>1, <1>2 DEF Knows
  <2>2. v.accepted = session[p] \/ m = AdmissionMessage(session[p])
    BY <1>4, <2>1 DEF Knows, m, v
  <2>3. v.accepted = session[p] \/ m.type = "Admission"
    BY <2>2 DEF AdmissionMessage
  <2>4. view'[p].accepted = session[p]
    BY <1>8, <2>3
  <2>5. Told(toClient[p], StartOrEnd, MatchNews(p), v.inMatch = inMatch)
    BY <1>4, <2>1 DEF Knows, v
  <2>6. inMatch \in BOOLEAN
    BY DEF MatchTypeOK
  <2>7. m \in MatchNews(p) => view'[p].inMatch = inMatch
    <3>1. CASE inMatch
      <4>1. m \in MatchNews(p) => m.type = "MatchStart" /\ session[p] \in m.players
        BY <3>1 DEF MatchNews
      <4>2. m.type = "MatchStart" => v.accepted = session[p]
        BY <2>3
      <4>3. QED
        BY <1>9, <2>6, <3>1, <4>1, <4>2
    <3>2. CASE ~inMatch
      <4>1. m \in MatchNews(p) => m.type = "MatchEnd"
        BY <3>2 DEF MatchNews
      <4>2. QED
        BY <1>9, <2>6, <3>2, <4>1
    <3>3. QED
      BY <3>1, <3>2
  <2>8. Told(Tail(toClient[p]), StartOrEnd, MatchNews(p), view'[p].inMatch = inMatch)
    <3>1. m.type \notin StartOrEnd /\ v.inMatch = inMatch => view'[p].inMatch = inMatch
      BY <1>9
    <3>2. QED
      BY <1>1, <1>3, <2>5, <2>7, <3>1, ToldLess DEF m
  <2>9. ASSUME ~inMatch
        PROVE  Told(Tail(toClient[p]), {"Lobby"}, {LobbyMessage(rosterVersion, GetRoster)},
                    view'[p].lobby = RosterNow)
    <3>1. Told(toClient[p], {"Lobby"}, {LobbyMessage(rosterVersion, GetRoster)}, v.lobby = RosterNow)
      BY <1>4, <2>1, <2>9 DEF Knows, v
    <3>2. m \in {LobbyMessage(rosterVersion, GetRoster)} => view'[p].lobby = RosterNow
      BY <1>8 DEF LobbyMessage, RosterNow
    <3>3. m.type \notin {"Lobby"} /\ v.lobby = RosterNow => view'[p].lobby = RosterNow
      BY <1>8
    <3>4. QED
      BY <1>1, <1>3, <3>1, <3>2, <3>3, ToldLess DEF m
  <2>10. MatchNews(p)' = MatchNews(p) /\ RosterNow' = RosterNow /\ GetRoster' = GetRoster
    BY <1>2 DEF MatchNews, RosterNow, GetRoster, SessionsOf
  <2>11. QED
    BY <1>2, <1>3, <2>4, <2>8, <2>9, <2>10 DEF Knows
<1>15. ASSUME NEW q \in Peers PROVE Loads(q)' /\ JoinsOnce(q)' /\ Knows(q)'
  <2>1. CASE q # p
    <3>1. view'[q] = view[q] /\ toClient'[q] = toClient[q]
      BY <1>1, <2>1 DEF LobbyIInv, ClientTypeOK
    <3>2. QED
      BY <1>1, <3>1, OthersKept DEF LobbyIInv
  <2>2. QED
    BY <1>12, <1>13, <1>14, <2>1
<1>16. QED
  BY <1>10, <1>11, <1>15 DEF LobbyIInv

-----------------------------------------------------------------------------
(***************************************************************************)
(* A peer a step of the server leaves alone, but for what it has taken in  *)
(* of the peer's own messages.                                             *)
(***************************************************************************)
LEMMA ServerLeavesAlone ==
  ASSUME MatchInv, ClientTypeOK, [MatchNext]_matchVars, UNCHANGED clientVars,
         NEW p \in Peers, Loads(p), JoinsOnce(p), Knows(p),
         conn'[p] = conn[p], toClient'[p] = toClient[p], session'[p] = session[p],
         \/ toServer'[p] = toServer[p]
         \/ toServer[p] # <<>> /\ toServer'[p] = Tail(toServer[p]),
         p \in members' <=> p \in members, vouched'[p] \subseteq loaded[p],
         failed => failed',
         p \in members /\ conn[p] = "open" /\ ~failed' =>
           /\ inMatch' = inMatch
           /\ ~inMatch => rosterVersion' = rosterVersion /\ GetRoster' = GetRoster
  PROVE  Loads(p)' /\ JoinsOnce(p)' /\ Knows(p)'
<1>1. view'[p] = view[p] /\ plan'[p] = plan[p] /\ loaded'[p] = loaded[p]
  BY DEF clientVars
<1>2. toServer[p] \in Seq(ToServer)
  BY DEF ClientTypeOK
<1>3. \A i \in DOMAIN toServer'[p] : \E j \in DOMAIN toServer[p] : toServer'[p][i] = toServer[p][j]
  <2>1. CASE toServer'[p] = toServer[p]
    BY <2>1
  <2>2. CASE toServer[p] # <<>> /\ toServer'[p] = Tail(toServer[p])
    <3>1. \A i \in DOMAIN toServer'[p] : i + 1 \in DOMAIN toServer[p] /\ toServer'[p][i] = toServer[p][i + 1]
      BY <1>2, <2>2
    <3>2. QED
      BY <3>1
  <2>3. QED
    BY <2>1, <2>2
<1>4. Loads(p)'
  BY <1>1, <1>3, LoadsKept DEF MatchInv
<1>5. JoinsOnce(p)'
  BY <1>1, JoinsOnceKept
<1>6. Knows(p)'
  BY <1>1, KnowsKept
<1>7. QED
  BY <1>4, <1>5, <1>6

(* A peer whose connection is over, or about to be.                        *)
LEMMA GoneKeeps ==
  ASSUME MatchInv, ClientTypeOK, [MatchNext]_matchVars, UNCHANGED clientVars,
         NEW p \in Peers, Loads(p), JoinsOnce(p),
         conn'[p] \in {"ending", "closed"}, toClient'[p] = <<>>,
         toServer'[p] \in {toServer[p], <<>>}, p \in members' => p \in members,
         vouched'[p] \subseteq loaded[p]
  PROVE  Loads(p)' /\ JoinsOnce(p)' /\ Knows(p)'
<1>1. view'[p] = view[p] /\ plan'[p] = plan[p] /\ loaded'[p] = loaded[p]
  BY DEF clientVars
<1>2. Loads(p)'
  BY <1>1, LoadsKept DEF MatchInv
<1>3. JoinsOnce(p)'
  BY <1>1, JoinsOnceKept
<1>4. Knows(p)'
  BY DEF Knows
<1>5. QED
  BY <1>2, <1>3, <1>4

(***************************************************************************)
(* A peer expelled, or whose connection ended, leaves; those left in the   *)
(* Lobby are told (HandleDisconnect).                                      *)
(***************************************************************************)
LEMMA ExpelKeeps ==
  ASSUME HostIInv, MatchInv', LobbyIInv, [MatchNext]_matchVars, UNCHANGED <<clientVars, failed>>,
         NEW p \in Peers, Expel(p)
  PROVE  LobbyIInv'
<1>1. /\ MatchInv /\ MatchTypeOK /\ HostBooks /\ conn \in [Peers -> {"none", "open", "ending", "closed"}]
      /\ ClientTypeOK /\ toClient \in [Peers -> Seq(ToClient)] /\ toServer \in [Peers -> Seq(ToServer)]
      /\ members \subseteq Peers /\ session \in [Peers -> Nat] /\ vouched \in [Peers -> SUBSET Nat]
  BY DEF HostIInv, HostBooks, HostTypeOK, MatchInv, MatchTypeOK, LobbyIInv, ClientTypeOK
<1>2. /\ conn' = [conn EXCEPT ![p] = "closed"]
      /\ toServer' = [toServer EXCEPT ![p] = <<>>]
      /\ HandleDisconnect(p)
  BY DEF Expel, Closed
<1>3. Named(NoPlan)'
  BY <1>1, NamedKept DEF LobbyIInv
<1>4. /\ members' = members \ {p}
      /\ \A q \in Peers : q # p => session'[q] = session[q] /\ vouched'[q] = vouched[q]
      /\ vouched'[p] \in {vouched[p], {}}
  BY <1>1, <1>2 DEF HandleDisconnect, LeaveLobby, LeaveMatch, LeaveEndsMatch, BackToLobby, Forget,
                    matchVars, bookVars
<1>. DEFINE m == LobbyMessage(rosterVersion', SessionsOf(members \ {p}))
<1>5. ASSUME LeaveLobby(p)
      PROVE  /\ ~inMatch /\ ~inMatch' /\ m \in ToClient
             /\ GetRoster' = SessionsOf(members \ {p})
  <2>1. ~inMatch /\ ~inMatch'
    BY <1>5 DEF LeaveLobby
  <2>2. SessionsOf(members') = SessionsOf(members)'
    BY <1>1, <1>4 DEF SessionsOf
  <2>3. GetRoster' = SessionsOf(members \ {p})
    BY <1>4, <2>1, <2>2 DEF GetRoster
  <2>4. MatchInv' => (LobbyMessage(rosterVersion, GetRoster) \in ToClient)'
    BY RosterType, PTL
  <2>5. QED
    BY <2>1, <2>3, <2>4
<1>6. \/ /\ toClient' = [toClient EXCEPT ![p] = <<>>]
         /\ members = {p} \/ (inMatch' = inMatch /\ (~inMatch => UNCHANGED matchVars))
      \/ /\ LeaveLobby(p)
         /\ toClient' = Delivered([toClient EXCEPT ![p] = <<>>], ToRoster(p), m)
  <2>1. CASE p \notin members /\ toClient' = [toClient EXCEPT ![p] = <<>>] /\ UNCHANGED matchVars
    BY <2>1 DEF matchVars, bookVars
  <2>2. CASE LeaveMatch(p) /\ toClient' = [toClient EXCEPT ![p] = <<>>]
    BY <2>2 DEF LeaveMatch
  <2>3. CASE LeaveEndsMatch(p) /\ toClient' = [toClient EXCEPT ![p] = <<>>]
    BY <2>3 DEF LeaveEndsMatch
  <2>4. QED
    BY <1>2, <2>1, <2>2, <2>3 DEF HandleDisconnect
<1>. HIDE DEF m
<1>7. /\ toClient' \in [Peers -> Seq(ToClient)] /\ toClient'[p] = <<>>
      /\ \A q \in Peers : q # p =>
           \/ /\ toClient'[q] = toClient[q]
              /\ q \in members /\ conn[q] = "open" /\ ~failed =>
                    inMatch' = inMatch /\ (~inMatch => UNCHANGED matchVars)
           \/ /\ LeaveLobby(p) /\ q \in members /\ conn[q] = "open" /\ ~failed
              /\ toClient'[q] = Append(toClient[q], m)
  <2>. DEFINE base == [toClient EXCEPT ![p] = <<>>]
  <2>1. base \in [Peers -> Seq(ToClient)] /\ base[p] = <<>> /\ \A q \in Peers : q # p => base[q] = toClient[q]
    BY <1>1
  <2>2. CASE toClient' = base /\ (members = {p} \/ (inMatch' = inMatch /\ (~inMatch => UNCHANGED matchVars)))
    BY <2>1, <2>2
  <2>3. CASE LeaveLobby(p) /\ toClient' = Delivered(base, ToRoster(p), m)
    <3>. HIDE DEF base
    <3>1. m \in ToClient
      BY <1>5, <2>3
    <3>2. ToRoster(p) = members \ {p}
      <4>1. PeersOf(SessionsOf(members \ {p})) = members \ {p}
        <5>1. members \ {p} \in SUBSET members
          OBVIOUS
        <5>2. QED
          BY <1>1, <5>1, PeersOfMembers
      <4>2. QED
        BY <4>1 DEF ToRoster
    <3>3. /\ toClient' \in [Peers -> Seq(ToClient)]
          /\ \A q \in Peers : toClient'[q] = IF q \in members \ {p} /\ conn[q] = "open" /\ ~failed
                                             THEN Append(base[q], m) ELSE base[q]
      BY <2>1, <2>3, <3>1, <3>2, DeliveredTo
    <3>4. QED
      BY <2>1, <2>3, <3>3
  <2>4. QED
    BY <1>6, <2>2, <2>3
<1>8. ClientTypeOK'
  <2>1. toServer' \in [Peers -> Seq(ToServer)]
    BY <1>1, <1>2
  <2>2. QED
    BY <1>7, <2>1 DEF LobbyIInv, ClientTypeOK, clientVars
<1>9. ASSUME NEW q \in Peers PROVE Loads(q)' /\ JoinsOnce(q)' /\ Knows(q)'
  <2>1. Loads(q) /\ JoinsOnce(q) /\ Knows(q) /\ vouched[q] \subseteq loaded[q]
    BY DEF LobbyIInv, Loads
  <2>2. CASE q = p
    <3>1. conn'[p] = "closed" /\ toServer'[p] = <<>> /\ vouched'[p] \subseteq loaded[p]
      BY <1>1, <1>2, <1>4, <2>1, <2>2
    <3>2. QED
      BY <1>1, <1>4, <1>7, <2>1, <2>2, <3>1, GoneKeeps
  <2>3. CASE q # p
    <3>1. /\ conn'[q] = conn[q] /\ toServer'[q] = toServer[q] /\ session'[q] = session[q]
          /\ vouched'[q] \subseteq loaded[q] /\ (q \in members' <=> q \in members)
          /\ view'[q] = view[q] /\ plan'[q] = plan[q] /\ loaded'[q] = loaded[q]
      BY <1>1, <1>2, <1>4, <2>1, <2>3 DEF clientVars
    <3>2. CASE /\ toClient'[q] = toClient[q]
               /\ q \in members /\ conn[q] = "open" /\ ~failed =>
                    inMatch' = inMatch /\ (~inMatch => UNCHANGED matchVars)
      <4>1. UNCHANGED matchVars => rosterVersion' = rosterVersion /\ GetRoster' = GetRoster
        BY DEF matchVars, bookVars, GetRoster, SessionsOf
      <4>2. QED
        BY <1>1, <2>1, <3>1, <3>2, <4>1, ServerLeavesAlone
    <3>3. CASE /\ LeaveLobby(p) /\ q \in members /\ conn[q] = "open" /\ ~failed
               /\ toClient'[q] = Append(toClient[q], m)
      <4>1. ~inMatch /\ ~inMatch' /\ m \in ToClient /\ m = LobbyMessage(rosterVersion', GetRoster')
        BY <1>5, <3>3 DEF m
      <4>2. Knows(q)'
        BY <1>1, <2>1, <3>1, <3>3, <4>1, RosterSent
      <4>3. JoinsOnce(q)'
        BY <1>1, <2>1, <3>1, <3>3, JoinsOnceKept
      <4>. PICK n \in ToClient : n = m
        BY <4>1
      <4>4. TrueTo(q, n)'
        <5>1. n.type = "Lobby" /\ n.version = rosterVersion' /\ n.roster = GetRoster'
          BY <4>1 DEF LobbyMessage
        <5>2. MatchInv' => (~inMatch => GetRoster = published[rosterVersion])'
          BY RosterType, PTL
        <5>3. rosterVersion' \in Nat
          BY DEF MatchInv, MatchTypeOK
        <5>4. QED
          BY <4>1, <5>1, <5>2, <5>3 DEF TrueTo, Named
      <4>5. Loads(q)'
        <5>1. \A i \in DOMAIN toClient'[q] :
                \/ \E j \in DOMAIN toClient[q] : session'[q] = session[q] /\ toClient'[q][i] = toClient[q][j]
                \/ TrueTo(q, toClient[q][i])'
          BY <1>1, <3>1, <3>3, <4>1, <4>4, StreamKept
        <5>2. QED
          BY <1>1, <2>1, <3>1, <5>1, LoadsKept
      <4>6. QED
        BY <4>2, <4>3, <4>5
    <3>4. QED
      BY <1>7, <2>3, <3>2, <3>3
  <2>4. QED
    BY <2>2, <2>3
<1>10. QED
  BY <1>3, <1>8, <1>9 DEF LobbyIInv

(***************************************************************************)
(* Steps that tell no client anything and change nothing a client is told  *)
(* of: a Ready or a command taken in, a tick that starts no match, a local *)
(* failure.                                                                *)
(***************************************************************************)
LEMMA QuietKeeps ==
  ASSUME HostIInv, LobbyIInv, [MatchNext]_matchVars,
         UNCHANGED <<clientVars, members, session, inMatch, rosterVersion, published, conn, toClient>>,
         toServer' \in [Peers -> Seq(ToServer)],
         \A p \in Peers : \/ toServer'[p] = toServer[p]
                          \/ toServer[p] # <<>> /\ toServer'[p] = Tail(toServer[p]),
         \A p \in Peers : vouched'[p] \subseteq loaded[p],
         failed => failed'
  PROVE  LobbyIInv'
<1>1. MatchInv /\ MatchTypeOK /\ ClientTypeOK
  BY DEF HostIInv, MatchInv, LobbyIInv
<1>2. Named(NoPlan)'
  BY <1>1, NamedKept DEF LobbyIInv
<1>3. ClientTypeOK'
  BY <1>1 DEF ClientTypeOK, clientVars
<1>4. GetRoster' = GetRoster
  BY DEF GetRoster, SessionsOf
<1>5. ASSUME NEW p \in Peers PROVE Loads(p)' /\ JoinsOnce(p)' /\ Knows(p)'
  <2>1. Loads(p) /\ JoinsOnce(p) /\ Knows(p)
    BY DEF LobbyIInv
  <2>2. QED
    BY <1>1, <1>4, <2>1, ServerLeavesAlone
<1>6. QED
  BY <1>2, <1>3, <1>5 DEF LobbyIInv

(* A Ready the client sent is for a Roster it has loaded (HandleReady).    *)
LEMMA ReadyKeeps ==
  ASSUME HostIInv, LobbyIInv, [MatchNext]_matchVars, UNCHANGED clientVars,
         NEW p \in Peers, HandleReady(p)
  PROVE  LobbyIInv'
<1>. DEFINE m == Head(toServer[p])
<1>1. /\ toServer[p] # <<>> /\ m.type = "Ready"
      /\ toServer' = [toServer EXCEPT ![p] = Tail(toServer[p])]
      /\ Ready(p, m.version) \/ UNCHANGED matchVars
      /\ UNCHANGED <<conn, toClient, failed>>
  BY DEF HandleReady, Received
<1>2. /\ toServer \in [Peers -> Seq(ToServer)] /\ vouched \in [Peers -> SUBSET Nat]
      /\ \A q \in Peers : vouched[q] \subseteq loaded[q]
  BY DEF LobbyIInv, ClientTypeOK, Loads, HostIInv, MatchInv, MatchTypeOK
<1>3. /\ toServer' \in [Peers -> Seq(ToServer)]
      /\ \A q \in Peers : \/ toServer'[q] = toServer[q]
                          \/ toServer[q] # <<>> /\ toServer'[q] = Tail(toServer[q])
  BY <1>1, <1>2
<1>4. published[m.version] \subseteq loaded[p]
  <2>1. 1 \in DOMAIN toServer[p] /\ m = toServer[p][1]
    BY <1>1, <1>2
  <2>2. LoadedBy(p, m)
    BY <2>1 DEF LobbyIInv, Loads
  <2>3. QED
    BY <1>1, <2>2 DEF LoadedBy
<1>. HIDE DEF m
<1>5. /\ UNCHANGED <<members, session, inMatch, rosterVersion, published>>
      /\ \A q \in Peers : vouched'[q] \subseteq loaded[q]
  <2>1. CASE Ready(p, m.version)
    BY <1>2, <1>4, <2>1 DEF Ready
  <2>2. CASE UNCHANGED matchVars
    BY <1>2, <2>2 DEF matchVars, bookVars
  <2>3. QED
    BY <1>1, <2>1, <2>2
<1>6. QED
  BY <1>1, <1>3, <1>5, QuietKeeps

(* The network or either end ends a connection.                            *)
LEMMA ConnectionEndsKeeps ==
  ASSUME HostIInv, LobbyIInv, UNCHANGED clientVars, NEW p \in Peers, ConnectionEnds(p)
  PROVE  LobbyIInv'
<1>1. /\ MatchInv /\ MatchTypeOK /\ ClientTypeOK
      /\ conn \in [Peers -> {"none", "open", "ending", "closed"}]
      /\ toClient \in [Peers -> Seq(ToClient)]
  BY DEF HostIInv, HostBooks, HostTypeOK, MatchInv, LobbyIInv, ClientTypeOK
<1>2. /\ conn' = [conn EXCEPT ![p] = "ending"] /\ toClient' = [toClient EXCEPT ![p] = <<>>]
      /\ UNCHANGED <<matchVars, toServer, failed>>
  BY DEF ConnectionEnds
<1>3. UNCHANGED <<members, session, inMatch, rosterVersion, published, vouched>>
  BY <1>2 DEF matchVars, bookVars
<1>4. Named(NoPlan)'
  BY <1>3 DEF LobbyIInv, Named, NoPlan
<1>5. ClientTypeOK'
  <2>1. toClient' \in [Peers -> Seq(ToClient)]
    BY <1>1, <1>2
  <2>2. QED
    BY <1>1, <1>2, <2>1 DEF ClientTypeOK, clientVars
<1>6. ASSUME NEW q \in Peers PROVE Loads(q)' /\ JoinsOnce(q)' /\ Knows(q)'
  <2>1. Loads(q) /\ JoinsOnce(q) /\ Knows(q) /\ vouched'[q] \subseteq loaded[q]
    BY <1>3 DEF LobbyIInv, Loads
  <2>2. CASE q = p
    <3>1. conn'[p] = "ending" /\ toClient'[p] = <<>>
      BY <1>1, <1>2
    <3>2. QED
      BY <1>1, <1>2, <1>3, <2>1, <2>2, <3>1, GoneKeeps
  <2>3. CASE q # p
    <3>1. conn'[q] = conn[q] /\ toClient'[q] = toClient[q] /\ toServer'[q] = toServer[q]
          /\ view'[q] = view[q] /\ plan'[q] = plan[q] /\ loaded'[q] = loaded[q]
      BY <1>1, <1>2, <2>3 DEF clientVars
    <3>2. QED
      BY <1>2, <2>1, <3>1, OthersKept
  <2>4. QED
    BY <2>2, <2>3
<1>7. QED
  BY <1>4, <1>5, <1>6 DEF LobbyIInv

(***************************************************************************)
(* The players of a match that ends are told, then sent the Roster they    *)
(* are back in (EndMatch).                                                 *)
(***************************************************************************)
LEMMA EndKeeps ==
  ASSUME HostIInv, MatchInv', LobbyIInv, [MatchNext]_matchVars,
         UNCHANGED <<clientVars, conn, toServer, failed>>, NEW winner, EndMatch(winner),
         matchWinner' \in Nat
  PROVE  LobbyIInv'
<1>1. /\ MatchInv /\ MatchTypeOK /\ HostBooks /\ ClientTypeOK
      /\ toClient \in [Peers -> Seq(ToClient)] /\ members \subseteq Peers
  BY DEF HostIInv, HostBooks, MatchInv, MatchTypeOK, LobbyIInv, ClientTypeOK
<1>2. /\ inMatch /\ ~inMatch' /\ rosterVersion' = rosterVersion + 1
      /\ UNCHANGED <<members, session, vouched>>
      /\ toClient' = EndTold(winner) /\ WinnerOf(winner) \in Nat
  BY DEF EndMatch, End, BackToLobby
<1>3. GetRoster' = SessionsOf(members)
  BY <1>2 DEF GetRoster, SessionsOf
<1>4. PeersOf(Playing) = members
  <2>1. members \in SUBSET members
    OBVIOUS
  <2>2. QED
    BY <1>1, <1>2, <2>1, PeersOfMembers DEF Playing
<1>5. PICK e \in ToClient : e = MatchEndMessage(WinnerOf(winner))
  BY <1>2, MessagesSent
<1>6. PICK m \in ToClient : m = LobbyMessage(rosterVersion', GetRoster')
  <2>1. MatchInv' => (LobbyMessage(rosterVersion, GetRoster) \in ToClient)'
    BY RosterType, PTL
  <2>2. QED
    BY <2>1
<1>. DEFINE first == Delivered(toClient, members, e)
<1>7. toClient' = Delivered(first, members, m)
  BY <1>2, <1>3, <1>4, <1>5, <1>6 DEF EndTold
<1>8. /\ first \in [Peers -> Seq(ToClient)]
      /\ \A q \in Peers : first[q] = IF q \in members /\ conn[q] = "open" /\ ~failed
                                     THEN Append(toClient[q], e) ELSE toClient[q]
  BY <1>1, DeliveredTo
<1>. HIDE DEF first
<1>9. /\ toClient' \in [Peers -> Seq(ToClient)]
      /\ \A q \in Peers : toClient'[q] = IF q \in members /\ conn[q] = "open" /\ ~failed
                                         THEN Append(first[q], m) ELSE first[q]
  BY <1>7, <1>8, DeliveredTo
<1>10. Named(NoPlan)'
  BY <1>1, NamedKept DEF LobbyIInv
<1>11. ClientTypeOK'
  BY <1>1, <1>9 DEF ClientTypeOK, clientVars
<1>12. e.type = "MatchEnd" /\ m.type = "Lobby" /\ m.version = rosterVersion' /\ m.roster = GetRoster'
  BY <1>5, <1>6 DEF MatchEndMessage, LobbyMessage
<1>13. ASSUME NEW q \in Peers PROVE TrueTo(q, e)' /\ TrueTo(q, m)'
  <2>1. MatchInv' => (~inMatch => GetRoster = published[rosterVersion])'
    BY RosterType, PTL
  <2>2. rosterVersion' \in Nat
    BY DEF MatchInv, MatchTypeOK
  <2>3. QED
    BY <1>2, <1>12, <2>1, <2>2 DEF TrueTo, Named
<1>14. ASSUME NEW q \in Peers PROVE Loads(q)' /\ JoinsOnce(q)' /\ Knows(q)'
  <2>1. Loads(q) /\ JoinsOnce(q) /\ Knows(q) /\ vouched'[q] \subseteq loaded[q]
    BY <1>2 DEF LobbyIInv, Loads
  <2>2. /\ view'[q] = view[q] /\ plan'[q] = plan[q] /\ loaded'[q] = loaded[q]
        /\ session'[q] = session[q] /\ conn'[q] = conn[q] /\ toServer'[q] = toServer[q]
        /\ (q \in members' <=> q \in members)
    BY <1>2 DEF clientVars
  <2>3. CASE ~(q \in members /\ conn[q] = "open" /\ ~failed)
    <3>1. toClient'[q] = toClient[q]
      BY <1>8, <1>9, <2>3
    <3>2. QED
      BY <1>1, <2>1, <2>2, <2>3, <3>1, ServerLeavesAlone
  <2>4. CASE q \in members /\ conn[q] = "open" /\ ~failed
    <3>1. toClient'[q] = Append(Append(toClient[q], e), m) /\ toClient[q] \in Seq(ToClient)
      BY <1>1, <1>8, <1>9, <2>4
    <3>2. Knows(q)'
      <4>1. toClient'[q] = Append(Append(toClient[q], MatchEndMessage(WinnerOf(winner))),
                                  LobbyMessage(rosterVersion', GetRoster'))
        BY <1>5, <1>6, <3>1
      <4>2. QED
        BY <1>1, <1>2, <2>1, <2>2, <2>4, <4>1, EndSent
    <3>3. JoinsOnce(q)'
      BY <1>1, <2>1, <2>2, <2>4, JoinsOnceKept
    <3>4. Loads(q)'
      <4>1. ASSUME NEW i \in DOMAIN toClient'[q]
            PROVE  \/ \E j \in DOMAIN toClient[q] : session'[q] = session[q] /\ toClient'[q][i] = toClient[q][j]
                   \/ TrueTo(q, toClient[q][i])'
        <5>1. \/ i \in DOMAIN toClient[q] /\ toClient'[q][i] = toClient[q][i]
              \/ toClient'[q][i] = e \/ toClient'[q][i] = m
          BY <3>1
        <5>2. toClient'[q][i] = e => TrueTo(q, toClient[q][i])'
          BY <1>13 DEF TrueTo, Named
        <5>3. toClient'[q][i] = m => TrueTo(q, toClient[q][i])'
          BY <1>13 DEF TrueTo, Named
        <5>4. QED
          BY <2>2, <5>1, <5>2, <5>3
      <4>2. QED
        BY <1>1, <2>1, <2>2, <4>1, LoadsKept
    <3>5. QED
      BY <3>2, <3>3, <3>4
  <2>5. QED
    BY <2>3, <2>4
<1>15. QED
  BY <1>10, <1>11, <1>14 DEF LobbyIInv

(***************************************************************************)
(* A match starts when everyone in the Lobby is Ready for its Roster, so   *)
(* its start names only players each of them has loaded (StartMatchIfReady, *)
(* Match::TryStart).                                                       *)
(***************************************************************************)
LEMMA StartKeeps ==
  ASSUME HostIInv, MatchInv', LobbyIInv, [MatchNext]_matchVars,
         UNCHANGED <<clientVars, conn, toServer, failed>>, StartMatch
  PROVE  LobbyIInv'
<1>1. /\ MatchInv /\ MatchTypeOK /\ HostBooks /\ ClientTypeOK
      /\ toClient \in [Peers -> Seq(ToClient)] /\ members \subseteq Peers
      /\ nextId \in Nat /\ SessionsOf(members) \subseteq Nat
  BY RosterType DEF HostIInv, HostBooks, MatchInv, MatchTypeOK, LobbyIInv, ClientTypeOK
<1>2. /\ inMatch' /\ UNCHANGED <<members, session, vouched, rosterVersion, published>>
      /\ ~inMatch /\ \A p \in members : readyVersion[p] = rosterVersion
  BY DEF StartMatch, TryStart, CanStart
<1>3. DOMAIN Entrants = SessionsOf(members)
  BY DEF Entrants
<1>4. PeersOf(DOMAIN Entrants) = members
  <2>1. members \in SUBSET members
    OBVIOUS
  <2>2. QED
    BY <1>1, <1>3, <2>1, PeersOfMembers
<1>5. PICK m \in ToClient : m = MatchStartMessage(nextId, SessionsOf(members))
  BY <1>1, MessagesSent
<1>6. toClient' = Delivered(toClient, members, m)
  BY <1>3, <1>4, <1>5 DEF StartMatch
<1>7. /\ toClient' \in [Peers -> Seq(ToClient)]
      /\ \A q \in Peers : toClient'[q] = IF q \in members /\ conn[q] = "open" /\ ~failed
                                         THEN Append(toClient[q], m) ELSE toClient[q]
  BY <1>1, <1>6, DeliveredTo
<1>8. Named(NoPlan)'
  BY <1>2 DEF LobbyIInv, Named, NoPlan
<1>9. ClientTypeOK'
  BY <1>1, <1>7 DEF ClientTypeOK, clientVars
<1>10. m.type = "MatchStart" /\ m.players = SessionsOf(members)
  BY <1>5 DEF MatchStartMessage
<1>11. ASSUME NEW q \in Peers PROVE Loads(q)' /\ JoinsOnce(q)' /\ Knows(q)'
  <2>1. Loads(q) /\ JoinsOnce(q) /\ Knows(q) /\ vouched[q] \subseteq loaded[q]
    BY DEF LobbyIInv, Loads
  <2>2. /\ view'[q] = view[q] /\ plan'[q] = plan[q] /\ loaded'[q] = loaded[q]
        /\ session'[q] = session[q] /\ conn'[q] = conn[q] /\ toServer'[q] = toServer[q]
        /\ (q \in members' <=> q \in members) /\ vouched'[q] \subseteq loaded[q]
    BY <1>2, <2>1 DEF clientVars
  <2>3. CASE ~(q \in members /\ conn[q] = "open" /\ ~failed)
    <3>1. toClient'[q] = toClient[q]
      BY <1>7, <2>3
    <3>2. QED
      BY <1>1, <2>1, <2>2, <2>3, <3>1, ServerLeavesAlone
  <2>4. CASE q \in members /\ conn[q] = "open" /\ ~failed
    <3>1. toClient'[q] = Append(toClient[q], m)
      BY <1>7, <2>4
    <3>2. session[q] \in m.players
      BY <1>10, <2>4 DEF SessionsOf
    <3>3. Knows(q)'
      BY <1>1, <1>2, <1>10, <2>1, <2>2, <2>4, <3>1, <3>2, StartSent
    <3>4. JoinsOnce(q)'
      BY <1>1, <2>1, <2>2, <2>4, JoinsOnceKept
    <3>5. SessionsOf(members) \subseteq vouched[q]
      BY <1>1, <1>2, <2>4 DEF MatchInv, ReadyMeansLoaded, IsReady
    <3>6. TrueTo(q, m)'
      BY <1>10, <2>1, <2>2, <3>5 DEF TrueTo
    <3>7. Loads(q)'
      <4>1. \A i \in DOMAIN toClient'[q] :
              \/ \E j \in DOMAIN toClient[q] : session'[q] = session[q] /\ toClient'[q][i] = toClient[q][j]
              \/ TrueTo(q, toClient[q][i])'
        BY <1>1, <2>2, <3>1, <3>6, StreamKept
      <4>2. QED
        BY <1>1, <2>1, <2>2, <4>1, LoadsKept
    <3>8. QED
      BY <3>3, <3>4, <3>7
  <2>5. QED
    BY <2>3, <2>4
<1>12. QED
  BY <1>8, <1>9, <1>11 DEF LobbyIInv

(***************************************************************************)
(* The server takes in a join request, a peer's first and only: it refuses *)
(* the peer, or admits it and tells the others (HandleJoinRequest).        *)
(***************************************************************************)
LEMMA JoinKeeps ==
  ASSUME HostIInv, MatchInv', LobbyIInv, [MatchNext]_matchVars, UNCHANGED clientVars,
         NEW p \in Peers, HandleJoinRequest(p)
  PROVE  LobbyIInv'
<1>. DEFINE request == Head(toServer[p])
<1>1. /\ MatchInv /\ MatchTypeOK /\ HostBooks /\ ClientTypeOK
      /\ toClient \in [Peers -> Seq(ToClient)] /\ toServer \in [Peers -> Seq(ToServer)]
      /\ members \subseteq Peers /\ session \in [Peers -> Nat] /\ vouched \in [Peers -> SUBSET Nat]
      /\ nextId \in Nat /\ rosterVersion \in Nat
  BY DEF HostIInv, HostBooks, MatchInv, MatchTypeOK, LobbyIInv, ClientTypeOK
<1>2. /\ toServer[p] # <<>> /\ request.type = "Join"
      /\ toServer' = [toServer EXCEPT ![p] = Tail(toServer[p])]
      /\ conn[p] \in {"open", "ending"}
      /\ UNCHANGED <<conn, failed>>
  BY DEF HandleJoinRequest, Received, Live
<1>3. 1 \in DOMAIN toServer[p] /\ request = toServer[p][1] /\ request \in ToServer
  BY <1>1, <1>2
<1>4. p \notin members /\ toClient[p] = <<>> /\ view[p] = EmptyView
  <2>1. JoinPending(p)
    BY <1>2, <1>3 DEF JoinPending
  <2>2. QED
    BY <2>1 DEF LobbyIInv, JoinsOnce
<1>5. PICK faults \in Requests : request = JoinMessage(faults)
  BY <1>2, <1>3 DEF ToServer, ReadyMessage
<1>6. request.faults = faults
  BY <1>5 DEF JoinMessage
<1>. HIDE DEF request
<1>7. /\ toServer' \in [Peers -> Seq(ToServer)]
      /\ \A q \in Peers : q # p => toServer'[q] = toServer[q]
      /\ toServer'[p] = Tail(toServer[p])
  BY <1>1, <1>2
<1>8. Named(NoPlan)'
  BY <1>1, NamedKept DEF LobbyIInv
<1>9. JoinsOnce(p)'
  <2>1. JoinsOnce(p)
    BY DEF LobbyIInv
  <2>2. toServer'[p] # toServer[p]
    <3>1. toServer[p] \in Seq(ToServer) /\ toServer[p] # <<>>
      BY <1>1, <1>2
    <3>2. Len(Tail(toServer[p])) # Len(toServer[p])
      BY <3>1
    <3>3. QED
      BY <1>7, <3>2
  <2>3. view'[p] = view[p] /\ conn'[p] # "none"
    BY <1>2 DEF clientVars
  <2>4. QED
    BY <1>1, <1>2, <1>7, <2>1, <2>2, <2>3, JoinsOnceKept
<1>10. ASSUME NEW q \in Peers
       PROVE  /\ Loads(q) /\ JoinsOnce(q) /\ Knows(q) /\ vouched[q] \subseteq loaded[q]
              /\ view'[q] = view[q] /\ plan'[q] = plan[q] /\ loaded'[q] = loaded[q] /\ conn'[q] = conn[q]
  BY <1>2 DEF LobbyIInv, Loads, clientVars
<1>11. \A i \in DOMAIN toServer'[p] : \E j \in DOMAIN toServer[p] : toServer'[p][i] = toServer[p][j]
  <2>1. toServer[p] \in Seq(ToServer) /\ toServer[p] # <<>>
    BY <1>1, <1>2
  <2>2. \A i \in DOMAIN Tail(toServer[p]) : i + 1 \in DOMAIN toServer[p] /\ Tail(toServer[p])[i] = toServer[p][i + 1]
    BY <2>1
  <2>3. QED
    BY <1>7, <2>2
<1>12. ASSUME Refusals(faults) # {}, UNCHANGED matchVars,
              toClient' = Delivered(toClient, {p}, RefusalMessage(Refusal(faults)))
       PROVE  LobbyIInv'
  <2>1. PICK m \in ToClient : m = RefusalMessage(Refusal(faults))
    BY <1>12, RefusalIsAReason, MessagesSent
  <2>2. /\ toClient' \in [Peers -> Seq(ToClient)]
        /\ \A q \in Peers : q # p => toClient'[q] = toClient[q]
        /\ toClient'[p] \in {toClient[p], Append(toClient[p], m)}
    <3>1. toClient' = Delivered(toClient, {p}, m)
      BY <1>12, <2>1
    <3>. DEFINE replied == Delivered(toClient, {p}, m)
    <3>2. /\ replied \in [Peers -> Seq(ToClient)]
          /\ \A q \in Peers : replied[q] = IF q \in {p} /\ conn[q] = "open" /\ ~failed
                                            THEN Append(toClient[q], m) ELSE toClient[q]
      BY ZenonT(60), <1>1, DeliveredTo
    <3>. HIDE DEF replied
    <3>3. toClient' = replied
      BY <3>1 DEF replied
    <3>4. QED
      BY <3>2, <3>3
  <2>3. UNCHANGED <<members, session, inMatch, rosterVersion, published, vouched>>
    BY <1>12 DEF matchVars, bookVars
  <2>4. ClientTypeOK'
    BY <1>1, <1>7, <2>2 DEF ClientTypeOK, clientVars
  <2>5. ASSUME NEW q \in Peers PROVE Loads(q)' /\ JoinsOnce(q)' /\ Knows(q)'
    <3>1. CASE q # p
      BY <1>2, <1>7, <1>10, <1>12, <2>2, <3>1, OthersKept
    <3>2. CASE q = p
      <4>1. m.type = "Refusal"
        BY <2>1 DEF RefusalMessage
      <4>2. TrueTo(p, m)'
        BY <4>1 DEF TrueTo
      <4>3. \A i \in DOMAIN toClient'[p] :
              \/ \E j \in DOMAIN toClient[p] : session'[p] = session[p] /\ toClient'[p][i] = toClient[p][j]
              \/ TrueTo(p, toClient[p][i])'
        BY <1>1, <2>2, <2>3, <4>2, StreamKept
      <4>4. Loads(p)'
        BY <1>1, <1>10, <1>11, <2>3, <4>3, LoadsKept
      <4>5. Knows(p)'
        BY <1>4, <2>3 DEF Knows
      <4>6. QED
        BY <1>9, <3>2, <4>4, <4>5
    <3>3. QED
      BY <3>1, <3>2
  <2>6. QED
    BY <1>8, <2>4, <2>5 DEF LobbyIInv
<1>13. ASSUME Join(p, faults),
              toClient' = Delivered(Delivered(toClient, {p}, AdmissionMessage(nextId)),
                                    PeersOf(SessionsOf(members)) \cup {p},
                                    LobbyMessage(rosterVersion', SessionsOf(members) \cup {nextId}))
       PROVE  LobbyIInv'
  <2>1. /\ inMatch' = inMatch /\ ~inMatch /\ members' = members \cup {p}
        /\ session' = [session EXCEPT ![p] = nextId]
        /\ vouched' = [vouched EXCEPT ![p] = {}]
    BY <1>13 DEF Join, Refusals
  <2>2. inMatch' = FALSE
    BY <1>1, <2>1 DEF MatchTypeOK
  <2>3. /\ session'[p] = nextId /\ vouched'[p] = {}
        /\ \A q \in Peers : q # p => /\ session'[q] = session[q] /\ vouched'[q] = vouched[q]
                                     /\ (q \in members' <=> q \in members)
    BY <1>1, <2>1
  <2>4. GetRoster' = SessionsOf(members) \cup {nextId}
    <3>1. SessionsOf(members)' = SessionsOf(members) \cup {nextId}
      BY <1>1, <1>4, <2>1, <2>3, SMTT(30) DEF SessionsOf
    <3>2. QED
      BY <2>2, <3>1 DEF GetRoster
  <2>5. PeersOf(SessionsOf(members)) = members
    <3>1. members \in SUBSET members
      OBVIOUS
    <3>2. QED
      BY <1>1, <3>1, PeersOfMembers
  <2>6. PICK a \in ToClient : a = AdmissionMessage(nextId)
    BY <1>1, MessagesSent
  <2>7. PICK m \in ToClient : m = LobbyMessage(rosterVersion', GetRoster')
    <3>1. MatchInv' => (LobbyMessage(rosterVersion, GetRoster) \in ToClient)'
      BY RosterType, PTL
    <3>2. QED
      BY <3>1
  <2>. DEFINE first == Delivered(toClient, {p}, a)
  <2>8. toClient' = Delivered(first, members \cup {p}, m)
    BY <1>13, <2>4, <2>5, <2>6, <2>7
  <2>9. /\ first \in [Peers -> Seq(ToClient)]
        /\ \A q \in Peers : first[q] = IF q \in {p} /\ conn[q] = "open" /\ ~failed
                                       THEN Append(toClient[q], a) ELSE toClient[q]
    <3>1. toClient \in [Peers -> Seq(ToClient)]
      BY <1>1 DEF LobbyIInv, ClientTypeOK
    <3>2. QED
      BY <3>1, DeliveredTo, ZenonT(60)
  <2>. HIDE DEF first
  <2>10. /\ toClient' \in [Peers -> Seq(ToClient)]
         /\ \A q \in Peers : toClient'[q] = IF q \in members \cup {p} /\ conn[q] = "open" /\ ~failed
                                            THEN Append(first[q], m) ELSE first[q]
    BY <2>8, <2>9, DeliveredTo
  <2>11. ClientTypeOK'
    BY <1>1, <1>7, <2>10 DEF ClientTypeOK, clientVars
  <2>12. /\ a.type = "Admission" /\ a.session = session'[p]
         /\ m.type = "Lobby" /\ m.version = rosterVersion' /\ m.roster = GetRoster'
    BY <2>3, <2>6, <2>7 DEF AdmissionMessage, LobbyMessage
  <2>13. TrueTo(p, a)' /\ \A q \in Peers : TrueTo(q, m)'
    <3>1. MatchInv' => (~inMatch => GetRoster = published[rosterVersion])'
      BY RosterType, PTL
    <3>2. rosterVersion' \in Nat
      BY DEF MatchInv, MatchTypeOK
    <3>3. QED
      BY <2>2, <2>12, <3>1, <3>2 DEF TrueTo, Named
  <2>14. Loads(p)' /\ JoinsOnce(p)' /\ Knows(p)'
    <3>1. vouched'[p] \subseteq loaded[p]
      BY <2>3
    <3>2. CASE conn[p] = "open" /\ ~failed
      <4>1. /\ toClient'[p] \in Seq(ToClient) /\ Len(toClient'[p]) = 2
            /\ toClient'[p][1] = a /\ toClient'[p][2] = m
        <5>1. toClient'[p] = Append(Append(<<>>, a), m)
          BY <1>4, <2>9, <2>10, <3>2
        <5>2. <<>> \in Seq(ToClient)
          OBVIOUS
        <5>3. QED
          BY <5>1, <5>2
      <4>2. ASSUME NEW i \in DOMAIN toClient'[p] PROVE TrueTo(p, toClient[p][i])'
        <5>1. toClient'[p][i] = a \/ toClient'[p][i] = m
          BY <4>1
        <5>2. QED
          BY <2>13, <5>1 DEF TrueTo, Named
      <4>3. Loads(p)'
        BY <1>1, <1>10, <1>11, <3>1, <4>2, LoadsKept
      <4>4. Knows(p)'
        <5>1. /\ toClient'[p][1] = AdmissionMessage(session'[p])
              /\ toClient'[p][2] = LobbyMessage(rosterVersion', GetRoster')
          BY <2>3, <2>6, <2>7, <4>1
        <5>2. QED
          BY <1>4, <1>10, <2>2, <4>1, <5>1, WelcomeSent
      <4>5. QED
        BY <1>9, <4>3, <4>4
    <3>3. CASE ~(conn[p] = "open" /\ ~failed)
      <4>1. toClient'[p] = <<>>
        BY <1>4, <2>9, <2>10, <3>3
      <4>2. Loads(p)'
        <5>1. \A i \in DOMAIN toClient'[p] : FALSE
          BY <4>1
        <5>2. QED
          BY <1>1, <1>10, <1>11, <3>1, <5>1, LoadsKept
      <4>3. Knows(p)'
        BY <1>2, <3>3 DEF Knows
      <4>4. QED
        BY <1>9, <4>2, <4>3
    <3>4. QED
      BY <3>2, <3>3
  <2>15. ASSUME NEW q \in Peers, q # p PROVE Loads(q)' /\ JoinsOnce(q)' /\ Knows(q)'
    <3>1. /\ session'[q] = session[q] /\ vouched'[q] \subseteq loaded[q]
          /\ (q \in members' <=> q \in members) /\ toServer'[q] = toServer[q]
      BY <1>7, <1>10, <2>3, <2>15
    <3>2. CASE ~(q \in members /\ conn[q] = "open" /\ ~failed)
      <4>1. toClient'[q] = toClient[q]
        BY <2>9, <2>10, <2>15, <3>2
      <4>2. failed => failed'
        BY <1>2
      <4>3. QED
        BY <1>1, <1>2, <1>10, <3>1, <3>2, <4>1, <4>2, ServerLeavesAlone
    <3>3. CASE q \in members /\ conn[q] = "open" /\ ~failed
      <4>1. toClient'[q] = Append(toClient[q], m)
        BY <2>9, <2>10, <2>15, <3>3
      <4>2. Knows(q)'
        BY <1>1, <1>10, <2>1, <2>2, <2>7, <3>1, <3>3, <4>1, RosterSent
      <4>3. JoinsOnce(q)'
        BY <1>1, <1>10, <3>1, <3>3, JoinsOnceKept
      <4>4. \A i \in DOMAIN toClient'[q] :
              \/ \E j \in DOMAIN toClient[q] : session'[q] = session[q] /\ toClient'[q][i] = toClient[q][j]
              \/ TrueTo(q, toClient[q][i])'
        BY <1>1, <2>13, <3>1, <4>1, StreamKept
      <4>5. Loads(q)'
        BY <1>1, <1>10, <3>1, <4>4, LoadsKept
      <4>6. QED
        BY <4>2, <4>3, <4>5
    <3>4. QED
      BY <3>2, <3>3
  <2>16. QED
    BY <1>8, <2>11, <2>14, <2>15 DEF LobbyIInv
<1>14. QED
  BY <1>4, <1>6, <1>12, <1>13 DEF HandleJoinRequest, Reply, request

-----------------------------------------------------------------------------
LEMMA LobbyInitEstablishes == Init => LobbyIInv
<1>. SUFFICES ASSUME Init PROVE LobbyIInv
  OBVIOUS
<1>1. /\ view = [p \in Peers |-> EmptyView] /\ plan = [p \in Peers |-> NoPlan]
      /\ loaded = [p \in Peers |-> {}] /\ reported = [p \in Peers |-> 0]
      /\ toClient = [p \in Peers |-> <<>>] /\ toServer = [p \in Peers |-> <<>>]
      /\ members = {} /\ rosterVersion = 0 /\ published[0] = {}
      /\ vouched = [p \in Peers |-> {}]
  BY DEF Init, HostInit, MatchInit
<1>2. ClientTypeOK
  <2>1. NoPlan \in Rosters
    BY DEF NoPlan, Rosters
  <2>2. EmptyView \in [accepted : Nat, refused : BOOLEAN, lobby : Rosters,
                       inMatch : BOOLEAN, players : SUBSET Nat]
    BY <2>1 DEF EmptyView, None
  <2>3. QED
    BY <1>1, <2>1, <2>2 DEF ClientTypeOK
<1>3. Named(NoPlan)
  BY <1>1 DEF Named, NoPlan
<1>4. ASSUME NEW p \in Peers PROVE Loads(p) /\ JoinsOnce(p) /\ Knows(p)
  <2>1. /\ view[p] = EmptyView /\ plan[p] = NoPlan /\ vouched[p] = {}
        /\ DOMAIN toClient[p] = {} /\ DOMAIN toServer[p] = {} /\ toClient[p] = <<>> /\ p \notin members
    BY <1>1
  <2>2. EmptyView.inMatch = FALSE /\ EmptyView.lobby = NoPlan
    BY Zenon DEF EmptyView
  <2>3. Loads(p)
    BY <1>3, <2>1, <2>2 DEF Loads
  <2>4. JoinsOnce(p)
    BY <2>1 DEF JoinsOnce
  <2>5. Knows(p)
    BY <2>1 DEF Knows
  <2>6. QED
    BY <2>3, <2>4, <2>5
<1>5. QED
  BY <1>2, <1>3, <1>4 DEF LobbyIInv

(* Every step of the server keeps what its clients know.                   *)
LEMMA HostStepKeeps ==
  ASSUME HostIInv, HostIInv', LobbyIInv, HostStep, UNCHANGED clientVars
  PROVE  LobbyIInv'
<1>1. /\ MatchInv /\ MatchInv' /\ MatchTypeOK /\ matchWinner' \in Nat
      /\ toServer \in [Peers -> Seq(ToServer)]
      /\ \A p \in Peers : vouched[p] \subseteq loaded[p]
  BY DEF HostIInv, HostBooks, HostTypeOK, MatchInv, LobbyIInv, ClientTypeOK, Loads
<1>2. [MatchNext]_matchVars
  BY <1>1, HostStepIsMatchs
<1>3. ASSUME NEW p \in Peers, HandleDisconnected(p) \/ HandleMisbehaviour(p) \/ HandleOverdue(p)
      PROVE  LobbyIInv'
  <2>1. Expel(p) /\ failed' = failed
    BY <1>3 DEF HandleDisconnected, HandleMisbehaviour, HandleOverdue, Expel
  <2>2. QED
    BY <1>1, <1>2, <2>1, ExpelKeeps
<1>4. ASSUME NEW p \in Peers, HandleJoinRequest(p) PROVE LobbyIInv'
  BY <1>1, <1>2, <1>4, JoinKeeps
<1>5. ASSUME NEW p \in Peers, HandleReady(p) PROVE LobbyIInv'
  BY <1>2, <1>5, ReadyKeeps
<1>6. ASSUME NEW p \in Peers, HandleCommands(p) PROVE LobbyIInv'
  <2>1. UNCHANGED <<matchVars, linkVars, failed>>
    BY <1>6 DEF HandleCommands
  <2>2. UNCHANGED <<members, session, inMatch, rosterVersion, published, vouched, conn, toClient, toServer, failed>>
    BY <2>1 DEF matchVars, bookVars, linkVars
  <2>3. QED
    BY <1>1, <1>2, <2>2, QuietKeeps
<1>7. CASE HostEndMatch
  <2>1. EndMatch(None) /\ UNCHANGED <<conn, toServer, failed>>
    BY <1>7 DEF HostEndMatch
  <2>2. QED
    BY <1>1, <1>2, <2>1, EndKeeps
<1>8. CASE PrepareTick
  <2>1. UNCHANGED <<conn, toServer, failed>>
    BY <1>8 DEF PrepareTick
  <2>2. CASE PrepareTickNoStart
    <3>1. UNCHANGED <<members, session, inMatch, rosterVersion, published, vouched, toClient>>
      BY <2>2 DEF PrepareTickNoStart, TickWithoutStart
    <3>2. QED
      BY <1>1, <1>2, <2>1, <3>1, QuietKeeps
  <2>3. CASE StartMatch
    BY <1>1, <1>2, <2>1, <2>3, StartKeeps
  <2>4. QED
    BY <1>8, <2>2, <2>3 DEF PrepareTick
<1>9. CASE RunTick
  <2>1. UNCHANGED <<matchVars, linkVars, failed>>
    BY <1>9 DEF RunTick
  <2>2. UNCHANGED <<members, session, inMatch, rosterVersion, published, vouched, conn, toClient, toServer, failed>>
    BY <2>1 DEF matchVars, bookVars, linkVars
  <2>3. QED
    BY <1>1, <1>2, <2>2, QuietKeeps
<1>10. CASE Act
  <2>1. UNCHANGED <<conn, toServer, failed>>
    BY <1>10 DEF Act
  <2>2. CASE EndMatch(action)
    BY <1>1, <1>2, <2>1, <2>2, EndKeeps
  <2>3. CASE UNCHANGED <<matchVars, toClient>>
    <3>1. UNCHANGED <<members, session, inMatch, rosterVersion, published, vouched, toClient>>
      BY <2>3 DEF matchVars, bookVars
    <3>2. QED
      BY <1>1, <1>2, <2>1, <3>1, QuietKeeps
  <2>4. QED
    BY <1>10, <2>2, <2>3 DEF Act
<1>11. QED
  BY <1>3, <1>4, <1>5, <1>6, <1>7, <1>8, <1>9, <1>10 DEF HostStep

LEMMA LobbyStepKeeps ==
  ASSUME HostIInv, HostIInv', LobbyIInv, [Next]_vars
  PROVE  LobbyIInv'
<1>1. /\ MatchTypeOK /\ toServer \in [Peers -> Seq(ToServer)]
      /\ \A p \in Peers : vouched[p] \subseteq loaded[p]
  BY DEF HostIInv, MatchInv, LobbyIInv, ClientTypeOK, Loads
<1>2. ASSUME NEW p \in Peers, ClientStep(p) PROVE LobbyIInv'
  BY <1>1, <1>2, ConnectKeeps, ReceiveKeeps, PlanKeeps, ReportReadyKeeps DEF ClientStep
<1>3. CASE HostStep /\ UNCHANGED clientVars
  BY <1>3, HostStepKeeps
<1>4. CASE LinkStep /\ UNCHANGED clientVars
  BY <1>4, ConnectionEndsKeeps DEF LinkStep
<1>5. CASE (RecordFailure /\ UNCHANGED clientVars) \/ UNCHANGED vars
  <2>1. UNCHANGED <<matchVars, linkVars, clientVars>> /\ (failed => failed')
    BY <1>5 DEF RecordFailure, vars, hostVars
  <2>2. UNCHANGED <<members, session, inMatch, rosterVersion, published, vouched, conn, toClient, toServer, clientVars>>
    BY <2>1 DEF matchVars, bookVars, linkVars
  <2>3. QED
    BY <1>1, <2>1, <2>2, QuietKeeps
<1>6. QED
  BY <1>2, <1>3, <1>4, <1>5 DEF Next

(***************************************************************************)
(* However the messages cross, a client in a match has loaded everyone it  *)
(* started with, and a member that has taken in all it was sent knows the  *)
(* state of the Lobby (lobby_readiness.cpp, inbox.cpp, host_network.cpp).  *)
(***************************************************************************)
THEOREM LobbyInvariant == Spec => []LobbyInv
<1>1. Init => LobbyIInv
  BY LobbyInitEstablishes
<1>2. HostIInv /\ HostIInv' /\ LobbyIInv /\ [Next]_vars => LobbyIInv'
  BY LobbyStepKeeps
<1>3. HostIInv /\ LobbyIInv => LobbyInv
  <2>. SUFFICES ASSUME HostIInv, LobbyIInv PROVE LobbyInv
    OBVIOUS
  <2>1. members \subseteq Peers
    BY DEF HostIInv, MatchInv, MatchTypeOK
  <2>2. MatchIsLoaded
    BY DEF LobbyIInv, Loads, MatchIsLoaded
  <2>3. ASSUME NEW p \in members, conn[p] = "open", ~failed, toClient[p] = <<>>
        PROVE  /\ view[p].accepted = session[p] /\ view[p].inMatch = inMatch
               /\ ~inMatch => view[p].lobby = RosterNow
    <3>1. Knows(p) /\ DOMAIN toClient[p] = {}
      BY <2>1, <2>3 DEF LobbyIInv
    <3>2. QED
      BY <2>3, <3>1 DEF Knows, Told
  <2>4. ClientsKnowTheLobby
    BY <2>3 DEF ClientsKnowTheLobby, RosterNow
  <2>5. QED
    BY <2>2, <2>4 DEF LobbyInv
<1>4. QED
  BY <1>1, <1>2, <1>3, HostInductive, PTL DEF Spec
=============================================================================
