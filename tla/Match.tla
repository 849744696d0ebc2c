------------------------------- MODULE Match -------------------------------
(***************************************************************************)
(* The Lobby and the match its players go on to (host/match.cpp): who has  *)
(* joined, the version of the Roster, who is Ready for it, whether a match *)
(* is in progress and how long ago the last one ended.  Host calls every   *)
(* method under one mutex, so each is one atomic step.                     *)
(*                                                                         *)
(* Sessions and matches take their IDs from one generator (ids_), entities *)
(* count up from 1.  A Roster version is a natural number here: the code's *)
(* is 32 bits wide, far more than the joins, departures and matches of a   *)
(* server's life.                                                          *)
(*                                                                         *)
(* Two history variables, which no action reads, state what Ready means:   *)
(* published[v] is who the Roster of version v named, and vouched[p] who   *)
(* the Roster named that the last Ready accepted from p was for.           *)
(***************************************************************************)
EXTENDS Naturals, FiniteSets

CONSTANTS
  Peers,        \* connections, each used by at most one player
  PlayerCount,  \* how many players the Lobby holds and a match starts with
  PauseTicks    \* ticks that must pass after a match before the next

ASSUME PeersAssumption == IsFiniteSet(Peers)
ASSUME PlayerCountAssumption == PlayerCount \in Nat \ {0}
ASSUME PauseTicksAssumption == PauseTicks \in Nat

VARIABLES
  members,        \* members_: the peers that joined and have not left
  session,        \* the Session ID of each member
  readyVersion,   \* the Roster version each member last was Ready for, 0 if none
  inMatch,        \* in_match_
  rosterVersion,  \* roster_version_
  ticksSinceEnd,  \* ticks_since_end_
  nextEntity,     \* next_entity_
  nextId,         \* what ids_ gives next
  published,      \* history: who the Roster of each version named
  vouched         \* history: who each member's last accepted Ready was about

bookVars == <<members, session, readyVersion, inMatch, rosterVersion,
              ticksSinceEnd, nextEntity, nextId>>
matchVars == <<bookVars, published, vouched>>

None == 0  \* no session: IDs start at 1

SessionsOf(ps) == {session[p] : p \in ps}

(***************************************************************************)
(* The sessions in the match in progress, and those the Roster names: it   *)
(* is empty while a match is in progress.                                  *)
(***************************************************************************)
Playing == IF inMatch THEN SessionsOf(members) ELSE {}
GetRoster == IF inMatch THEN {} ELSE SessionsOf(members)
IsPlaying(s) == s \in Playing

MatchInit ==
  /\ members = {}
  /\ session = [p \in Peers |-> None]
  /\ readyVersion = [p \in Peers |-> 0]
  /\ inMatch = FALSE
  /\ rosterVersion = 0
  /\ ticksSinceEnd = PauseTicks
  /\ nextEntity = 1
  /\ nextId = 1
  /\ published = [v \in {0} |-> {}]
  /\ vouched = [p \in Peers |-> {}]

(***************************************************************************)
(* What a join request is refused for.  A request is the set of reasons it *)
(* can never be admitted for; a match in progress and a full Lobby come    *)
(* from the Match itself.  The client hears the first that applies, in the *)
(* order of the code's checks.                                             *)
(***************************************************************************)
Faults == {"kReenactmentsNotAccepted", "kVersionMismatch", "kPackMismatch",
           "kUnknownCharacter"}

RefusalOrder == <<"kReenactmentsNotAccepted", "kVersionMismatch", "kPackMismatch",
                  "kUnknownCharacter", "kMatchInProgress", "kLobbyFull">>

Refusals(faults) ==
  faults \cup {r \in {"kMatchInProgress"} : inMatch}
         \cup {r \in {"kLobbyFull"} : Cardinality(members) >= PlayerCount}

Refusal(faults) ==
  RefusalOrder[CHOOSE i \in DOMAIN RefusalOrder :
                 /\ RefusalOrder[i] \in Refusals(faults)
                 /\ \A j \in 1..(i - 1) : RefusalOrder[j] \notin Refusals(faults)]

(***************************************************************************)
(* The Roster of the next version names these sessions.                    *)
(***************************************************************************)
Publish(names) ==
  published' = [v \in 0..(rosterVersion + 1) |->
                  IF v \in 0..rosterVersion THEN published[v] ELSE names]

(***************************************************************************)
(* Join, of a peer that has not joined: a newcomer bumps the version, so   *)
(* no one is Ready until they have loaded its character.  A member's       *)
(* second request and a refused one change nothing.                        *)
(***************************************************************************)
Join(p, faults) ==
  /\ p \notin members
  /\ Refusals(faults) = {}
  /\ members' = members \cup {p}
  /\ session' = [session EXCEPT ![p] = nextId]
  /\ readyVersion' = [readyVersion EXCEPT ![p] = 0]
  /\ rosterVersion' = rosterVersion + 1
  /\ nextId' = nextId + 1
  /\ Publish(SessionsOf(members) \cup {nextId})
  /\ vouched' = [vouched EXCEPT ![p] = {}]
  /\ UNCHANGED <<inMatch, ticksSinceEnd, nextEntity>>

(***************************************************************************)
(* Leave forgets the peer.  From the Lobby, it bumps the version, and      *)
(* whoever had loaded everyone before the departure still has everyone     *)
(* loaded after it, so is Ready for the new one.  From a match, it ends it *)
(* if no one is left in it.                                                *)
(***************************************************************************)
Forget(p) ==
  /\ p \in members
  /\ members' = members \ {p}
  /\ session' = [session EXCEPT ![p] = None]
  /\ vouched' = [vouched EXCEPT ![p] = {}]

(* Mutant: a departure leaves everyone Ready, Ready or not before. *)
MutCarriedReadyAll ==
  [q \in Peers |-> IF q \in members THEN rosterVersion + 1 ELSE readyVersion[q]]

CarriedReady ==
  [q \in Peers |-> IF q \in members /\ readyVersion[q] = rosterVersion
                   THEN rosterVersion + 1 ELSE readyVersion[q]]

LeaveLobby(p) ==
  /\ ~inMatch
  /\ Forget(p)
  /\ rosterVersion' = rosterVersion + 1
  /\ readyVersion' = [CarriedReady EXCEPT ![p] = 0]
  /\ Publish(SessionsOf(members \ {p}))
  /\ UNCHANGED <<inMatch, ticksSinceEnd, nextEntity, nextId>>

LeaveMatch(p) ==
  /\ inMatch
  /\ members # {p}
  /\ Forget(p)
  /\ readyVersion' = [readyVersion EXCEPT ![p] = 0]
  /\ UNCHANGED <<inMatch, rosterVersion, ticksSinceEnd, nextEntity, nextId, published>>

(***************************************************************************)
(* End: the players remaining are back in the Lobby, under a version none  *)
(* of them is Ready for, and the pause begins.                             *)
(***************************************************************************)
BackToLobby(remaining) ==
  /\ inMatch
  /\ inMatch' = FALSE
  /\ rosterVersion' = rosterVersion + 1
  /\ ticksSinceEnd' = 0
  /\ Publish(SessionsOf(remaining))
  /\ UNCHANGED <<nextEntity, nextId>>

End == BackToLobby(members) /\ UNCHANGED <<members, session, readyVersion, vouched>>

LeaveEndsMatch(p) ==
  /\ members = {p}
  /\ BackToLobby({})
  /\ Forget(p)
  /\ readyVersion' = [readyVersion EXCEPT ![p] = 0]

Leave(p) == LeaveLobby(p) \/ LeaveMatch(p) \/ LeaveEndsMatch(p)

(***************************************************************************)
(* Ready: only the current version counts, and only in the Lobby.          *)
(***************************************************************************)
ReadyAccepted(p, version) == ~inMatch /\ p \in members /\ version = rosterVersion

Ready(p, version) ==
  /\ ReadyAccepted(p, version)
  /\ readyVersion' = [readyVersion EXCEPT ![p] = version]
  /\ vouched' = [vouched EXCEPT ![p] = published[version]]
  /\ UNCHANGED <<members, session, inMatch, rosterVersion, ticksSinceEnd,
                 nextEntity, nextId, published>>

IsReady(p) == ~inMatch /\ p \in members /\ readyVersion[p] = rosterVersion

(***************************************************************************)
(* Tick counts one server tick towards the pause, and TryStart, which the  *)
(* Host calls right after it in the same critical section, starts a match  *)
(* if the Lobby is full, everyone in it is Ready and the pause is over.    *)
(***************************************************************************)

Ticked == IF ~inMatch /\ ticksSinceEnd < PauseTicks THEN ticksSinceEnd + 1
                                                    ELSE ticksSinceEnd

(* Mutant: a Ready for any Roster is good enough to start. *)
MutCanStartOnceReady ==
  /\ ~inMatch
  /\ Cardinality(members) = PlayerCount
  /\ Ticked >= PauseTicks
  /\ \A p \in members : readyVersion[p] # 0

CanStart ==
  /\ ~inMatch
  /\ Cardinality(members) = PlayerCount
  /\ Ticked >= PauseTicks
  /\ \A p \in members : readyVersion[p] = rosterVersion

(* The entity each member controls: numbered in the order of their sessions. *)
EntityOf(p) == nextEntity + Cardinality({q \in members : session[q] < session[p]})

TryStart ==
  /\ CanStart
  /\ inMatch' = TRUE
  /\ ticksSinceEnd' = Ticked
  /\ nextEntity' = nextEntity + Cardinality(members)
  /\ nextId' = nextId + 1
  /\ UNCHANGED <<members, session, readyVersion, rosterVersion, published, vouched>>

TickWithoutStart ==
  /\ ~CanStart
  /\ ticksSinceEnd' = Ticked
  /\ UNCHANGED <<members, session, readyVersion, inMatch, rosterVersion, nextEntity,
                 nextId, published, vouched>>

Tick == TryStart \/ TickWithoutStart

MatchNext ==
  \/ \E p \in Peers, faults \in SUBSET Faults : Join(p, faults)
  \/ \E p \in Peers : Leave(p) \/ \E version \in 0..rosterVersion : Ready(p, version)
  \/ Tick
  \/ End

MatchSpec == MatchInit /\ [][MatchNext]_matchVars

-----------------------------------------------------------------------------
MatchTypeOK ==
  /\ members \subseteq Peers
  /\ session \in [Peers -> Nat]
  /\ readyVersion \in [Peers -> Nat]
  /\ inMatch \in BOOLEAN
  /\ rosterVersion \in Nat
  /\ ticksSinceEnd \in 0..PauseTicks
  /\ nextEntity \in Nat \ {0}
  /\ nextId \in Nat \ {0}
  /\ published \in [0..rosterVersion -> SUBSET Nat]
  /\ vouched \in [Peers -> SUBSET Nat]

(***************************************************************************)
(* A peer counts as Ready, in the Lobby, only if its last Ready was for a  *)
(* Roster naming everyone now in the Lobby, and the players of a match     *)
(* each had such a Ready when it started: no one meets a player whose      *)
(* character its client has not loaded (Match::Join's bump, Match::Leave's *)
(* carry-over and Match::End's bump together, match.cpp 90-131).           *)
(***************************************************************************)
ReadyMeansLoaded ==
  \A p \in members : inMatch \/ IsReady(p) => SessionsOf(members) \subseteq vouched[p]

(***************************************************************************)
(* A match in progress has a player, so something can still end it, and    *)
(* the Lobby and the match never hold more than the Player count.  A match *)
(* without players would refuse every join for good (Match::Leave).        *)
(***************************************************************************)
MatchHasPlayers ==
  /\ inMatch => members # {}
  /\ Cardinality(members) <= PlayerCount

(***************************************************************************)
(* The inductive invariant behind both: no one is Ready for a version that *)
(* is still to come, and the current Roster names those in the Lobby.      *)
(***************************************************************************)
VersionsNotAhead == \A p \in Peers : readyVersion[p] <= rosterVersion
RosterNamesLobby == ~inMatch => published[rosterVersion] = SessionsOf(members)

MatchInv ==
  /\ MatchTypeOK
  /\ VersionsNotAhead
  /\ RosterNamesLobby
  /\ ReadyMeansLoaded
  /\ MatchHasPlayers
=============================================================================
