---------------------------- MODULE ClientSession ----------------------------
(***************************************************************************)
(* One run of the client's Session from its connection to its end          *)
(* (harness/harness.cpp, harness/runner.cpp, networking/client.cpp,        *)
(* client/client.cpp): the Network I/O thread connects, asks the server to *)
(* join it or for a Replay, and takes in what it says; the Prediction      *)
(* thread sends Commands once admitted; the Main/Render thread asks before *)
(* every frame whether the run has failed, and ends it.                    *)
(*                                                                         *)
(* Each read of what another thread writes is a step of its own.  What the *)
(* server says is what GetFailure and ReplayEnded tell apart: an Admission *)
(* or a refusal, and a Match end.                                          *)
(***************************************************************************)
EXTENDS Naturals, Sequences

CONSTANT Roles  \* "player", "viewer": whether the Session asks for a Replay

ASSUME RolesAssumption == Roles \subseteq {"player", "viewer"}

VARIABLES
  role,      \* whether replay_request is set
  remote,    \* external: the server's side of the connection, and GNS's
  channel,   \* networking::Client: its state, its connection, received_before_close
  wanted,    \* wanted
  asked,     \* sent_join_request
  arrivals,  \* what ExchangeMessages has still to hand on, and the ServerView
  latches,   \* the two failures: recorded ever, and still untaken
  runner,    \* where its two threads are, what each took, and the Supervisor
  render,    \* the Main/Render thread: where it is, and what it has read
  result     \* what ClientRuntime::Run returns, once it will

sessionVars == <<role, remote, channel, wanted, asked, arrivals, latches, runner, render, result>>
netVars == <<channel, wanted, asked, arrivals>>
mainVars == <<role, render, result>>

NoView == [accepted |-> FALSE, refusal |-> FALSE, matchEnd |-> FALSE]
NoChannel == [state |-> "kDisconnected", connection |-> FALSE, kept |-> <<>>]

SessionInit ==
  /\ role \in Roles
  /\ remote = [stage |-> "away", arrived |-> <<>>, events |-> <<>>, said |-> <<>>, ended |-> "no"]
  /\ channel = NoChannel
  /\ wanted = FALSE /\ asked = FALSE
  /\ arrivals = [hand |-> <<>>, view |-> NoView, heard |-> <<>>]
  /\ latches = [recorded |-> {}, untaken |-> {}]
  /\ runner = [network |-> "connect", prediction |-> "waiting", took |-> "none",
               stopping |-> FALSE, failure |-> "none"]
  /\ render = [at |-> "frame", read |-> NoView, admitted |-> FALSE]
  /\ result = "running"

-----------------------------------------------------------------------------
(***************************************************************************)
(* The server and the transport between.  A Host that refuses leaves the   *)
(* connection open until the client goes; a replay server closes it after  *)
(* a refusal and after its Replay's Match end, once what it said has been  *)
(* delivered.  The connection may be lost at any time.                     *)
(***************************************************************************)
Says(message, stage) ==
  remote' = [remote EXCEPT !.arrived = Append(@, message), !.said = Append(@, message), !.stage = stage]

ServerAccepts ==
  /\ remote.stage = "dialled"
  /\ remote' = [remote EXCEPT !.events = Append(@, "connected"), !.stage = "open"]

ServerAnswers ==
  /\ remote.stage = "asked"
  /\ Says("Admission", "admitted") \/ Says("Refusal", "refused")

ServerEndsMatch == remote.stage = "admitted" /\ Says("MatchEnd", "over")

WireEnds(how) ==
  remote' = [remote EXCEPT !.events = Append(@, "ended"), !.stage = "closed", !.ended = how]

ServerCloses == role = "viewer" /\ remote.stage \in {"refused", "over"} /\ WireEnds("closed")

ConnectionIsLost ==
  remote.stage \in {"dialled", "open", "asked", "admitted", "refused", "over"} /\ WireEnds("lost")

Elsewhere == ServerAccepts \/ ServerAnswers \/ ServerEndsMatch \/ ServerCloses \/ ConnectionIsLost

-----------------------------------------------------------------------------
NetworkAt(place) == runner.network = place
NetworkGoes(place) == runner' = [runner EXCEPT !.network = place]

(***************************************************************************)
(* Session::Send: nothing once the Session has failed; a message that does *)
(* not encode, or that the local transport refuses, is recorded, each only *)
(* the first time; the connection's send queue may be full, which ends it. *)
(***************************************************************************)
RecordOnce(latch) ==
  latches' = [recorded |-> latches.recorded \cup {latch},
              untaken |-> latches.untaken \cup ({latch} \ latches.recorded)]

Send(sent) ==
  \/ latches.recorded # {} /\ UNCHANGED <<remote, channel, latches>>
  \/ latches.recorded = {} /\ RecordOnce("kInvariant") /\ UNCHANGED <<remote, channel>>
  \/ /\ latches.recorded = {} /\ channel.state = "kConnected"
     /\ RecordOnce("kTransport") /\ UNCHANGED <<remote, channel>>
  \/ /\ latches.recorded = {} /\ channel.state = "kConnected"
     /\ channel' = [channel EXCEPT !.state = "kDisconnected", !.connection = FALSE]
     /\ remote' = [remote EXCEPT !.stage = "closed", !.arrived = <<>>, !.ended = "full"]
     /\ UNCHANGED latches
  \/ /\ latches.recorded = {}
     /\ remote' = IF channel.state = "kConnected" THEN sent ELSE remote
     /\ UNCHANGED <<channel, latches>>

(***************************************************************************)
(* Session::Connect: the transport may refuse to create a connection, and  *)
(* only then does wanted say that an ended one is a failure.               *)
(***************************************************************************)
StartSession ==
  /\ NetworkAt("connect") /\ NetworkGoes("want")
  /\ \/ /\ channel' = [NoChannel EXCEPT !.state = "kConnecting", !.connection = TRUE]
        /\ remote' = [remote EXCEPT !.stage = "dialled"]
     \/ channel' = NoChannel /\ remote' = [remote EXCEPT !.ended = "never"]
  /\ UNCHANGED <<wanted, asked, arrivals, latches, mainVars>>

Want ==
  /\ NetworkAt("want") /\ NetworkGoes("round")
  /\ wanted' = TRUE
  /\ UNCHANGED <<remote, channel, asked, arrivals, latches, mainVars>>

StartPump ==
  /\ NetworkAt("round")
  /\ NetworkGoes(IF runner.stopping THEN "unwant" ELSE "pump")
  /\ UNCHANGED <<remote, netVars, latches, mainVars>>

\* Mutant: what arrived before the end is not kept.
MutKeepsNothing(event) ==
  IF event = "connected" THEN [channel EXCEPT !.state = "kConnected"] ELSE NoChannel

(***************************************************************************)
(* PumpEvents: an event of the connection sets its state; one that ends it *)
(* keeps what arrived before, for the next ReceiveMessages.  Events of a   *)
(* connection given up already change nothing.                             *)
(***************************************************************************)
ApplyToClient(event) ==
  IF event = "connected" THEN [channel EXCEPT !.state = "kConnected"]
  ELSE [NoChannel EXCEPT !.kept = channel.kept \o remote.arrived]

PumpEvents ==
  /\ NetworkAt("pump")
  /\ \/ /\ remote.events # <<>> /\ channel.connection
        /\ channel' = ApplyToClient(Head(remote.events))
        /\ remote' = [remote EXCEPT !.events = Tail(@),
                                !.arrived = IF Head(remote.events) = "ended" THEN <<>> ELSE @]
        /\ UNCHANGED runner
     \/ (remote.events = <<>> \/ ~channel.connection) /\ NetworkGoes("ask") /\ UNCHANGED <<remote, channel>>
  /\ UNCHANGED <<wanted, asked, arrivals, latches, mainVars>>

(* ExchangeMessages asks once connected, whatever becomes of what it sends. *)
Ask ==
  /\ NetworkAt("ask") /\ NetworkGoes("receive")
  /\ \/ /\ ~asked /\ channel.state = "kConnected" /\ asked' = TRUE
        /\ Send([remote EXCEPT !.stage = IF @ = "open" THEN "asked" ELSE @])
     \/ /\ asked \/ channel.state # "kConnected"
        /\ UNCHANGED <<remote, channel, latches, asked>>
  /\ UNCHANGED <<wanted, arrivals, mainVars>>

(* ReceiveMessages takes what arrived, or what the ended connection kept. *)
ReceiveMessages ==
  /\ NetworkAt("receive")
  /\ \/ /\ NetworkGoes("handing") /\ UNCHANGED latches
        /\ arrivals' = [arrivals EXCEPT !.hand = IF channel.connection THEN remote.arrived ELSE channel.kept]
        /\ IF channel.connection THEN remote' = [remote EXCEPT !.arrived = <<>>] /\ UNCHANGED channel
           ELSE channel' = [channel EXCEPT !.kept = <<>>] /\ UNCHANGED remote
     \/ /\ channel.connection
        /\ RecordOnce("kTransport") /\ NetworkGoes("result")
        /\ UNCHANGED <<arrivals, remote, channel>>
  /\ UNCHANGED <<wanted, asked, mainVars>>

ViewAfter(message) ==
  [arrivals.view EXCEPT !.accepted = @ \/ message = "Admission",
                        !.refusal = @ \/ message = "Refusal",
                        !.matchEnd = @ \/ message = "MatchEnd"]

HandToInbox ==
  /\ NetworkAt("handing")
  /\ \/ /\ arrivals.hand # <<>>
        /\ arrivals' = [hand |-> Tail(arrivals.hand), view |-> ViewAfter(Head(arrivals.hand)),
                        heard |-> Append(arrivals.heard, Head(arrivals.hand))]
        /\ UNCHANGED runner
     \/ arrivals.hand = <<>> /\ NetworkGoes("result") /\ UNCHANGED arrivals
  /\ UNCHANGED <<remote, channel, wanted, asked, latches, mainVars>>

(***************************************************************************)
(* SessionResult, after each round and each Tick: the transport's failure  *)
(* first, then the invariant's, each taken by one thread.  The network     *)
(* thread disconnects before it returns what it took; the Supervisor keeps *)
(* the first failure returned and asks everyone to stop.                   *)
(***************************************************************************)
Taken == IF "kTransport" \in latches.untaken THEN "kTransport" ELSE "kInvariant"

TakeFailure == latches' = [latches EXCEPT !.untaken = @ \ {Taken}]

KeptFailure(failure) == IF runner.failure = "none" THEN failure ELSE runner.failure

NetworkResult ==
  /\ NetworkAt("result")
  /\ IF latches.untaken = {} THEN NetworkGoes("round") /\ UNCHANGED latches
     ELSE runner' = [runner EXCEPT !.network = "unwant", !.took = Taken] /\ TakeFailure
  /\ UNCHANGED <<remote, netVars, mainVars>>

(* Session::Disconnect: wanted first, then the channel and what it kept unread. *)
Unwant ==
  /\ NetworkAt("unwant") /\ NetworkGoes("close")
  /\ wanted' = FALSE
  /\ UNCHANGED <<remote, channel, asked, arrivals, latches, mainVars>>

Disconnect ==
  /\ NetworkAt("close") /\ NetworkGoes("returning")
  /\ channel' = NoChannel
  /\ remote' = [remote EXCEPT !.stage = "closed", !.arrived = <<>>]
  /\ UNCHANGED <<wanted, asked, arrivals, latches, mainVars>>

\* Mutant: the failure the network thread took is not reported.
MutReturnsQuietly ==
  /\ NetworkAt("returning") /\ NetworkGoes("done")
  /\ UNCHANGED <<remote, netVars, latches, mainVars>>

NetworkReturns ==
  /\ NetworkAt("returning")
  /\ runner' = IF runner.took = "none" THEN [runner EXCEPT !.network = "done"]
               ELSE [runner EXCEPT !.network = "done", !.stopping = TRUE, !.failure = KeptFailure(runner.took)]
  /\ UNCHANGED <<remote, netVars, latches, mainVars>>

NetworkThread ==
  StartSession \/ Want \/ StartPump \/ PumpEvents \/ Ask \/ ReceiveMessages \/ HandToInbox \/ NetworkResult
    \/ Unwant \/ Disconnect \/ NetworkReturns

-----------------------------------------------------------------------------
(***************************************************************************)
(* The Prediction thread: it waits for the tick rate of the Admission,     *)
(* then each Tick sends Commands, but a viewer's.                          *)
(***************************************************************************)
PredictionGoes(place) == runner' = [runner EXCEPT !.prediction = place]

AwaitTickRate ==
  /\ runner.prediction = "waiting" /\ (runner.stopping \/ arrivals.view.accepted)
  /\ PredictionGoes(IF runner.stopping THEN "done" ELSE "ticking")
  /\ UNCHANGED <<remote, netVars, latches, mainVars>>

PredictionTick ==
  /\ runner.prediction = "ticking"
  /\ IF runner.stopping THEN PredictionGoes("done") /\ UNCHANGED <<remote, channel, latches>>
     ELSE PredictionGoes("result")
          /\ IF role = "viewer" THEN UNCHANGED <<remote, channel, latches>> ELSE Send(remote)
  /\ UNCHANGED <<wanted, asked, arrivals, mainVars>>

PredictionResult ==
  /\ runner.prediction = "result"
  /\ IF latches.untaken = {} THEN PredictionGoes("ticking") /\ UNCHANGED latches
     ELSE runner' = [runner EXCEPT !.prediction = "done", !.stopping = TRUE, !.failure = KeptFailure(Taken)] /\ TakeFailure
  /\ UNCHANGED <<remote, netVars, mainVars>>

PredictionThread == AwaitTickRate \/ PredictionTick \/ PredictionResult

-----------------------------------------------------------------------------
(***************************************************************************)
(* The Main/Render thread, before each frame: Runner::Failure, then what   *)
(* GetFailure reads, one thing after the other - the view, wanted, the     *)
(* connection's state, and for a viewer the view again (ReplayEnded).      *)
(***************************************************************************)
Goes(place) == render' = [render EXCEPT !.at = place] /\ UNCHANGED result
Ends(how) == result' = how /\ render' = [render EXCEPT !.at = "stopping"]
Reads == UNCHANGED <<role, remote, netVars, latches, runner>>

AskRunner ==
  /\ render.at = "frame"
  /\ IF runner.failure # "none" THEN Ends(runner.failure) ELSE Goes("view")
  /\ Reads

ReadView ==
  /\ render.at = "view"
  /\ IF arrivals.view.refusal THEN Ends("kRefused")
     ELSE render' = [render EXCEPT !.at = "wanted", !.read = arrivals.view] /\ UNCHANGED result
  /\ Reads

ReadWanted == render.at = "wanted" /\ Goes(IF wanted THEN "state" ELSE "draw") /\ Reads

Verdict == IF render.read.accepted THEN "kConnectionLost" ELSE "kServerUnreachable"

ReadState ==
  /\ render.at = "state"
  /\ IF channel.state # "kDisconnected" THEN Goes("draw")
     ELSE IF role = "viewer" THEN Goes("ended")
     ELSE Ends(Verdict)
  /\ Reads

AskWhetherEnded ==
  /\ render.at = "ended"
  /\ IF arrivals.view.matchEnd THEN Goes("draw") ELSE Ends(Verdict)
  /\ Reads

(***************************************************************************)
(* Without a failure the Main/Render thread leaves if admitted and its     *)
(* Replay has ended, and otherwise draws the frame, reporting Ready on the *)
(* way; the player may close the window.                                   *)
(***************************************************************************)
ReplayEnded == role = "viewer" /\ arrivals.view.matchEnd /\ channel.state = "kDisconnected"

FinishFrame ==
  /\ render.at = "draw"
  /\ IF render.admitted /\ ReplayEnded THEN Ends("replayEnded")
     ELSE render' = [render EXCEPT !.at = "frame", !.admitted = @ \/ arrivals.view.accepted] /\ UNCHANGED result
  /\ Reads

ReportReady ==
  /\ render.at = "draw" /\ render.admitted /\ role = "player"
  /\ Send(remote) /\ Goes("frame")
  /\ UNCHANGED <<role, wanted, asked, arrivals, runner>>

CloseWindow == render.at = "frame" /\ Ends("closed") /\ Reads

StopAndJoin ==
  /\ render.at = "stopping" /\ Goes("joining")
  /\ runner' = [runner EXCEPT !.stopping = TRUE]
  /\ UNCHANGED <<role, remote, netVars, latches>>

RunJoined == render.at = "joining" /\ runner.network = "done" /\ runner.prediction = "done" /\ Goes("done") /\ Reads

RenderThread ==
  AskRunner \/ ReadView \/ ReadWanted \/ ReadState \/ AskWhetherEnded \/ FinishFrame \/ ReportReady
    \/ CloseWindow \/ StopAndJoin \/ RunJoined

SessionNext ==
  \/ Elsewhere /\ UNCHANGED <<netVars, latches, runner, mainVars>>
  \/ NetworkThread \/ PredictionThread \/ RenderThread

\* Its three threads keep running; nothing is asked of the server.
SessionFairness ==
  WF_sessionVars(NetworkThread) /\ WF_sessionVars(PredictionThread) /\ WF_sessionVars(RenderThread)

SessionSpec == SessionInit /\ [][SessionNext]_sessionVars /\ SessionFairness

-----------------------------------------------------------------------------
(***************************************************************************)
(* What the server said is handed on once and in order, up to what the     *)
(* Session gave up: a connection whose send queue was full, and what was   *)
(* unread when it disconnected of its own accord.                          *)
(***************************************************************************)
OnTheWay == arrivals.heard \o arrivals.hand \o channel.kept \o remote.arrived

GaveUp == remote.ended = "full" \/ runner.network \in {"returning", "done"}

HeardInOrder ==
  /\ OnTheWay = SubSeq(remote.said, 1, Len(OnTheWay))
  /\ GaveUp \/ Len(OnTheWay) = Len(remote.said)

HandedOn(message) == \E i \in DOMAIN arrivals.heard : arrivals.heard[i] = message

(***************************************************************************)
(* A run says of itself what has happened: it was refused, its Replay was  *)
(* watched to its end, the connection was there and is not, or was never;  *)
(* the first local failure a thread returned is one that was recorded and  *)
(* taken, and none that was taken goes unreported.                         *)
(***************************************************************************)
EndedAsToldTo ==
  /\ result = "kRefused" => HandedOn("Refusal")
  /\ result = "replayEnded" => HandedOn("MatchEnd") /\ role = "viewer"
  /\ result = "kConnectionLost" => HandedOn("Admission")
  /\ result \in {"kConnectionLost", "kServerUnreachable"} =>
       remote.ended # "no" \/ latches.recorded # {}
  /\ result \in {"kTransport", "kInvariant"} => runner.failure = result

FailuresAreReported ==
  LET took == latches.recorded \ latches.untaken IN
  /\ runner.failure # "none" => runner.failure \in took /\ runner.stopping
  /\ runner.network = "done" /\ runner.prediction = "done" /\ took # {} => runner.failure # "none"

(* Its threads gone, the run has no connection left and nothing kept of it. *)
LeavesNothing == render.at = "done" => channel = NoChannel /\ ~wanted

(* What ClientSession.tla is checked for, whole. *)
SessionInv == HeardInOrder /\ EndedAsToldTo /\ FailuresAreReported /\ LeavesNothing

(***************************************************************************)
(* A run that is refused, whose connection is lost or that fails locally   *)
(* ends, with both of its threads joined.                                  *)
(***************************************************************************)
RunEnds ==
  (latches.recorded # {} \/ remote.ended # "no" \/ remote.stage = "refused") ~> (render.at = "done")

(***************************************************************************)
(* harness.h: a failure says why the session ended, kRefused once the      *)
(* server has refused, and there is none once a Replay has ended.  A       *)
(* server that closes the connection has said why first.                   *)
(***************************************************************************)
CloseIsExplained ==
  remote.ended = "closed" /\ latches.recorded = {} => result \notin {"kConnectionLost", "kServerUnreachable"}
=============================================================================
