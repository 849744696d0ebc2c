------------------------------- MODULE MCHost -------------------------------
(***************************************************************************)
(* The Host and its clients (Lobby, with Host and Match), and what a       *)
(* client has of its own, checked one part at a time: the player it        *)
(* predicts (Prediction), the Link the two ends speak over (Link), and the *)
(* file of its messages (PcapngWriter).  The parts share no variable: a    *)
(* behaviour is one of the part it starts as, and the fairness is the      *)
(* Lobby's.                                                                *)
(***************************************************************************)
EXTENDS MCLobby, Prediction, Link, PcapngWriter

VARIABLE part

InLobby(A) == part = "lobby" /\ A

\* A part that does not run starts as it may in one way only.
HostRunsInit ==
  /\ part \in {"lobby", "prediction", "link", "pcapng"}
  /\ Init /\ PredictionInit /\ LinkInit /\ PcapngInit
  /\ part # "link" => step = "saying"

clientSideVars == <<predictionVars, exchangeVars>>

HostRunsNext ==
  /\ UNCHANGED part
  /\ \/ InLobby(Next) /\ UNCHANGED <<clientSideVars, pcapngVars>>
     \/ part = "prediction" /\ PredictionNext /\ UNCHANGED <<vars, exchangeVars, pcapngVars>>
     \/ part = "link" /\ LinkNext /\ UNCHANGED <<vars, predictionVars, pcapngVars>>
     \/ part = "pcapng" /\ PcapngNext /\ UNCHANGED <<vars, clientSideVars>>

HostRunsSpec ==
  /\ HostRunsInit /\ [][HostRunsNext]_<<part, vars, clientSideVars, pcapngVars>>
  /\ \A p \in Peers : /\ WF_vars(InLobby(ClientReceive(p) /\ Bounded))
                       /\ WF_vars(InLobby(ClientPlan(p) /\ Bounded))
                       /\ WF_vars(InLobby(ClientReportReady(p) /\ Bounded))
                       /\ WF_vars(InLobby(ServerStep(HandleJoinRequest(p))))
                       /\ WF_vars(InLobby(ServerStep(HandleReady(p))))
  /\ WF_vars(InLobby(ServerStep(PrepareTick)))
  /\ WF_vars(InLobby(ServerStep(RunTick)))
  /\ WF_vars(InLobby(ServerStep(Act)))
=============================================================================
