------------------------------ MODULE Prediction ------------------------------
(***************************************************************************)
(* PredictionWorld (prediction/prediction.cpp) and its reconciliation      *)
(* (reconciliation.cpp): the client predicts its own player tick by tick,  *)
(* and once the server's answer to one of its commands arrives, compares   *)
(* it with what it had predicted after that command, and where they differ *)
(* restores the server's and replays the commands sent since.  What        *)
(* readers count of it is CorrectionTally's and NetcodeTally's             *)
(* (correction_tally.cpp, harness/netcode_stats.cpp).                      *)
(*                                                                         *)
(* A body is a place along a wall, a rifle the rounds left in it: what     *)
(* commands do to them is the same on both sides, as physics::World::Step  *)
(* and weapon::Step are.  The two diverge as they do in the game: the      *)
(* server drops commands, moves a player whose command is late by its last *)
(* one, and its answers are lost, repeated and overtaken.                  *)
(***************************************************************************)
EXTENDS Integers, Sequences, FiniteSets

CONSTANTS
  MaxHistory,   \* kMaxHistory
  Tolerance,    \* kPositionTolerance, in places
  Wall,         \* the farthest place a body can be in
  Magazine,     \* the rounds a rifle starts with
  LastSequence, MaxAnswers, MaxStarts  \* bounds of the instance

ASSUME PredictionAssumption ==
  /\ {MaxHistory, Tolerance, Wall, Magazine} \subseteq Nat \ {0}
  /\ {LastSequence, MaxAnswers, MaxStarts} \subseteq Nat

(***************************************************************************)
(* A command moves the body by a place or not, and holds the trigger or    *)
(* not; Predicted is the player after one.                                 *)
(***************************************************************************)
Commands == [move : {0, 1}, fire : BOOLEAN]
Predicted == [body : 0 .. Wall, rifle : 0 .. Magazine]

Spawned == [body |-> 0, rifle |-> Magazine]

Move(body, command) == IF body + command.move > Wall THEN Wall ELSE body + command.move
Fires(rifle, command) == command.fire /\ rifle > 0

StepPlayer(player, command) ==
  [body |-> Move(player.body, command),
   rifle |-> IF Fires(player.rifle, command) THEN player.rifle - 1 ELSE player.rifle]

Entries == [sequence : 1 .. LastSequence, command : Commands, predicted : Predicted]

\* Acknowledgement, with the server's tick its state is of.
Acknowledgements ==
  [tick : 0 .. MaxAnswers, sequence : 0 .. LastSequence, player : Predicted]

\* What the Inbox holds before any state of the match: none is of tick 0.
NoState == [tick |-> 0, sequence |-> 0, player |-> Spawned]

VARIABLES
  predicting, \* State: the local player, and the running totals
  history,  \* History: the commands sent and not answered
  issued,   \* every command ever sent: its number is its sequence
  held,     \* the newest Authoritative State the client holds, if any
  server,   \* the player on the server: its state, the command taken last
  answers,  \* the Authoritative States sent, any of which may arrive
  tally,    \* CorrectionTally and NetcodeTally
  starts,   \* how many matches started
  began,    \* ghost: the last sequence and the totals before this match
  basis,    \* ghost: the last answer acted on in this match, or its start
  walked,   \* ghost: how far the client's own ticks moved the body since Start
  apart     \* ghost: whether the server did anything but take commands in order

predictionVars ==
  <<predicting, history, issued, held, server, answers, tally, starts, began, basis, walked, apart>>

NoTotals == [correction |-> 0, rifles |-> 0, rounds |-> 0]

PredictionInit ==
  /\ predicting = [player |-> Spawned, totals |-> NoTotals]
  /\ history = <<>> /\ issued = <<>> /\ held = NoState
  /\ server = [player |-> Spawned, taken |-> 0, last |-> [move |-> 0, fire |-> FALSE]]
  /\ answers = {}
  /\ tally = [seen |-> NoTotals, count |-> 0, largest |-> 0, rifles |-> 0, rounds |-> 0]
  /\ starts = 0
  /\ began = [sequence |-> 0, totals |-> NoTotals]
  /\ basis = [sequence |-> 0, player |-> Spawned]
  /\ walked = 0 /\ apart = FALSE

-----------------------------------------------------------------------------
(* History. *)

\* Acknowledge: the first entry that is not older than what it answers.
FirstNotOlder(sequence) ==
  CHOOSE first \in 1 .. Len(history) + 1 :
    /\ \A i \in 1 .. first - 1 : history[i].sequence < sequence
    /\ first <= Len(history) => history[first].sequence >= sequence

IsHeld(sequence) ==
  FirstNotOlder(sequence) <= Len(history) /\ history[FirstNotOlder(sequence)].sequence = sequence

(* Mutant: the answered command is replayed again. *)
MutUnansweredKeeps(sequence) == SubSeq(history, FirstNotOlder(sequence), Len(history))

\* What it answers, and all older, is discarded.
Unanswered(sequence) ==
  SubSeq(history, FirstNotOlder(sequence) + (IF IsHeld(sequence) THEN 1 ELSE 0), Len(history))

\* The player after each of the entries' commands, from player.
Stepped(player, entries) ==
  LET after[i \in 0 .. Len(entries)] ==
        IF i = 0 THEN player ELSE StepPlayer(after[i - 1], entries[i].command)
  IN  after

\* Replay: what each command held predicts from player is kept.
Replayed(player, entries) ==
  [i \in 1 .. Len(entries) |-> [entries[i] EXCEPT !.predicted = Stepped(player, entries)[i]]]

\* Record, of at most MaxHistory.
Recorded(entries, entry) ==
  LET all == Append(entries, entry) IN IF Len(all) > MaxHistory THEN Tail(all) ELSE all

-----------------------------------------------------------------------------
(***************************************************************************)
(* World::Tick of a command sent as the next sequence: Reconciliation,     *)
(* then Movement and WeaponHandling, then Commit.                          *)
(***************************************************************************)
Distance(a, b) == IF a > b THEN a - b ELSE b - a

BodyNeedsCorrection(authoritative, predicted) ==
  Distance(authoritative.body, predicted.body) >= Tolerance

\* The state, the history and the answer acted on once `held` was reconciled with.
Reconciled ==
  LET entries   == Unanswered(held.sequence)
      predicted == history[FirstNotOlder(held.sequence)].predicted
      differs   == held.player.rifle # predicted.rifle
      replayed  == Stepped(held.player, entries)[Len(entries)]
      untouched == [player |-> predicting.player, totals |-> predicting.totals, history |-> entries,
                    basis |-> IF IsHeld(held.sequence)
                              THEN [sequence |-> held.sequence, player |-> held.player] ELSE basis]
  IN  IF held = NoState THEN [untouched EXCEPT !.history = history]
      ELSE IF ~IsHeld(held.sequence) THEN untouched
      ELSE IF ~(BodyNeedsCorrection(held.player, predicted) \/ differs) THEN untouched
      ELSE [untouched EXCEPT
              !.player = replayed,
              !.totals.correction = @ + replayed.body - predicting.player.body,
              !.totals.rifles = @ + (IF differs THEN 1 ELSE 0),
              !.history = Replayed(held.player, entries)]

\* CorrectionTally::RecordTick and NetcodeTally::RecordTick of the tick's State.
Tallied(totals, counts) ==
  LET jump == Distance(totals.correction, tally.seen.correction)
  IN  [seen    |-> totals,
       count   |-> tally.count + (IF counts /\ jump > 0 THEN 1 ELSE 0),
       largest |-> IF counts /\ jump > tally.largest THEN jump ELSE tally.largest,
       rifles  |-> tally.rifles + (IF counts THEN totals.rifles - tally.seen.rifles ELSE 0),
       rounds  |-> tally.rounds + (IF counts THEN totals.rounds - tally.seen.rounds ELSE 0)]

PredictTick(command) ==
  /\ starts > 0 /\ Len(issued) < LastSequence
  /\ LET after  == Reconciled
         player == StepPlayer(after.player, command)
         rounds == IF Fires(after.player.rifle, command) THEN 1 ELSE 0
         totals == [after.totals EXCEPT !.rounds = @ + rounds]
     IN  /\ predicting' = [player |-> player, totals |-> totals]
         /\ history' = Recorded(after.history, [sequence |-> Len(issued) + 1, command |-> command,
                                                predicted |-> player])
         /\ basis' = after.basis
         /\ walked' = walked + player.body - after.player.body
         /\ tally' = Tallied(totals, TRUE)
  /\ issued' = Append(issued, command)
  /\ UNCHANGED <<held, server, answers, starts, began, apart>>

\* A tick outside a Match leaves the last State, which the tallies only follow.
TickOutsideMatch ==
  /\ tally' = Tallied(predicting.totals, FALSE)
  /\ UNCHANGED <<predicting, history, issued, held, server, answers, starts, began, basis, walked, apart>>

\* A match starts: World::Start, and the Inbox forgets the last match's states.
PredictionStart ==
  /\ starts < MaxStarts
  /\ starts' = starts + 1
  /\ predicting' = [predicting EXCEPT !.player = Spawned]
  /\ history' = <<>> /\ held' = NoState
  /\ server' = [player |-> Spawned, taken |-> 0, last |-> [move |-> 0, fire |-> FALSE]]
  /\ began' = [sequence |-> Len(issued), totals |-> predicting.totals]
  /\ basis' = [sequence |-> Len(issued), player |-> Spawned]
  /\ walked' = 0 /\ apart' = FALSE
  /\ UNCHANGED <<issued, answers, tally>>

\* A newer Authoritative State than the one held arrives.
Hear(answer) ==
  /\ starts > 0
  /\ answer \in answers
  /\ answer.tick > held.tick
  /\ held' = answer
  /\ UNCHANGED <<predicting, history, issued, server, answers, tally, starts, began, basis, walked, apart>>

-----------------------------------------------------------------------------
(***************************************************************************)
(* The server: a tick takes a command in, any sent since the last (those   *)
(* skipped were lost or dropped), or goes by the last one without firing;  *)
(* then it answers (PlanUpdates).                                          *)
(***************************************************************************)
AnswerTick ==
  /\ starts > 0 /\ Cardinality(answers) < MaxAnswers
  /\ \/ \E s \in server.taken + 1 .. Len(issued) :
          /\ server' = [player |-> StepPlayer(server.player, issued[s]), taken |-> s, last |-> issued[s]]
          /\ apart' = (apart \/ s # (IF server.taken = 0 THEN began.sequence ELSE server.taken) + 1)
     \/ /\ server' = [server EXCEPT
                        !.player = StepPlayer(@, [server.last EXCEPT !.fire = FALSE])]
        /\ apart' = (apart \/ server.last.move > 0)
  /\ answers' = answers \cup {[tick |-> Cardinality(answers) + 1, sequence |-> server'.taken,
                               player |-> server'.player]}
  /\ UNCHANGED <<predicting, history, issued, held, tally, starts, began, basis, walked>>

PredictionNext ==
  \/ \E command \in Commands : PredictTick(command)
  \/ TickOutsideMatch \/ PredictionStart \/ AnswerTick
  \/ \E answer \in answers : Hear(answer)

PredictionSpec == PredictionInit /\ [][PredictionNext]_predictionVars

-----------------------------------------------------------------------------
(***************************************************************************)
(* The client's present is the server's past with its own commands carried *)
(* forward: what is predicted after each command held is within the        *)
(* tolerance of the last answer acted on, stepped by the commands since,   *)
(* and its rifle is exactly that.  An error too small to correct cannot    *)
(* pile up (prediction.cpp 41-45), nor is one corrected counted again      *)
(* (History::Replay).  A history that overflowed says nothing until the    *)
(* next answer within it.                                                  *)
(***************************************************************************)
CarriedOn(i) == Stepped(basis.player, history)[i]

CarriedForward ==
  /\ predicting.player \in Predicted /\ held \in Acknowledgements
  /\ history \in Seq(Entries) /\ Len(history) <= MaxHistory
  /\ history # <<>> => predicting.player = history[Len(history)].predicted
  /\ history # <<>> => history[1].sequence > basis.sequence
  /\ history # <<>> /\ history[1].sequence = basis.sequence + 1 =>
       \A i \in DOMAIN history :
         /\ ~BodyNeedsCorrection(CarriedOn(i), history[i].predicted)
         /\ CarriedOn(i).rifle = history[i].predicted.rifle

(***************************************************************************)
(* The running totals explain where the player is: since Start, its body   *)
(* is where its own ticks moved it plus the corrections, so a reader that  *)
(* sees only some ticks gets every jump once (prediction.h, State); the    *)
(* tallies miss none; and while the server only took the commands in       *)
(* order, whatever was lost or late of its answers, nothing is corrected:  *)
(* a player predicted right never is.                                      *)
(***************************************************************************)
TotalsExplain ==
  /\ predicting.player.body = walked + predicting.totals.correction - began.totals.correction
  /\ tally.rounds = predicting.totals.rounds /\ tally.rifles = predicting.totals.rifles
  /\ Distance(predicting.totals.correction, 0) <= tally.count * tally.largest
  /\ ~apart => /\ predicting.totals.correction = began.totals.correction
               /\ predicting.totals.rifles = began.totals.rifles

(* What Prediction.tla is checked for, whole: what is carried forward from *)
(* an answer, and what the totals explain of it (Predictor::Tick).         *)
PredictionInv == CarriedForward /\ TotalsExplain
=============================================================================
