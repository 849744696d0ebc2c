------------------------------ MODULE ClientView ------------------------------
(***************************************************************************)
(* What a client shows of what the server tells it: the Inbox the Network *)
(* I/O thread fills and publishes as a Server view (harness/inbox.cpp,    *)
(* pending.h), and the render thread's frames, each of which reads one    *)
(* view, takes the events of its match, and shows the other players a     *)
(* moment behind the server (client/client.cpp, frame_mapping.cpp,        *)
(* presentation/presentation.cpp, interpolation.cpp).                     *)
(*                                                                        *)
(* The server is what it must be for that: ticks of matches, its events   *)
(* told reliably and in order, its Authoritative States unreliably.  Time *)
(* is counted in ticks, and a body is only where the server had it at one,*)
(* so a frame shows a body "at" a tick.                                   *)
(***************************************************************************)
EXTENDS Integers, Sequences, FiniteSets, SequencesExt, FiniteSetsExt, Subsequences

CONSTANTS
  Own, Others,        \* the client's player, and the other players
  RecentStatesKept,   \* kRecentStatesKept
  PendingKept,        \* kMaxPendingShots, kMaxPendingDeaths
  UpdatesKept,        \* kUpdatesKept
  InterpolationDelay, \* kInterpolationDelay, in ticks
  ResyncThreshold,    \* ServerClock::kResyncThreshold, in ticks
  LastTick, LastMatch, LastShot  \* bounds of the instance

ASSUME ViewAssumption ==
  /\ Own \notin Others /\ IsFiniteSet(Others) /\ Others # {}
  /\ {RecentStatesKept, PendingKept, UpdatesKept} \subseteq Nat \ {0}
  /\ {InterpolationDelay, ResyncThreshold, LastTick, LastMatch, LastShot} \subseteq Nat

ViewPlayers == {Own} \cup Others

\* Entity IDs are never used again, in whatever match: (match, player) names one.
Entity(match, player) == <<match, player>>
Entities == (1 .. LastMatch) \X ViewPlayers

Nothing == <<>>  \* what an optional without a value is; with one, <<value>>

VARIABLES
  truth,     \* the server: its match, whether it is on, its tick, who lives
  reliable,  \* the events told and not received yet, in order
  told,      \* the Authoritative States told, any of which may still arrive
  published, \* the Server view published
  pending,   \* the Shots and the Deaths not taken yet
  frame,     \* what the frame being made has read, or NoFrame
  converted, \* ConvertedServerView
  shown,     \* PresentationWorld, with what its last frame showed
  handed     \* ghost: the events and stingers frames were handed, in order

viewVars == <<truth, reliable, told, published, pending, frame, converted, shown, handed>>

NoFrame == [open |-> FALSE]
NoClock == [now |-> Nothing, behind |-> 0]

ViewInit ==
  /\ truth = [match |-> 0, on |-> FALSE, tick |-> 0, alive |-> {}, shots |-> 0]
  /\ reliable = <<>> /\ told = {}
  /\ published = [started |-> 0, inMatch |-> FALSE, ended |-> FALSE, recent |-> <<>>, dead |-> {}]
  /\ pending = [shots |-> <<>>, deaths |-> <<>>]
  /\ frame = NoFrame
  /\ converted = [match |-> 0, updates |-> <<>>]
  /\ shown = [clock |-> NoClock, first |-> Nothing, last |-> Nothing, bodies |-> <<>>, dead |-> {},
              remote |-> <<>>, seen |-> Nothing, spectating |-> FALSE, watched |-> Nothing,
              firing |-> FALSE, endHeard |-> FALSE, match |-> 0, on |-> FALSE, early |-> {}, stalled |-> FALSE]
  /\ handed = [shots |-> <<>>, deaths |-> <<>>, ends |-> <<>>]

-----------------------------------------------------------------------------
(* The server. *)

Tell(messages) == reliable' = reliable \o messages

ServerStart ==
  /\ ~truth.on /\ truth.match < LastMatch
  /\ truth' = [truth EXCEPT !.match = @ + 1, !.on = TRUE, !.alive = ViewPlayers]
  /\ Tell(<<[kind |-> "start", match |-> truth.match + 1]>>)
  /\ UNCHANGED <<told, published, pending, frame, converted, shown, handed>>

\* A tick: someone may fire, die or leave, one of them a tick (a bound); the
\* last one standing ends the match.
ServerTickOf(fires, dying, leaving) ==
  LET left == truth.alive \ (dying \cup leaving)
      over == Cardinality(left) <= 1
  IN  /\ truth' = [truth EXCEPT !.tick = @ + 1, !.alive = left, !.on = ~over,
                                !.shots = @ + (IF fires THEN 1 ELSE 0)]
      /\ told' = told \cup {[tick |-> truth.tick + 1, match |-> truth.match, bodies |-> left]}
      /\ Tell((IF fires THEN <<[kind |-> "shot", match |-> truth.match, shot |-> truth.shots + 1]>>
                        ELSE <<>>)
              \o [i \in 1 .. Cardinality(dying) |->
                    [kind |-> "death", match |-> truth.match, victim |-> SetToSeq(dying)[i]]]
              \o (IF over THEN <<[kind |-> "end", match |-> truth.match]>> ELSE <<>>))

ServerTicks ==
  /\ truth.on /\ truth.tick < LastTick
  /\ \E fires \in {FALSE, truth.shots < LastShot}, dying \in SUBSET truth.alive,
        leaving \in SUBSET (truth.alive \ {Own}) :
       /\ dying \cap leaving = {}
       /\ Cardinality(dying \cup leaving) <= (IF fires THEN 0 ELSE 1)
       /\ ServerTickOf(fires, dying, leaving)
  /\ UNCHANGED <<published, pending, frame, converted, shown, handed>>

-----------------------------------------------------------------------------
(***************************************************************************)
(* The Network I/O thread: Inbox::Receive of one message, which publishes *)
(* a new view or keeps an event until it is taken.                        *)
(***************************************************************************)

OnMatchStart(message) ==
  published' = [published EXCEPT !.started = @ + 1, !.inMatch = TRUE, !.ended = FALSE,
                       !.recent = <<>>, !.dead = {}]

OnMatchEnd(message) ==
  published' = [published EXCEPT !.inMatch = FALSE, !.ended = TRUE, !.recent = <<>>]

DropBefore(events, match) ==
  Subsequence(events, {i \in DOMAIN events : events[i].match >= match})

\* Pending::Add.
KeptOf(events, event) ==
  LET all == Append(DropBefore(events, event.match), event)
  IN  IF Len(all) > PendingKept THEN Tail(all) ELSE all

OnShot(message) ==
  /\ UNCHANGED published
  /\ pending' = IF ~published.inMatch THEN pending
                ELSE [pending EXCEPT !.shots = KeptOf(@, [match |-> published.started,
                                                    of |-> <<message.match, message.shot>>])]

OnDeath(message) ==
  IF ~published.inMatch THEN UNCHANGED <<published, pending>>
  ELSE LET victim == Entity(message.match, message.victim)
       IN  /\ published' = [published EXCEPT !.dead = @ \cup {victim}]
           /\ pending' = [pending EXCEPT !.deaths = KeptOf(@, [match |-> published.started, of |-> victim])]

ReceiveReliable ==
  /\ reliable # <<>>
  /\ reliable' = Tail(reliable)
  /\ LET message == Head(reliable)
     IN  \/ message.kind = "start" /\ OnMatchStart(message) /\ UNCHANGED pending
         \/ message.kind = "end" /\ OnMatchEnd(message) /\ UNCHANGED pending
         \/ message.kind = "shot" /\ OnShot(message)
         \/ message.kind = "death" /\ OnDeath(message)
  /\ UNCHANGED <<truth, told, frame, converted, shown, handed>>

KeepState(recent, state) ==
  Append(IF Len(recent) = RecentStatesKept THEN Tail(recent) ELSE recent, state)

\* Dropped outside a match, of bodies not in it (another's), or not newer than the newest.
OnAuthoritativeState(state) ==
  /\ published.inMatch
  /\ state.bodies # {} => state.match = published.started
  /\ published.recent # <<>> => state.tick > Last(published.recent).tick
  /\ published' = [published EXCEPT !.recent = KeepState(@, state)]

ReceiveState ==
  /\ \E state \in told : OnAuthoritativeState(state)
  /\ UNCHANGED <<truth, reliable, told, pending, frame, converted, shown, handed>>

-----------------------------------------------------------------------------
(***************************************************************************)
(* The render thread: NextFrameInput reads the view and converts it; then *)
(* it takes the events of that view's match, whatever the Network I/O     *)
(* thread received meanwhile, and RunFrame shows the frame.               *)
(***************************************************************************)
UpdatesOf(read) ==
  LET before == IF read.started # converted.match THEN <<>> ELSE converted.updates
      still  == Subsequence(before, {i \in DOMAIN before :
                                       read.recent # <<>> /\ before[i].tick >= read.recent[1].tick})
  IN  still \o Subsequence(read.recent, {i \in DOMAIN read.recent :
                                           still = <<>> \/ read.recent[i].tick > Last(still).tick})

FrameBegins ==
  /\ ~frame.open
  /\ converted' = [match |-> published.started, updates |-> UpdatesOf(published)]
  /\ frame' = [open |-> TRUE, match |-> published.started, ended |-> published.ended, on |-> published.inMatch]
  /\ UNCHANGED <<truth, reliable, told, published, pending, shown, handed>>

(* Mutant: what was taken is still kept. *)
MutLeftAll(events, match) == DropBefore(events, match)

Taken(events, match) == Subsequence(events, {i \in DOMAIN events : events[i].match = match})
Left(events, match) == Subsequence(events, {i \in DOMAIN events : events[i].match > match})

\* ServerClock::Advance by elapsed ticks, caught up by up to as many.
Advance(clock, elapsed, caught) ==
  IF clock.now = Nothing THEN clock
  ELSE [now |-> <<clock.now[1] + elapsed + caught>>, behind |-> clock.behind - caught]

CaughtUp(clock, elapsed) ==
  {c \in -elapsed .. elapsed : \/ 0 <= c /\ c <= clock.behind
                               \/ c <= 0 /\ clock.behind <= c}

Observe(clock, time) ==
  IF clock.now = Nothing \/ (time - clock.now[1]) \notin -ResyncThreshold .. ResyncThreshold
    THEN [now |-> <<time>>, behind |-> 0]
    ELSE [clock EXCEPT !.behind = time - clock.now[1]]

\* History::Push.
Push(history, tick) ==
  Append(IF Len(history) = UpdatesKept THEN Tail(history) ELSE history, tick)

\* RecordUpdate: Record and Sync of every body listed but the local player's.
RecordUpdate(world_, update) ==
  LET listed == {Entity(update.match, p) : p \in update.bodies \ {Own}}
  IN  [world_ EXCEPT
         !.clock = Observe(@, update.tick),
         !.bodies = [e \in listed |-> Push(IF e \in DOMAIN @ THEN @[e] ELSE <<>>, update.tick)],
         !.first = IF @ = Nothing THEN <<update.tick>> ELSE @,
         !.last = <<update.tick>>]

\* Every one of them in turn.
AllRecorded(world_, updates) ==
  LET after[n \in 0 .. Len(updates)] ==
        IF n = 0 THEN world_ ELSE RecordUpdate(after[n - 1], updates[n])
  IN  after[Len(updates)]

Clamp(x, low, high) == IF x < low THEN low ELSE IF x > high THEN high ELSE x

\* Sample: a body is held at either end of what is kept of it.
SampledAt(history, time) == Clamp(time, history[1], Last(history))

(* Mutant: the time sampled at, whatever there was to show. *)
MutSeenTimeUnheld(time, first, last) == time

SeenTimeAt(time, first, last) == Clamp(time, first, last)

(* Mutant: the deaths of a frame are forgotten with it. *)
MutDeadNow(deaths) == ToSet(deaths)

\* Outside a match the dead are forgotten; in it, the frame's are added.
DeadNow(deaths) ==
  (IF converted.updates = <<>> THEN {} ELSE shown.dead) \cup ToSet(deaths)

Fresh(world_, updates) ==
  Subsequence(updates, {i \in DOMAIN updates : world_.last = Nothing \/ updates[i].tick > world_.last[1]})

\* OnInterpolation, of a frame elapsed ticks after the last.
Interpolated(elapsed, caught, deaths) ==
  LET empty    == converted.updates = <<>>
      advanced == [shown EXCEPT !.clock = Advance(@, elapsed, caught)]
      begun    == IF empty THEN [advanced EXCEPT !.bodies = <<>>, !.clock = NoClock, !.first = Nothing,
                                                 !.last = Nothing, !.watched = Nothing, !.firing = FALSE]
                  ELSE advanced
      recorded == AllRecorded(begun, Fresh(begun, converted.updates))
      sampled  == recorded.clock.now[1] - InterpolationDelay
      alive    == DOMAIN recorded.bodies \ DeadNow(deaths)
  IN  IF empty \/ recorded.clock.now = Nothing
        THEN [recorded EXCEPT !.dead = DeadNow(deaths), !.remote = <<>>, !.seen = Nothing]
        ELSE [recorded EXCEPT
                !.dead = DeadNow(deaths),
                !.remote = [e \in alive |-> SampledAt(recorded.bodies[e], sampled)],
                !.seen = <<SeenTimeAt(sampled, recorded.first[1], recorded.last[1])>>]

\* The first of living in players' order after the one watched, wrapping round.
InOrder(match) == [i \in 1 .. Cardinality(ViewPlayers) |-> Entity(match, SetToSeq(ViewPlayers)[i])]

NextLiving(players, living, after) ==
  LET count  == Len(players)
      start  == IF after = Nothing \/ after[1] \notin ToSet(players) THEN 0
                ELSE CHOOSE i \in 1 .. count : players[i] = after[1]
      round  == [offset \in 1 .. count |-> players[((start + offset - 1) % count) + 1]]
      alive  == {offset \in 1 .. count : round[offset] \in living}
  IN  IF alive = {} THEN Nothing ELSE <<round[Min(alive)]>>

\* Spectator::Update.
Watched(world_, match, fire) ==
  IF \/ world_.watched = Nothing \/ world_.watched[1] \notin DOMAIN world_.remote
     \/ fire /\ ~world_.firing
    THEN NextLiving(InOrder(match), DOMAIN world_.remote, world_.watched)
    ELSE world_.watched

\* OnCamera: the local player is a spectator once it is dead.
Viewed(world_, match, fire) ==
  IF match > 0 /\ Entity(match, Own) \in world_.dead
    THEN [world_ EXCEPT !.spectating = TRUE, !.watched = Watched(world_, match, fire),
                        !.firing = fire]
    ELSE [world_ EXCEPT !.spectating = FALSE]

\* MatchEndStinger: heard on the first frame it is told.
Stingers == IF frame.ended /\ ~shown.endHeard THEN <<frame.match>> ELSE <<>>

Events(taken) == [i \in DOMAIN taken |-> taken[i].of]

FrameRuns(elapsed, caught, fire) ==
  LET shots  == Taken(pending.shots, frame.match)
      deaths == Events(Taken(pending.deaths, frame.match))
      empty  == converted.updates = <<>>
      world_ == Viewed(Interpolated(elapsed, caught, deaths), frame.match, fire)
  IN  /\ pending' = [shots |-> Left(pending.shots, frame.match),
                     deaths |-> Left(pending.deaths, frame.match)]
      /\ shown' = [world_ EXCEPT
                     !.endHeard = frame.ended, !.match = frame.match, !.on = frame.on,
                     !.early = (IF frame.match = shown.match THEN shown.early ELSE {})
                                 \cup (IF empty THEN ToSet(deaths) ELSE {}),
                     !.stalled = ~empty /\ (shown.stalled \/ (frame.match # shown.match /\ shown.last # Nothing))]
      /\ handed' = [shots |-> handed.shots \o [i \in DOMAIN shots |-> [of |-> shots[i].of, to |-> frame.match]],
                    deaths |-> handed.deaths \o deaths,
                    ends |-> handed.ends \o Stingers]
      /\ frame' = NoFrame

FrameShows ==
  /\ frame.open
  /\ \E elapsed \in 0 .. 1, fire \in {FALSE, shown.spectating} :
       /\ shown.clock.now # Nothing => shown.clock.now[1] + elapsed <= LastTick
       /\ \E caught \in CaughtUp(shown.clock, elapsed) : FrameRuns(elapsed, caught, fire)
  /\ UNCHANGED <<truth, reliable, told, published, converted>>

ViewNext ==
  \/ ServerStart \/ ServerTicks
  \/ ReceiveReliable \/ ReceiveState
  \/ FrameBegins \/ FrameShows

ViewSpec == ViewInit /\ [][ViewNext]_viewVars
-----------------------------------------------------------------------------
Rising(sequence, Key(_)) ==
  \A i, j \in DOMAIN sequence : i < j => Key(sequence[i]) < Key(sequence[j])

\* By how many ticks the oldest of the updates kept of a body may be later than
\* the earliest moment shown: none while what is kept covers the interpolation
\* delay behind a clock as far behind as it may be.
LaterThanSeen ==
  IF InterpolationDelay + ResyncThreshold < UpdatesKept THEN 0
  ELSE InterpolationDelay + ResyncThreshold + 1 - UpdatesKept

(***************************************************************************)
(* "The moment of the server's timeline a client's frame shows the other  *)
(* players at" (GLOSSARY.md:259, Seen time): a body a frame shows is shown*)
(* where the server had it at the frame's Seen time, whatever the clock   *)
(* did, or after it by what the updates kept are too few for, of a frame  *)
(* that is not stalled.                                                   *)
(***************************************************************************)
ShownAsSeen ==
  ~shown.stalled => \A e \in DOMAIN shown.remote :
                      shown.remote[e] - shown.seen[1] \in 0 .. LaterThanSeen

(***************************************************************************)
(* What a frame shows is of one moment and one match: the states kept are *)
(* the newest, in tick order; a frame shows bodies of its view's match    *)
(* alone, the local player's never among them; and it shows every one of  *)
(* them at its Seen time, which is what the server will judge the shots   *)
(* fired on it against (SeenTimeAt), or as long after it as the updates   *)
(* kept fall short.  A frame so long that a match ended and the next began*)
(* within it is not one the last holds of: its Seen time is then held     *)
(* within updates of the match before.                                    *)
(***************************************************************************)
ViewInv ==
  /\ Len(published.recent) <= RecentStatesKept /\ Rising(published.recent, LAMBDA s : s.tick)
  /\ Len(pending.shots) <= PendingKept /\ Len(pending.deaths) <= PendingKept
  /\ Rising(converted.updates, LAMBDA u : u.tick)
  /\ \A e \in DOMAIN shown.remote : e \in Entities /\ e[1] = shown.match /\ e[2] # Own
  /\ ShownAsSeen

(***************************************************************************)
(* Whoever's Death a frame was handed is gone for the rest of the match:  *)
(* no later frame shows it, whatever update still lists it, and the local *)
(* player is then a spectator, who watches someone while there is someone *)
(* to watch.  Of the Deaths that arrive once the match's first update has.*)
(***************************************************************************)
GoneAre(deaths) ==
  /\ \A e \in deaths : e[1] = shown.match => e \notin DOMAIN shown.remote
  /\ shown.on /\ Entity(shown.match, Own) \in deaths => shown.spectating

DeadStayGone ==
  /\ GoneAre(ToSet(handed.deaths) \ shown.early)
  /\ shown.spectating /\ DOMAIN shown.remote # {} =>
       shown.watched # Nothing /\ shown.watched[1] \in DOMAIN shown.remote

(***************************************************************************)
(* However the two threads interleave, a frame is handed the events of its*)
(* own view's match, and no event, and no Match end's stinger, is handed  *)
(* twice or out of order (Session::TakeShots, MatchEndStinger).           *)
(***************************************************************************)
HandedOnce ==
  /\ \A i \in DOMAIN handed.shots : handed.shots[i].to = handed.shots[i].of[1]
  /\ Rising(handed.shots, LAMBDA s : s.of[2])
  /\ Rising(handed.ends, LAMBDA e : e)
  /\ IsInjective(handed.deaths)

(***************************************************************************)
(* What a match's events do to the frames after them: each is handed once, *)
(* and a Death for good.                                                   *)
(***************************************************************************)
EventsInv == DeadStayGone /\ HandedOnce

(***************************************************************************)
(* "An entity an update no longer lists is no longer shown, nor for the   *)
(* rest of the match is one whose Death has arrived" (presentation.h, on  *)
(* kInterpolation), and "once the local player's Death has arrived it is a*)
(* spectator until the match ends" (kCamera), whenever it arrives.        *)
(***************************************************************************)
DeadAreNeverShown == GoneAre(ToSet(handed.deaths))
=============================================================================
