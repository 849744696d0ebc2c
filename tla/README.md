# Augusta, specified

TLA+ specifications of Augusta's own logic: the authoritative server
(`augustad`), its clients, its replay server, and what they load. Everything
here is translated from the sources under `src/src/`; paths below leave that
prefix out.

## The system

Augusta is a server-authoritative multiplayer shooter. Players join a **Lobby**;
when it is full and everyone has loaded everyone else's character, a **Match**
starts; when it ends they are back in the Lobby, and after a pause the next may
start. A server may capture its matches in files, which a replay server runs
again for viewers and a client may play a player of. Each process is a few
threads around plain objects.

| Component | State it keeps | Operations | Talks to |
|---|---|---|---|
| Match (`modules/host/match.cpp`) | members, Roster version, who is Ready for which version, match in progress, pause | Join, Leave, Ready, Tick, TryStart, End | called by Host under its mutex |
| Host (`host.cpp`, `host_network.cpp`, `host_match.cpp`) | a Player (peer, command queue) per session, bodies in the simulation, the winner to capture | PumpNetwork on the Network I/O thread; Tick (PrepareTick, simulation, Act) on the Simulation thread; EndMatch | Match, Link, simulation, Capturer |
| Peer gate (`peer_gate.cpp`, `admission.cpp`, `misbehaviour.cpp`) | admission deadlines, misbehaviour windows, who was expelled this round | Connected, Admitted, Left, Judge, Expelled, TakeOverdue, EndRound | the pump round |
| Transport (`modules/networking/`) | pending and connected peers, one-shot events | PumpEvents, Accept, Disconnect, Send, Receive | GameNetworkingSockets |
| Link and protocol (`modules/link/`, `modules/protocol/`) | the tally of Authoritative States | encode, decode, map | transport, Host, Inbox |
| Simulation (`modules/simulation/`, `gameplay/`) | players, rifles, bullets, hitbox histories | StartMatch, RemovePlayer, Tick, EndMatch | Host, Game policy, physics |
| Movement and poses (`modules/physics/`, `animation/`) | bodies: stance, stamina, fall, Stride, Locomotion | Step, Restore, Pose | simulation, prediction, presentation |
| Game policy (`modules/policy/`, `scripting/`) | a Lua sandbox with two limits | Load, PlaceEntrants, OnTick | simulation |
| Captures (`host/capturer.cpp`, `capture_writer.cpp`, `capture_retention.cpp`, `modules/capture/`) | the open match, a bounded queue, stopped captures, health; the directory's files | StartMatch, Command/Leave/Death, EndMatch, Finish; the writer's Run; Reserve, DeleteOldest | Simulation thread, writer thread |
| Replays (`host/replay.cpp`, `replay_server.cpp`, `replay_catalog.cpp`) | a World and its place in a capture; viewers; the catalog | Step; PumpNetwork, Tick, List | viewers, a directory |
| Command delivery (`harness/command_stream.cpp`, `host/command_queue.cpp`) | the client's unacknowledged commands; the server's queue, last command and held ticks | Tick; TryEnqueue, Next | over unreliable datagrams |
| Client session (`harness/`) | the connection's state, the ServerView the Inbox publishes, events not yet taken | Connect, Pump, Tick, GetFailure, ReportReady | the Host, over a reliable stream |
| Intents and Reenactment (`harness/intent.cpp`, `reenactment.cpp`) | an Intent a channel; a Script and its place | Set, Clear, NextCommand | the Prediction thread |
| Prediction (`modules/prediction/`) | the commands not yet answered and what was predicted of each | Tick, Reconcile | physics, weapons |
| Presentation (`modules/presentation/`, `client/frame_mapping.cpp`) | updates to interpolate between, who is dead, who has left | AdvanceFrame | ServerView, renderer |
| Input (`modules/input/`, `debug/interaction.cpp`) | held Controls, pending mouse motion, the mode | HandleEvents, Sample | window, Debug panels |
| Assets (`modules/assets/`), content (`modules/scenario/`, `client/client_content.cpp`) | packs; what a process loaded of one | Write, Load, Decode; LoadServerContent, LoadClientContent | the cooker, both processes |
| Settings (`modules/config/`) | a command line and a file, flattened | Parse, Load | main |
| Runs and crashes (`client/run_files.cpp`, `modules/crash/`) | a log and a dump per Run | Start, End, Prune | main, signal handlers |
| Supervisor, Failure latch (`modules/supervisor/`, `failure/`) | state, first cause, workers; the first failure until taken | Spawn, Run, RequestStop, StopAndJoin; Record, Take | every worker |
| Server runtime (`server/server.cpp`) | the two worker loops | Run, Stop | Supervisor, latches, Host, Capturer |
| Message file (`modules/pcapng/`) | a bounded queue, whether it stopped | Report, Run | any thread |

Renderer, audio, HUD, window, Debug panels, metrics, logging's format, the
heartbeat, hardware and version probes, and the tick schedule are not modelled:
they are output, or pacing by a clock that every module here lets pass freely.
`PROJECT.json` lists every component with what is left out of it.

### What is hard

* The Host's mutex is taken twice per tick; between PrepareTick and Act any
  join, departure, expulsion or match end may be handled. Three tables (the
  Match's members, the Host's players, the simulation's bodies) must agree
  whenever the mutex is free, because they are indexed with `at()`.
* A client's Ready vouches for a Roster version seconds after it began loading
  that Roster; the version moves with every join, departure and match end.
* Commands and states are repeated, lost, duplicated and overtaken, also by the
  reliable stream that starts and ends matches.
* A failure may be met on either server thread, or on the capture writer, at any
  moment of a stop; it must be reported once and never lost.
* A capture is written by one thread and stopped by either; its file must never
  have a hole, and what is read back must be what a World was handed.
* Shots are judged in the past: a bullet reads the pose its target had where the
  shooter saw it, from a ring that has moved on.
* A client corrects a body in mid-step from an answer several ticks old.
* Blobs and packs are read by hand-written code from bytes nobody vouches for
  until the signature was checked, while a cook may write over them.
* A rules script may loop, allocate or answer anything.

`PROJECT.json` lists each hazard at its line with the properties that watch it.

## Modules

| Module | Models | Run | Proofs |
|---|---|---|---|
| `Match` | the Match, one action per method and outcome | `agents` | `LobbyProofs` |
| `Host` (extends Match) | the Host's handlers and ticks, over an abstract transport | `host` | `LobbyProofs` |
| `Lobby` (extends Host) | the Host with its clients | `host`, `agents` | `LobbyProofs` |
| `OneWayStop` | abstract: what a supervised runtime promises | `server_process` | `ServerProofs` |
| `Supervisor` | the Supervisor and its workers | `server_process` | `ServerProofs` |
| `ServerRuntime` (extends Supervisor) | the server's two loops, latches, strict capture | `server_process` | `ServerProofs` |
| `CaptureWriter` | Capturer and its writer thread | `server_process` | `ServerProofs`, `Subsequences` |
| `Connections` | the peer table, the Network I/O rounds and the peer gate | `server_process` | `ConnectionsProofs` |
| `ClientSession` | a client's three threads over one run | `server_process` | `ClientProofs` |
| `CommandDelivery` | one player's commands end to end | `worlds` | `CommandProofs` |
| `Prediction` | prediction and reconciliation | `host` | `ClientProofs` |
| `ClientView` | from the Inbox to what a frame shows | `worlds` | `ViewProofs`, `Subsequences` |
| `Wire`, `Link` (extends Wire) | every message's codec; what either end makes of it | `host` | |
| `Scripts` | Game policy's sandbox, hooks and answers | `worlds` | |
| `Settings` | command lines and files of both processes | `server_process` | |
| `Input` | keyboard, mouse and Debug interaction | `server_process` | |
| `PcapngWriter` | the file of messages | `host` | `ClientProofs` |
| `RunFiles` | Runs beside one another | `agents` | `ClientProofs` |
| `CaptureFile` | a capture's bytes, written and read | `worlds` | |
| `Simulation` | a tick of the World, phase by phase | `worlds` | `WorldsProofs` |
| `Replay` | a match captured and run again | `worlds` | |
| `ReplayServer` | the replay server's two threads and catalog | `worlds` | `WorldsProofs` |
| `CaptureDirectory` | the directory's limits | `worlds` | |
| `Blobs`, `Pack` (extends Blobs) | sixteen kinds of blob; the pack around them | `worlds` | |
| `Intents` | an Agent's Intents | `agents` | `CommandProofs` |
| `Reenactment` | a Captured player paced against a live server | `agents` | |
| `Parameters`, `Content` (extends Parameters) | what both sides load, and its bounds | `agents` | |
| `Posing`, `Movement` (extends Posing) | a body on both sides, and its pose | `agents` | |

`MCHost`, `MCServerProcess`, `MCWorlds` and `MCAgents` instantiate them for TLC
(`MCLobby` is what two of them share of the Lobby, and `MCAssets` has a run of its
own). Each checks several modules in one run: a behaviour picks its part in its first state, `part`, and the others stay as they are, so
the run is their disjoint union and each part is explored exhaustively as if by
itself. A part that does not run starts in one way only.

### How state and actions correspond to the code

Variables and actions have the names the code has, but for a word of their module
where two would clash (`playedMatch`, `ServerStartsMatch`); state tuples (`hostVars`,
`worldVars`, ...) and `Init`s are mapped to the classes and structs that hold the
state. `PROJECT.json`'s map leaves out helpers whose lines their caller's entry
already names.

**Match.** A join request is the set of reasons it can never be admitted for;
which refusal is told is the first in the order of the code's checks. Sessions
and match IDs are time-ordered and unique, so `nextId` counts them. `Tick` is
`Match::Tick` with the `TryStart` the Host calls right after it in the same
critical section. `published` and `vouched` are history variables that say what
a Ready meant.

**Host.** Each handler is one action because it runs under the mutex;
`PrepareTick`, `RunTick` and `Act` are three because the mutex is released
between them. `conn` is what the transport knows of a connection: `ending` is
ended but not yet pumped, so its earlier messages may still be handled and
nothing more reaches it. A command queue is empty or holds a command tagged with
the match it came in during; its sequences belong to `CommandDelivery`. Whether
a rejection expels the peer is a free choice (`HandleMisbehaviour`). `capture`
is what the Capturer was told of the match in the simulation. A match is ended
by Game policy at most once, by its last player leaving, or by the Host's owner.
`MatchEnd` is told to everyone here; the code sends none if encoding it fails,
which is a local failure that stops the run.

**Lobby.** The client's Network I/O thread (`ClientReceive`) and Main/Render
thread (`ClientPlan`, then `ClientReportReady`, with loading in between) are
separate actions: the view may change while characters load. Every player brings
its own character, named by its session, so none is loaded by luck.

**CommandDelivery.** The channel is a set: a datagram sent may arrive at any
later time, repeatedly or never. A reliable stream carries Match start and
Match end. Every command moves and fires, so a repeated or lost one shows. The
server takes a datagram in one command at a time (`HandleCommands`), as its loop
does, with the mutex held: no tick, and no start or end of a match, comes between.

**Supervisor, ServerRuntime.** `RecordFailure` is two steps, `RecordStop` and
`Publish`, as in the code. In the runtime each poll of a latch, the strict
capture's check, the finishing of the captures and Run's last lines are separate
steps, so a failure may be met between any two.

**CaptureWriter.** The Simulation thread's calls are split at each lock taken
(`Begin`, `Open`, each `Join`, `Hand`, `Close`), and the writer's loop at each
lock released (`Take`, the handling, `Done`). A fault is a failed open, write or
flush, retention refusing room, or a record too long or not encodable. A record
carries its number in its match, so a hole in a file shows.

**Connections.** A round of `PumpPeers` goes through the phases `apply` (the
drained transport events, one step each), `events` and `messages` (one step for
each handler, which holds the Host's mutex), and ends with the overdue. A send
that finds a peer's queue full is `NetworkLoses` inside a handler, and two steps
on the Simulation thread: `SimulationLoses` under the transport's lock and
`SimulationCloses` after it. GameNetworkingSockets is external: it posts the
changes of a connection, and hands over its messages until it is closed; whether
closing takes back what was posted is a choice (`Purges`). Any peer may say
anything at any time, a Join again included. One that repeats its Join when its
connection is lost but not yet closed, and its departure was handled, is admitted
again (`match.cpp:63-96`) and stays a member with no departure to come:
`MemberIsHeld` and `DeparturesAreTold` say so by allowing for `left`. A viewer whose
departure is handled after `Tick` closed it is counted as a disconnect before
admission, which only a metric shows.

**ClientSession.** Every read of what another thread writes is a step. An
Admission with an invalid tick rate or Parameters, and a Replay list query, are
left out; the first ends the run as a version mismatch does.

**ClientView.** The server tells at most one event per tick here. A frame in
which no update arrived for so long that interpolation has nothing to show is
excluded from the Seen time's bound, as is the time held where nothing is shown
(`presentation.cpp:212`).

**Wire, Link.** Which error refuses a message is abstracted, payload sizes are
not modelled, and a Development build (`AUGUSTA_DEBUG_TOOLS`) is what they and
`Input` model. A well-formed capture with more joins than `kMaxPlayers` would be
listed with too many characters for `Encode`; `ReplayServer` lists none such.

**Simulation.** Positions are reduced to which tick's pose a bullet is judged
against; trajectories may hit or miss whatever they can reach. The tick clock
is in halves, so that a delay falls between two poses.

**Replay.** Seen times before the match are clamped to its first tick
(`replay.cpp:168-169`), which `SeenOffsets = {-1}` keeps apart; a torn capture
may report a divergence on its last tick; a Match end not decided by Game policy
is a divergence for its own Replay (`replay.cpp:127`), as are rules that keep
globals (ADR-0051).

**CaptureDirectory.** Names are in the order of their matches. A capture whose
first write failed has no magic, so retention neither counts nor deletes it.

**Scripts, Parameters, Content, Settings.** A script is any sequence of
instructions that allocate, define hooks, fail, loop or return; values are Lua
values with numbers in halves. Two limits hold less than their comments say. A
view is built with the memory limit lifted and a hook may keep each it is handed,
so a state may hold more than `kMemoryLimit` (`lua_sandbox.h:28-29`) with no
allocation refused: `ScriptsAreBounded` bounds what is not views. And a stopped
run's variables still to be closed have their `__close` handlers run first, each
within a fresh count, so that a stop (`lua_sandbox.h:37-39`) may take as many
counts as there are handlers: `StoppedAtTheLimit`. The length of a recoil pattern
follows a `__len`, asked anew by `IsList` and at each turn of the loop
(`parameters_loader.cpp:183`, `:215`) outside a protected call: it may answer
differently, and one that raises ends the process (`aborted`); one that changes
the table meanwhile is not modelled. The client is loaded after the server in
`Content`; Joint names of an animation are unique, PhysX failing to cook is the
collider "uncookable", Debug hitboxes are skipped, NaN spawn points are not
told apart, and at most two of the nine parts of a pair of packs are faulty. The
client never checks that its own character is in its list at startup; the server
refuses it. `--replays` with `--reenact` lists the Replays and never reads the
reenactment, though `client_config.h:160-162` calls it an error.

**Blobs, Pack.** Blobs are bytes, so that the encoder and the decoder can
disagree; hashes and signatures are what they are of, and damage is bounded to
one blob or file at a time between cooks.

**Movement, Posing.** Lengths are whole numbers of the wire's grids. Velocity is
not compared by `BodyNeedsCorrection` and the fall is not on the wire
(ADR-0004), so a body restored in the air with another fall keeps diverging
until it lands, and the property speaks of once it has. A stance change left
for a third makes the pose jump, which is allowed. A regain below half a grid
step per tick (0.0039 a second at 255 Hz) or a transition of over 510 ticks
would never progress; such Parameters are accepted by the code and not among
these values. Transforms, the rifle's hands
and PhysX are left out, and with it that the server's one World holds every
player's controller, which stop one another there (`physics.cpp:385`) and not on a
client, whose World has its own alone: one body is alone in a World here.

**Reenactment.** The ping is exact. After `rtt + 3` consecutive lost datagrams
the Pacer has nothing to send for ever, and a Command sent in the tick the run
leaves in may be dropped by the Leave when the round trip is two ticks or more;
`ReenactInv` speaks of the Commands before that.

**Input.** A batch that both changes the mode and then has game events is routed
differently from event by event (`mixed`); the admission wait hands its events
on unrouted, so a key may stay held. Pitch is not modelled.

**RunFiles.** A line another thread logs after a crash's last line keeps the next
Run from telling of it (`client_run.h:57` against `run_files.cpp:147`); a crash
is told by the next Run or never; Run IDs assume a clock that does not go back.

**PcapngWriter.** After a drop each other thread may queue one message at most
(`FewAfterADrop`); that it queues any is a finding.

## Runs

All are exhaustive over their bounds. `CHECK_DEADLOCK FALSE` is used throughout:
every model ends when its bounded matches, connections or workers are used up, or
when the process has stopped. CASE arms are read in order wherever more than one
could apply, as TLC does and the code's `if` chains do.

| Run | What it shows | Bounds |
|---|---|---|
| `host` | the Host's books agree at every lock, captures tell what happened, a full Lobby gets its match, also the second (`HostInv`, `CaptureTellsEveryDeparture`, `FullLobbyStarts`); `PredictionInv`; `LinkInv`; `PcapngInv` | 2 peers with clients, 2 matches, 2 departures, 1 local failure, pause 2; a history of 2, 3 commands, 2 answers; every message kind with one change; 2 threads, 4 messages, a queue of 2 |
| `server_process` | `SupervisorInv`, `RuntimeInv`, `KeepsPromise`, `FailureEnds`; `CaptureInv`, `FirstLossKept`, `FinishReturns`; `ConnectionsInv`, `NobodyIdles`, `DeparturesAreTold`; `SessionInv`, `RunEnds`; `SettingsInv`; `InputInv` | all 5 failures; queue of 2, 2 matches of 3 records, 2 faults, both modes; 1 connection, 3 messages, threshold 2, window 2, deadline 3, clock 0..4; one run; batches of 2 events |
| `worlds` | `SimulationInv`, `JudgedWhereSeen`, `NeverFasterThanItsRate`, `FinalForTheMatch`; `ReplayedAsLive`; `ReplayServerInv`; `RetentionInv`; `AssetsInv`; `DeliveryInv`; `ViewInv`, `EventsInv`; `PolicyInv`; `ReadsWhatWasWritten` | 2 players, 4 ticks, 2 matches; 2 captured players; 2 viewers for 1 place; 3 files; blobs of a few bytes, 2 cooks, 1 damage; queue of 2, 5 commands, 3 ticks, 2 matches; 2 players shown over 2 matches, 3 updates kept; counts of 3 and 4 instructions, a block of memory, 2 views kept, 2 handlers; 4 records written |
| `agents` | `MatchInv`, `LobbyInv`: a Ready never outlives its Roster, clients know the Lobby; `IntentsInv`; `ReenactInv`; `ContentInv`; `BodyInv`; `RunFilesInv` | 3 peers for a Lobby of 2; 2 Intents over 2 matches; 3 captures of 2 or 3 Commands, 4 sent with their fillers, 1 lost, clock 0..7; two faults in nine parts of a pair of packs; 4 ticks of a body with 1 Command lost; 2 Runs |
| `commands_across`, `capture_strict`, `connections_honest`, `client_early_death`, `pcapng_dropped`, `replay_leaves`, `session_closed`, `pack_truncated` | each one violation: see Findings | |

Why the bounds are enough: two players are the fewest for which one's departure
concerns another, and the third peer of `agents` is the one a full Lobby refuses
until somebody leaves. Two matches are needed for anything to survive from one
to the next; `PauseTicks = 2` keeps the take-out of a match and the start of the
next in different ticks, as the real pause (five seconds) does. A queue of two
overflows, is half full and empty; three records give a file with a missing
middle; two faults let a second loss meet the first. A hitbox history of two
poses wraps within four ticks. An AimAt set in one match is still held in the
second (`MaxPlayed = 2`). Four Commands sent (`MaxSent`) reach a capture's third,
one late into its Leave, and fillers that still move and that stand
(`HeldTicks = 1`). Three messages and a clock of twice the window let
misbehaviours fall in it, out of it and exactly on its edge. One connection is
enough in `Connections`: no step reads what belongs to another one. Each bound
is at least what the mutants of the properties need to be caught, and those are
the bugs the hazards name. Symmetry is used in `agents` only, where nothing is
live and peers are interchangeable.

### Fairness

`host` assumes weak fairness of each client's receiving, planning and reporting,
of the server's handling of each kind of message, and of the three parts of a
tick: each is a loop that runs every frame, network round or tick for as long as
the process lives. Nothing is assumed about connecting, departing, misbehaving
or match ends. In `server_process`, the runtime's part assumes that each of its
two threads and Run go on; the capture's that the Simulation thread's and the
writer's loops do, not that events arrive or the run ends; the peers' that the
Network I/O thread's next step is taken and its clock advances between rounds
(strongly, as only a round's start reads it; up to the bound), and that the
Simulation thread closes what it lost; the session's that its three threads go
on, not that the server or the network does anything.

## Proofs

Eight modules hold theorems, each true for every value of the constants.

**`LobbyProofs`** goes up in three storeys, each resting on the one below.

* `MatchSpec => []MatchInv`. `ReadyMeansLoaded` is not inductive alone: that a
  Ready for the current version vouches for everyone in the Lobby needs
  `RosterNamesLobby` (the current version's Roster names the Lobby, so accepting
  a Ready for it is enough) and `VersionsNotAhead` (nobody is Ready for a version
  to come, so a bump makes everybody not Ready except those carried over). The
  carry-over keeps it because a departure only shrinks the Lobby.
  `MatchHasPlayers` uses that the player count is positive.
* The Host refines `MatchSpec`, so what is proved of the Match holds in the
  server; its books agree with the Match's whenever the mutex is free
  (`HostInv`); and a capture tells every departure once. The strengthening,
  `HostIInv`, is `MatchInv` with the books, that sessions are distinct and never
  given again, which body of a capture belongs to whom while the match is in the
  simulation (`CaptureTracks`: an entrant is in the simulation without a Leave,
  or gone from both it and the server with one), and that the winner told is the
  one kept for the capture (`WinnerTold`).
* `LobbyInv`, of the Host with its clients and whatever is between them.
  `LobbyIInv` says of each client: every Roster on its way to it, in its view or
  being loaded is one that was published, and a Ready on its way back is for one
  it has loaded (`Loads`), so a Match start names only the loaded; it joins once,
  with its first message, and is told nothing before (`JoinsOnce`); and the last
  message of each kind on its way carries the news, or there is none and its view
  has it (`Knows`). That last one is what a forgotten or misaddressed message
  would break, and it holds at every moment, not only when the way is empty.

**`ServerProofs`** is of the threads of the server's process.

* Supervisor and server: `SupervisorInv`, and that every step of the Supervisor
  is a step of `OneWayStop` or a stutter. The cause is written only by a
  publishing worker, the invariant says the stop came before it, and `stopped`
  waits for every worker, so no cause is written after it. Every step of the
  server's process is a step of the Supervisor or leaves it alone, so the
  process keeps its promise too; and `RuntimeInv`: no failure met is swallowed,
  none of a latch is reported twice. The strengthening, `RuntimeIInv`, says
  where a failure is at every moment: published, being recorded, taken by the
  Simulation loop, which finishes the captures first (`OnItsWay`), or in a
  latch that a worker still running will ask before it ends
  (`NothingLeftBehind`); and that nothing is met once Run has returned
  (`OverIsOver`).
* Captures: `CaptureInv` and `FirstLossKept`. `CaptureIInv` has three layers.
  The line from the Simulation thread to the file is in order, record by record
  and match by match, and what enters it is later than all of it (`LineInv`).
  Each capture's end is told once, by whichever thread, and the state told last
  is that of the open match (`Tellings`, `StateOfOpenMatch`). And in a capture
  that was not stopped nothing is missing between what was written and what
  waits (`NoGap`, `NothingLost`), so that a file is a prefix of what its match
  handed in (`FileIsPrefix`). The writer's purge on a loss takes a match's
  records out of the middle of the queue; what that keeps and loses is in
  `Subsequences`, with the lemmas that a subsequence is in order.

**`ClientProofs`** is of one client's process: the run of its Session, its own
player predicted, the files of its Runs and the file of its messages.

* `SessionInv`. `SessionIInv` keeps the line from the
  server to the Inbox in order (`LineInv`: nothing joins it once the Session has
  given something up, and what an ended connection kept is received before another
  can be there); has every flag of the view be something that was handed on
  (`ToldInv`); says why a connection that is gone is gone, at each point the frame
  may ask (`WhyGone`: it ended, a thread failed, or the run is ending already,
  which is what makes the frame's two reads, `wanted` and then the state, add up);
  has a failure a thread took be the run's or still on its way with the network
  thread (`FailureInv`); and has that thread disconnect before it is done
  (`LeavingInv`).
* `PredictionInv`. `PredictionIInv` has the history be the last commands sent, in
  order and as sent, all since the match began and the last answer (`HistoryOK`).
  Each prediction held is the one before it stepped by its command (`ChainOK`);
  the first, where it follows the last answer acted on, is a step from a player
  close to that answer's, and a step keeps players close, which carries the
  tolerance along the history however long it is. An empty history must say the
  same of the player itself, or the next command would start from nowhere. That
  nothing is corrected while the server only takes commands in order needs one
  path, of this match's commands from its start, that the client's predictions,
  the server's player and every answer on its way are on (`PathOK`). Replaying is
  a recursive function over the entries: that it is one, and what it is at each,
  is `SteppedIs`, from `CountedTo` in `Subsequences`, which counts up from a least
  counterexample.
* `RunFilesInv`. `RunFilesIInv` says that a Run writes of a crash only while one
  of its threads reports it, starting with the crash, its frames counted
  (`WritesOfACrash`): without it nothing tells the second thread that crashes
  from the first. What one Run is about to delete was superseded when it looked
  and stays so, since Runs are taken in order, and the log a handler opened is
  there until deleted (`FilesInv`); who crashed is over, with its crash in its
  log, which nobody writes to any more (`CrashedInv`).
* `PcapngInv`. Nothing is missing between file, batch and queue until a write
  fails (`FileLine`), so what is written is a prefix; the thread that stopped the
  file is the only one to tell (`OneStop`); and once a message was dropped no
  report begins, so that those begun bound what may still be queued (`FewLeft`).

**`CommandProofs`** is of what a player asks for, from an Agent's Intents to the
ticks that run its commands.

* `IntentsInv`. `IntentsIInv` puts each Intent set in one place,
  a channel, what one of the two threads owes or what was told (`InOnePlace`),
  which is kept only because no two channels hold the same one and no thread owes
  one twice (`HeldOnce`, `OncePerThread`). What the Commands have of an Intent
  still held is what its own state says (`SoFar`: no reload yet of one still to
  press it, no match but its own for an AimAt, no streak longer than its ticks),
  and a match is counted from one (`AliveInAMatch`), for an AimAt that has seen
  none is bound to none.
* `DeliveryInv`. `DeliveryIInv` keeps every list of commands in the order they were
  made and the queue in line: what was run, then what is acknowledged, then what is
  queued, then what was last offered (`QueueInLine`, `RunInLine`). No
  acknowledgement of this match, held or on its way, is ahead of the queue's
  (`AcknowledgedBehind`), and none of an earlier match is taken for one of this,
  because the client's view is of this match whenever it ticks (`MatchesInStep`).
  That nothing owed is forgotten is then said at four places: before what the queue
  was last offered, before the end of any datagram ever sent, before the end of the
  one being taken in and before the client's next command, each command of this
  match is in the list there, or was run, dropped or malformed (`OfferedSettled`,
  `CarriedSettled`, `TakingSettled`, `SentSettled`). The middle two are what lets
  the queue skip to a newer command: those it passes over were given up by whoever
  sent the datagram.

**`ConnectionsProofs`**: `ConnectionsInv`. But for the types, none of its parts is inductive.
That a member has its connection or its departure, or was told as departed
(`MemberIsHeld`), needs the same of whatever may yet admit it (`JoinersAreHeld`), for
a Join, the first or one repeated, may be handled after the Simulation thread lost
its connection. That nothing is kept of an expelled peer needs that
nothing more of it is handled (`ExpelledIsSilent`), hence that a peer asks to be
accepted once, and until that is handled has no deadline, has said nothing and was
not expelled (`AskedOnce`, `NewWhileAsking`): a second request would give a peer
already gone a deadline; and of a peer that said nothing nothing is handled
(`SilentIsUnheard`). The sliding window is judged against all a peer ever did
by what its tracker is: the last of them, in order, what it dropped being older
than the window (`TrackersAreRecent`). What a round has taken and not handled is
empty outside its own phase (`RoundInv`).

**`ViewProofs`** is of the Inbox, the render thread's frames and what they show.

* `EventsInv`. `EventsIInv` puts every Shot and every Death in one place on its way
  from the server to a frame, in order: told, kept or handed (`ShotsInLine`,
  `DeathsInLine`), those kept being of the matches they came in (`PendingOfTheirs`),
  which are the server's because the messages still to come lead from the view's
  match to the server's one at a time (`MatchesInLine`). A frame's match is never
  ahead of the view's nor behind the last frame's (`FramesInLine`). What was handed
  of the Deaths is still known dead while the match's updates are shown: the only
  step that forgets them is a frame without updates, and one can follow a frame with
  updates only once the match is over, for a view that has states keeps some until
  then (`DeathsAreKept`).
* `ViewInv`, of every tick rate. What is recorded is of a state told of the frame's
  match (`ShownIsOfAState`), the clock is no further behind it than the threshold
  (`ShownKeepsUp`), and what is kept of each body goes back to the first update
  recorded, or is as much as is kept (`HistoriesInLine`), since a body no longer
  listed does not come back. So both it and the Seen time are held at the same ends,
  but for the ticks the updates kept fall short of the delay and the threshold
  (`LaterThanSeen`). The code sizes its window for the delay alone, "so at any tick
  rate" (`interpolation.h:55-58`); the clock may be late by the threshold as well.
  Together they are 0.35 s and 28 updates are kept: none short up to 77 Hz. Beyond
  that a clock as late as it may be shows bodies later than the Seen time it
  reports, by that much at most; in a small instance with `ResyncThreshold = 2` TLC
  finds such a frame.

**`WorldsProofs`** is of the live World's ticks, of the server that runs captured
ones again and of the directory they are captured in.

* `SimulationInv`, `JudgedWhereSeen`, `NeverFasterThanItsRate` and
  `FinalForTheMatch`. `WorldIInv` says what each phase leaves the next (`PhasesOK`:
  nothing posed or struck is carried past Damage). The history of a player alive is
  of the last ticks posed, as many as the Match had or the ring holds, in order from
  its oldest slot (`HistoriesOK`), which is what makes the ring long enough for every
  delay within the cap, at either end: it was never asked for a tick it dropped, and
  before it is full its oldest is the Match's first (`PoseIsSeen`). Hits are of the
  living and judged where seen as they are made (`StruckOK`), and a health only falls
  through the tick's hits, so one of them reaches zero (`HealthOnlyFalls`,
  `DiesOnce`). A flight has as many steps as ticks since its round was fired, and a
  player fires one round a tick (`FlightsOK`): two bullets of one player are never as
  far, hence their bound. And a rifle's cooldown is at least what its rounds so far
  have earned it (`CooldownOK`), from which any two rounds are far enough apart.
* `ReplayServerInv`. That a viewer is told its Replay in
  whole needs where in it each one is (`HeardInv`: nothing heard before it is a
  viewer, as many ticks as its Replay is short of, the end just when the tick will
  close it), that a tick holds each viewer once, or one closed since (`TickOK`), and
  that nothing of a closed connection is handled (`ClosedIsSilent`). There is room
  when the World is built because only the round adds viewers, and whose request it
  is becomes none meanwhile (`RoundOK`, `RoomOK`). What the catalog kept of a file
  is what is there when both were written at once (`CatalogOK`).
* `RetentionInv`. The total the writer counts is what the completed captures' files
  and the open one's hold (`TotalCounts`), so it is an upper bound of what is there:
  an operator's removals and failed deletions only make it more. The list it deletes
  from is in order, newer than whatever was deleted and older than the Match, and
  has every capture there that could be deleted (`CompletedInOrder`,
  `CompletedAreThere`). When none is to be deleted before a header, fewer than
  `max_files` are left, which is where the file limit is kept; and when nothing fits
  with none to delete, none is left. The total is a fold over a set in an order of
  its own: that it exists, and what one element adds, is proved from a smallest
  counterexample (`SumExists`, `SumTakesOut`).

Every strengthening was first checked by TLC as an invariant of a small instance.

The assumptions are those stated in the modules: the peers, the players of a World,
the other players a client is shown, the askers of Replays and the threads that
report messages are finite, the Player count, the queues' capacities, the places for
viewers, the ticks of a Replay, the Runs kept, the ticks of bursts and releases, the
rifle's and the flights' parameters and every damage, the length of a prediction's
history and its tolerance are positive, the directories a server may find are of
Matches before its own, a Shooter's delay may be a tick at least, which is two of
the simulation's units of time, the pause and the bounds are natural numbers, a join
request's faults are faults, `NoFailure` is not a failure, a message carries at
least one command, and the process has the two workers and five failures
`server.cpp` gives it.

Only model-checked: liveness and whatever speaks of fairness, which the proof
system cannot do (`FullLobbyStarts`, `FailureEnds`, `FinishReturns`,
`NobodyIdles`, `DeparturesAreTold`, `RunEnds`); and the invariants of the bodies both sides
move, what a capture file's bytes say, Replays and what is loaded. `Scripts`, `Settings` and
`Input` use recursive operators, so nothing can be proved in them; much of
the rest (codecs, blobs, packs, Replays compared with the live World) needs induction
over data.

## Findings

* **A datagram may outlive its match** (`commands_across`).
  `command_stream.cpp:57-58` says that growing sequences keep the last match's
  commands apart from this one's; the server's queue is new for each match, so
  only the pause does.
* **A strict capture told completed without its Match end** (`capture_strict`).
  `capturer.h:160` promises a completed file has every record; when another
  match's loss stops the captures during the tick that ends this one, its Match
  end is dropped and its close still tells it completed.
* **An honest player counted as misbehaving** (`connections_honest`).
  `misbehaviour.h:70-71` says an honest client never misbehaves. The Simulation
  thread reports a connection lost under the transport's lock and closes it
  after; if the departure is handled in between, the Commands still received
  come from a peer that has not joined, and its tracker is never erased.
* **The dead shown again** (`client_early_death`). A Death that arrives before
  its match's first Authoritative State is forgotten with the frame it was
  handed to, though `presentation.h:67-69` says for the rest of the match.
* **A message after one that was dropped** (`pcapng_dropped`). A report that looked
  whether the file had stopped before another dropped its message queues its own
  once the writer has made room, though `file_writer.cpp:101-102` says none is.
* **A Leave read as later than it was** (`replay_leaves`). When nothing else
  happened on the match's last tick, a Leave of the tick before is taken for one
  after it, and the Replay's World has a body the live one did not.
* **A closed Replay reported as an unreachable server** (`session_closed`).
  GetFailure may ask between the connection's end and the messages it left.
* **A truncated pack renamed into place** (`pack_truncated`). What the stream's
  destructor fails to flush is not noticed, though `pack_writer.cpp:120-121`
  says no truncated file is ever left.

## Left out

Besides what the sections above name: the tick's own messages and debug
subscriptions in `Host`; metrics and logs; the Roster version's 32 bits; the
capture writer's destructor, which drains as `Finish` does; reconnection as the
same player, which the code does not have; floating point beyond the grids;
trajectories; drawing, sound and devices.

## Plan

1. Proofs: `ReenactInv` of `Reenactment`.
2. An abstract Lobby (who plays which match with whom), implemented by `Lobby`.
3. The tick schedule (`modules/tick`), whose pacing every module leaves free.
