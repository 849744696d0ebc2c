------------------------------ MODULE RunFiles ------------------------------
(***************************************************************************)
(* The Runs of a client beside one executable: what each leaves behind     *)
(* (client/run_files.cpp, client/client_run.cpp), the order main.cpp does  *)
(* it in, how a crash is written (crash/crash.cpp, crash/crash_posix.cpp)  *)
(* and how an ordinary end is (application/application.cpp).  The next Run *)
(* knows the one before by its files alone; several may run at once, each  *)
(* may be killed between any two steps, and two threads of one may crash   *)
(* at once.                                                                *)
(*                                                                         *)
(* A Run ID is a number, in the order they are taken: they grow with the   *)
(* clock.  Of a log is kept what its lines are from the first that matters *)
(* on: "crash", "frame", "terminal", or "line" for any number of others.   *)
(* One that was deleted is written to on, unseen.                          *)
(***************************************************************************)
EXTENDS Naturals, Sequences, FiniteSets, FiniteSetsExt

CONSTANTS
  MaxRuns,     \* bound: how many Runs are taken
  MaxAtOnce,   \* bound: how many run at once
  MaxRefusals, \* bound: how many files cannot be opened or deleted
  KeptRuns,    \* kKeptRuns
  Frames       \* how deep a crash's stack is

ASSUME RunFilesAssumption ==
  /\ {MaxRuns, MaxAtOnce, KeptRuns} \subseteq Nat \ {0} /\ {MaxRefusals, Frames} \subseteq Nat

Runs == 1..MaxRuns
Threads == {"main", "other"}

VARIABLES
  runs,    \* [Run -> where its process is, and what it keeps]
  files,   \* what logs/ and dumps/ hold, each [run, kind]
  logs,    \* [Run -> the lines of its log]
  crashed, \* history: the Runs that ended in a crash reported whole
  refused, \* how many files could not be opened or deleted
  deleted, \* history: the Runs a file of which was deleted
  missed   \* history: the Runs that had crashed when the next one looked, and
           \* were not told of

runFilesVars == <<runs, files, logs, crashed, refused, deleted, missed>>

\* at: how far main.cpp is.  sink and crashFile: whether the log, and the crash
\* handler, could open the file.  reporter: g_reporter.
NotTaken ==
  [at |-> "none", sink |-> FALSE, crashFile |-> FALSE, reporter |-> "none", frames |-> 0,
   told |-> 0, doomed |-> {}]

RunFilesInit ==
  /\ runs = [run \in Runs |-> NotTaken]
  /\ files = {} /\ logs = [run \in Runs |-> <<>>] /\ crashed = {} /\ deleted = {} /\ refused = 0
  /\ missed = {}

Log(run) == [run |-> run, kind |-> "log"]
Dump(run) == [run |-> run, kind |-> "dump"]

Over == {"none", "ended"}
Alive(run) == runs[run].at \notin Over

-----------------------------------------------------------------------------
(* run_files.cpp *)

\* ScanRuns: a Run counts once, whichever of its files are left.
ScanRuns == {file.run : file \in files}

\* The last line of a log that is there; an empty or a missing one is ordinary.
ReadRunEnd(run) ==
  IF Log(run) \notin files \/ logs[run] = <<>> THEN "ordinary"
  ELSE CASE logs[run][Len(logs[run])] \in {"crash", "frame"} -> "crash"
         [] logs[run][Len(logs[run])] = "terminal" -> "terminal failure"
         [] OTHER -> "ordinary"

\* FindPreviousRun: the newest older than current, or 0.
FindPreviousRun(current) ==
  LET older == {run \in ScanRuns : run < current} IN IF older = {} THEN 0 ELSE Max(older)

\* Mutant: counts the current Run out of those it keeps.
MutPruned(current) ==
  {run \in ScanRuns : run # current /\ Cardinality({newer \in ScanRuns : newer > run}) >= KeptRuns - 1}
\* What PruneRuns deletes: all but the newest KeptRuns.
Pruned(current) == {run \in ScanRuns : Cardinality({newer \in ScanRuns : newer > run}) >= KeptRuns}

-----------------------------------------------------------------------------
(* main.cpp *)

\* The main thread goes on unless it is the one that reports a crash.
MainAt(run, at) == runs[run].at = at /\ runs[run].reporter # "main"

\* TakeRun: the next Run ID.
TakeRun(run) ==
  /\ \A earlier \in 1..run - 1 : runs[earlier].at # "none"
  /\ Cardinality({r \in Runs : Alive(r)}) < MaxAtOnce
  /\ MainAt(run, "none") /\ runs' = [runs EXCEPT ![run].at = "taken"]
  /\ UNCHANGED <<files, logs, crashed, refused, deleted, missed>>

\* External: the system refuses a file, or not.
MayRefuse(works) == IF works THEN refused' = refused ELSE refused < MaxRefusals /\ refused' = refused + 1

\* crash::Install, before the log's own sink: it makes the file if it can.
Install(run) ==
  /\ MainAt(run, "taken")
  /\ \E opens \in BOOLEAN :
       /\ MayRefuse(opens)
       /\ runs' = [runs EXCEPT ![run].at = "installed", ![run].crashFile = opens]
       /\ files' = IF opens THEN files \cup {Log(run)} ELSE files
  /\ UNCHANGED <<logs, crashed, deleted, missed>>

\* log with line after it.
After(log, line) ==
  IF line = "line" /\ (log = <<>> \/ log[Len(log)] = "line") THEN log ELSE Append(log, line)

\* A line of the log's, if it has its file.
Logged(run, line) == IF runs'[run].sink THEN [logs EXCEPT ![run] = After(@, line)] ELSE logs

\* BeginRun: the sink, and the first lines.
BeginRun(run) ==
  /\ MainAt(run, "installed")
  /\ \E opens \in BOOLEAN :
       /\ MayRefuse(opens)
       /\ runs' = [runs EXCEPT ![run].at = "begun", ![run].sink = opens]
       /\ files' = IF opens THEN files \cup {Log(run)} ELSE files
  /\ logs' = Logged(run, "line")
  /\ UNCHANGED <<crashed, deleted, missed>>

\* ReportPreviousRun: the WARN line, if it crashed.
ReportPreviousRun(run) ==
  LET previous == FindPreviousRun(run)
      tells == previous # 0 /\ ReadRunEnd(previous) = "crash"
  IN /\ MainAt(run, "begun")
     /\ runs' = [runs EXCEPT ![run].at = "reported", ![run].told = IF tells THEN previous ELSE 0]
     /\ logs' = IF tells THEN Logged(run, "line") ELSE logs
     /\ missed' = missed \cup (({run - 1} \cap crashed) \ {runs'[run].told})
     /\ UNCHANGED <<files, crashed, refused, deleted>>

\* PruneOldRuns: the folders are read, and what is too old deleted file by file,
\* one that cannot be left with a warning.
ScansToPrune(run) ==
  /\ MainAt(run, "reported")
  /\ runs' = [runs EXCEPT ![run].at = "pruning",
                          ![run].doomed = {file \in files : file.run \in Pruned(run)}]
  /\ UNCHANGED <<files, logs, crashed, refused, deleted, missed>>

Removes(run) ==
  /\ MainAt(run, "pruning") /\ runs[run].doomed # {}
  /\ \E file \in runs[run].doomed, gone \in BOOLEAN :
       /\ MayRefuse(gone)
       /\ runs' = [runs EXCEPT ![run].doomed = @ \ {file}]
       /\ files' = IF gone THEN files \ {file} ELSE files
       /\ logs' = IF gone THEN logs ELSE Logged(run, "line")
       /\ deleted' = IF gone /\ file \in files THEN deleted \cup {file.run} ELSE deleted
  /\ UNCHANGED <<crashed, missed>>

Execute(run) ==
  /\ MainAt(run, "pruning") /\ runs[run].doomed = {}
  /\ runs' = [runs EXCEPT ![run].at = "running"]
  /\ UNCHANGED <<files, logs, crashed, refused, deleted, missed>>

\* While it runs any thread logs, as the others do while one reports a crash.
LogsLine(run) ==
  /\ runs[run].at = "running" /\ runs[run].sink
  /\ logs' = [logs EXCEPT ![run] = After(@, "line")]
  /\ UNCHANGED <<runs, files, crashed, refused, deleted, missed>>

\* An Aftermath dump of a GPU crash, beside the log.
DumpsGpu(run) ==
  /\ runs[run].at = "running" /\ runs[run].reporter = "none"
  /\ files' = files \cup {Dump(run)}
  /\ UNCHANGED <<runs, logs, crashed, refused, deleted, missed>>

\* Conclude, the other threads joined: an ordinary exit, or the terminal event.
Conclude(run) ==
  /\ runs[run].at = "running" /\ runs[run].reporter = "none"
  /\ runs' = [runs EXCEPT ![run].at = "concluded"]
  /\ \E line \in {"line", "terminal"} : logs' = Logged(run, line)
  /\ UNCHANGED <<files, crashed, refused, deleted, missed>>

\* It returns, or is killed wherever it is.
ProcessEnds(run) ==
  /\ Alive(run)
  /\ runs' = [runs EXCEPT ![run] = [NotTaken EXCEPT !.at = "ended", !.told = runs[run].told]]
  /\ UNCHANGED <<files, logs, crashed, refused, deleted, missed>>

-----------------------------------------------------------------------------
(* A crash *)

\* WriteLine, to the file the handler opened.
WriteLine(run, line) == IF runs[run].crashFile THEN [logs EXCEPT ![run] = Append(@, line)] ELSE logs

\* HandleFatalSignal: the first thread reports, any other waits for the process
\* to end of it.
MayReport(run, thread) == runs[run].reporter = "none"

HandlesSignals(run) == runs[run].at \notin Over \cup {"taken"}

WriteSignalLines(run, thread) ==
  /\ HandlesSignals(run) /\ MayReport(run, thread)
  /\ thread = "other" => runs[run].at = "running"
  /\ runs' = [runs EXCEPT ![run].reporter = thread]
  /\ logs' = WriteLine(run, "crash")
  /\ UNCHANGED <<files, crashed, refused, deleted, missed>>

WriteFrameLine(run) ==
  /\ HandlesSignals(run) /\ runs[run].reporter # "none" /\ runs[run].frames < Frames
  /\ runs' = [runs EXCEPT ![run].frames = @ + 1]
  /\ logs' = WriteLine(run, "frame")
  /\ UNCHANGED <<files, crashed, refused, deleted, missed>>

\* The default action, raised again: the process ends.
Dies(run) ==
  /\ HandlesSignals(run) /\ runs[run].reporter # "none" /\ runs[run].frames = Frames
  /\ runs' = [runs EXCEPT ![run] = [NotTaken EXCEPT !.at = "ended", !.told = runs[run].told]]
  /\ crashed' = IF runs[run].crashFile THEN crashed \cup {run} ELSE crashed
  /\ UNCHANGED <<files, logs, refused, deleted, missed>>

RunFilesNext ==
  \E run \in Runs :
    \/ TakeRun(run) \/ Install(run) \/ BeginRun(run) \/ ReportPreviousRun(run) \/ ScansToPrune(run)
    \/ Removes(run) \/ Execute(run) \/ LogsLine(run) \/ DumpsGpu(run) \/ Conclude(run) \/ ProcessEnds(run)
    \/ \E thread \in Threads : WriteSignalLines(run, thread)
    \/ WriteFrameLine(run) \/ Dies(run)

RunFilesSpec == RunFilesInit /\ [][RunFilesNext]_runFilesVars

-----------------------------------------------------------------------------
(* Properties *)

IsTaken(run) == runs[run].at # "none"
Has(run, line) == \E i \in DOMAIN logs[run] : logs[run][i] = line

\* A crash that a player is told of was one, of a Run before.
ToldOfACrash ==
  \A run \in Runs : LET told == runs[run].told IN told # 0 => told < run /\ Has(told, "crash")

\* The Run before one is told of if it crashed and had died, unless its log is
\* gone or a line of another thread's came after the report.
CrashesAreTold ==
  \A run \in missed : logs[run][Len(logs[run])] \notin {"crash", "frame"} \/ run \in deleted

\* No Run deletes a file of one of the newest KeptRuns, its own among them,
\* though others start and delete beside it.
NewestAreKept ==
  \A run \in deleted : Cardinality({newer \in Runs : newer > run /\ IsTaken(newer)}) >= KeptRuns

\* One thread alone writes a crash, its frames after it, whatever else is
\* logged between them.
OneReport ==
  \A run \in Runs :
    LET lines == logs[run]
        places(line) == {i \in DOMAIN lines : lines[i] = line}
    IN /\ Cardinality(places("crash")) <= 1 /\ Cardinality(places("frame")) <= Frames
       /\ \A i \in places("frame") : \E j \in places("crash") : j < i

RunFilesInv == ToldOfACrash /\ CrashesAreTold /\ NewestAreKept /\ OneReport
=============================================================================
