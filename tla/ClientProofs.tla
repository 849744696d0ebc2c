---------------------------- MODULE ClientProofs -----------------------------
(***************************************************************************)
(* Proofs about a client: the files it leaves, which are its Runs' logs    *)
(* and dumps (RunFiles.tla) and the file of network messages               *)
(* (PcapngWriter.tla), the run of its Session (ClientSession.tla), and     *)
(* what it predicts of its own player (Prediction.tla).                    *)
(***************************************************************************)
EXTENDS ClientSession, RunFiles, PcapngWriter, Prediction, Subsequences, SequenceTheorems


-----------------------------------------------------------------------------
(***************************************************************************)
(* The Runs.  Types: a log is a sequence of lines, and a Run a process.    *)
(***************************************************************************)
Lines == {"line", "terminal", "crash", "frame"}
Files == [run : Runs, kind : {"log", "dump"}]

Flags == BOOLEAN
Ats == {"none", "taken", "installed", "begun", "reported", "pruning", "running", "concluded", "ended"}

Processes ==
  [at : Ats, sink : Flags, crashFile : Flags, reporter : {"none"} \cup Threads, frames : Nat,
   told : Nat, doomed : SUBSET Files]

RunFilesTypeOK ==
  /\ runs \in [Runs -> Processes] /\ logs \in [Runs -> Seq(Lines)]
  /\ files \in SUBSET Files /\ refused \in Nat
  /\ crashed \in SUBSET Runs /\ deleted \in SUBSET Runs /\ missed \in SUBSET Runs

(***************************************************************************)
(* A Run writes of a crash only while one of its threads reports it, which *)
(* starts with the crash itself; no frame is written that is not counted,  *)
(* and nothing is reported before the handler is installed.                *)
(***************************************************************************)
Places(run, line) == {i \in DOMAIN logs[run] : logs[run][i] = line}

WritesOfACrash(run) ==
  /\ runs[run].frames <= Frames
  /\ runs[run].at # "ended" => Cardinality(Places(run, "frame")) <= runs[run].frames
  /\ runs[run].at # "ended" /\ runs[run].reporter = "none" =>
       runs[run].frames = 0 /\ ~Has(run, "crash") /\ ~Has(run, "frame")
  /\ runs[run].reporter # "none" /\ runs[run].crashFile => Has(run, "crash")
  /\ runs[run].at \in Over \cup {"taken"} => runs[run].reporter = "none"

OneReportOf(run) ==
  /\ Cardinality(Places(run, "crash")) <= 1 /\ Cardinality(Places(run, "frame")) <= Frames
  /\ \A i \in Places(run, "frame") : \E j \in Places(run, "crash") : j < i

CrashInv == \A run \in Runs : WritesOfACrash(run) /\ OneReportOf(run)

(***************************************************************************)
(* The files are of Runs taken, and what is to be deleted is of one that   *)
(* enough have followed.  The log of a Run whose handler made it is there  *)
(* until it is deleted, and a Run missed was over, its crash in its log.   *)
(***************************************************************************)
TakenAfter(run) == {newer \in Runs : newer > run /\ IsTaken(newer)}
Superseded(run) == Cardinality(TakenAfter(run)) >= KeptRuns

FilesInv ==
  /\ \A file \in files : IsTaken(file.run)
  /\ \A run \in Runs : \A file \in runs[run].doomed : Superseded(file.run)
  /\ \A run \in Runs : runs[run].crashFile \/ run \in crashed => Log(run) \in files \/ run \in deleted

CrashedInv ==
  /\ \A run \in crashed : runs[run].at = "ended" /\ Has(run, "crash")
  /\ missed \subseteq crashed

RunFilesIInv == RunFilesTypeOK /\ CrashInv /\ FilesInv /\ CrashedInv /\ RunFilesInv

-----------------------------------------------------------------------------
(* A step is one Run's. *)
StepOf(run) ==
  \/ TakeRun(run) \/ Install(run) \/ BeginRun(run) \/ ReportPreviousRun(run) \/ ScansToPrune(run)
  \/ Removes(run) \/ Execute(run) \/ LogsLine(run) \/ DumpsGpu(run) \/ Conclude(run) \/ ProcessEnds(run)
  \/ \E thread \in Threads : WriteSignalLines(run, thread)
  \/ WriteFrameLine(run) \/ Dies(run)

LEMMA StepIsOneRuns == RunFilesNext <=> \E run \in Runs : StepOf(run)
  BY SMTT(30) DEF RunFilesNext, StepOf

(* A process with one of its fields set anew is a process. *)
LEMMA ProcessUpdates ==
  ASSUME NEW p \in Processes
  PROVE  /\ \A at \in Ats : [p EXCEPT !.at = at] \in Processes
         /\ \A at \in Ats, flag \in Flags : /\ [p EXCEPT !.at = at, !.sink = flag] \in Processes
                                          /\ [p EXCEPT !.at = at, !.crashFile = flag] \in Processes
         /\ \A at \in Ats, told \in Nat : [p EXCEPT !.at = at, !.told = told] \in Processes
         /\ \A at \in Ats, doomed \in SUBSET Files : [p EXCEPT !.at = at, !.doomed = doomed] \in Processes
         /\ \A frames \in Nat : [p EXCEPT !.frames = frames] \in Processes
         /\ \A doomed \in SUBSET Files : [p EXCEPT !.doomed = doomed] \in Processes
         /\ \A thread \in Threads : [p EXCEPT !.reporter = thread] \in Processes
  BY DEF Processes

LEMMA ProcessFacts ==
  ASSUME NEW p \in Processes
  PROVE  /\ NotTaken \in Processes
         /\ \A told \in Nat : [NotTaken EXCEPT !.at = "ended", !.told = told] \in Processes
  BY DEF Processes, NotTaken, Threads, Flags, Ats

LEMMA RunFilesInitTypes == RunFilesInit => RunFilesTypeOK
<1>1. NotTaken \in Processes
  BY DEF Processes, NotTaken, Threads, Flags, Ats
<1>2. <<>> \in Seq(Lines)
  OBVIOUS
<1>3. QED
  BY <1>1, <1>2 DEF RunFilesInit, RunFilesTypeOK

(* What a log becomes is a log. *)
LEMMA LogTypes ==
  ASSUME NEW log \in Seq(Lines), NEW line \in Lines
  PROVE  /\ After(log, line) \in {log, Append(log, line)} /\ After(log, line) \in Seq(Lines)
         /\ Append(log, line) \in Seq(Lines)
  BY DEF After

LEMMA LoggedTypes ==
  ASSUME RunFilesTypeOK, NEW run \in Runs, NEW line \in Lines
  PROVE  /\ Logged(run, line) \in [Runs -> Seq(Lines)]
         /\ \A r \in Runs : r # run => Logged(run, line)[r] = logs[r]
         /\ Logged(run, line)[run] \in {logs[run], Append(logs[run], line)}
<1>1. logs \in [Runs -> Seq(Lines)] /\ logs[run] \in Seq(Lines)
  BY DEF RunFilesTypeOK
<1>2. After(logs[run], line) \in {logs[run], Append(logs[run], line)} /\ After(logs[run], line) \in Seq(Lines)
  BY <1>1, LogTypes
<1>3. Logged(run, line) = logs \/ Logged(run, line) = [logs EXCEPT ![run] = After(logs[run], line)]
  BY DEF Logged
<1>4. QED
  BY <1>1, <1>2, <1>3

LEMMA WriteLineTypes ==
  ASSUME RunFilesTypeOK, NEW run \in Runs, NEW line \in Lines
  PROVE  /\ WriteLine(run, line) \in [Runs -> Seq(Lines)]
         /\ \A r \in Runs : r # run => WriteLine(run, line)[r] = logs[r]
         /\ WriteLine(run, line)[run] = IF runs[run].crashFile THEN Append(logs[run], line) ELSE logs[run]
<1>1. logs \in [Runs -> Seq(Lines)] /\ logs[run] \in Seq(Lines)
  BY DEF RunFilesTypeOK
<1>2. Append(logs[run], line) \in Seq(Lines)
  BY <1>1
<1>3. QED
  BY <1>1, <1>2 DEF WriteLine

(***************************************************************************)
(* FindPreviousRun finds the newest of the older Runs that left a file.    *)
(***************************************************************************)
LEMMA GreatestIsMax ==
  ASSUME NEW N \in Nat, NEW S \in SUBSET (1..N), S # {}
  PROVE  Max(S) \in S /\ \A y \in S : Max(S) >= y
<1>. DEFINE below == {N - s : s \in S}
<1>1. below \in SUBSET Nat /\ below # {}
  <2>1. \A s \in S : s \in 1..N
    OBVIOUS
  <2>2. \A s \in S : N - s \in Nat
    BY <2>1
  <2>3. QED
    BY <2>2
<1>2. PICK n \in below : \A k \in below : n <= k
  BY <1>1, LeastNat
<1>3. PICK x \in S : n = N - x
  BY <1>2
<1>4. \A y \in S : x >= y
  <2>1. SUFFICES ASSUME NEW y \in S PROVE x >= y
    OBVIOUS
  <2>2. n <= N - y
    BY <1>2
  <2>3. QED
    BY <1>3, <2>2
<1>5. QED
  BY <1>4 DEF Max

LEMMA PreviousRun ==
  ASSUME RunFilesTypeOK, NEW run \in Runs
  PROVE  /\ FindPreviousRun(run) \in Nat
         /\ FindPreviousRun(run) # 0 => FindPreviousRun(run) \in ScanRuns /\ FindPreviousRun(run) < run
         /\ \A r \in ScanRuns : r < run => r <= FindPreviousRun(run)
<1>. DEFINE older == {r \in ScanRuns : r < run}
<1>1. MaxRuns \in Nat
  BY RunFilesAssumption
<1>2. ScanRuns \subseteq 1..MaxRuns
  BY DEF ScanRuns, RunFilesTypeOK, Files, Runs
<1>3. CASE older = {}
  BY <1>3 DEF FindPreviousRun
<1>4. CASE older # {}
  <2>1. Max(older) \in older /\ \A y \in older : Max(older) >= y
    BY <1>1, <1>2, <1>4, GreatestIsMax
  <2>2. FindPreviousRun(run) = Max(older)
    BY <1>4 DEF FindPreviousRun
  <2>3. QED
    <3>1. Max(older) \in 1..MaxRuns /\ Max(older) \in ScanRuns /\ Max(older) < run
      BY <1>2, <2>1
    <3>2. \A r \in older : r <= Max(older)
      BY <1>1, <1>2, <2>1
    <3>3. QED
      BY <1>1, <2>2, <3>1, <3>2
<1>5. QED
  BY <1>3, <1>4

-----------------------------------------------------------------------------
(* The types, step by step. *)
LEMMA QuietTypes ==
  ASSUME RunFilesTypeOK, NEW run \in Runs,
         TakeRun(run) \/ Execute(run) \/ ScansToPrune(run) \/ DumpsGpu(run) \/ ProcessEnds(run) \/ Install(run)
  PROVE  RunFilesTypeOK'
<1>0. runs \in [Runs -> Processes] /\ runs[run] \in Processes /\ runs[run].frames \in Nat
  BY SMTT(30) DEF RunFilesTypeOK, Processes
<1>1. CASE TakeRun(run) \/ Execute(run)
  BY ZenonT(60), <1>1, <1>0, ProcessUpdates DEF RunFilesTypeOK, TakeRun, Execute, MainAt, Ats
<1>2. CASE ScansToPrune(run)
  <2>1. {file \in files : file.run \in Pruned(run)} \in SUBSET Files
    BY DEF RunFilesTypeOK
  <2>2. QED
    BY ZenonT(60), <1>2, <1>0, <2>1, ProcessUpdates DEF RunFilesTypeOK, ScansToPrune, Ats
<1>3. CASE DumpsGpu(run)
  <2>1. Dump(run) \in Files
    BY DEF Dump, Files
  <2>2. QED
    BY <1>3, <2>1 DEF RunFilesTypeOK, DumpsGpu
<1>4. CASE ProcessEnds(run)
  <2>1. [NotTaken EXCEPT !.at = "ended", !.told = runs[run].told] \in Processes
    BY ProcessFacts DEF RunFilesTypeOK, Processes
  <2>2. QED
    BY <1>4, <2>1 DEF RunFilesTypeOK, ProcessEnds
<1>5. CASE Install(run)
  <2>1. Log(run) \in Files
    BY DEF Log, Files
  <2>2. PICK opens \in BOOLEAN :
          /\ MayRefuse(opens)
          /\ runs' = [runs EXCEPT ![run].at = "installed", ![run].crashFile = opens]
          /\ files' = IF opens THEN files \cup {Log(run)} ELSE files
    BY ZenonT(60), <1>5 DEF Install
  <2>3. refused' \in Nat
    BY <2>2 DEF MayRefuse, RunFilesTypeOK
  <2>4. opens \in Flags /\ runs \in [Runs -> Processes]
    BY DEF Flags, RunFilesTypeOK
  <2>5. runs' \in [Runs -> Processes]
    BY ZenonT(60), <1>0, <2>2, <2>4, ProcessUpdates DEF Ats
  <2>6. QED
    BY <1>5, <2>1, <2>2, <2>3, <2>5 DEF RunFilesTypeOK, Install
<1>6. QED
  BY <1>1, <1>2, <1>3, <1>4, <1>5

LEMMA LoggingTypes ==
  ASSUME RunFilesTypeOK, NEW run \in Runs,
         BeginRun(run) \/ ReportPreviousRun(run) \/ Removes(run) \/ LogsLine(run) \/ Conclude(run)
  PROVE  RunFilesTypeOK'
<1>0. runs \in [Runs -> Processes] /\ runs[run] \in Processes /\ runs[run].frames \in Nat
  BY DEF RunFilesTypeOK, Processes
<1>1. CASE BeginRun(run)
  <2>1. Log(run) \in Files
    BY DEF Log, Files
  <2>2. PICK opens \in BOOLEAN :
          /\ MayRefuse(opens)
          /\ runs' = [runs EXCEPT ![run].at = "begun", ![run].sink = opens]
          /\ files' = IF opens THEN files \cup {Log(run)} ELSE files
    BY ZenonT(60), <1>1 DEF BeginRun
  <2>3. refused' \in Nat
    BY <2>2 DEF MayRefuse, RunFilesTypeOK
  <2>4. opens \in Flags /\ runs \in [Runs -> Processes]
    BY DEF Flags, RunFilesTypeOK
  <2>5. runs' \in [Runs -> Processes]
    BY ZenonT(60), <1>0, <2>2, <2>4, ProcessUpdates DEF Ats
  <2>6. logs' \in [Runs -> Seq(Lines)]
    BY <1>1, LoggedTypes DEF BeginRun, Lines
  <2>7. QED
    BY <1>1, <2>1, <2>2, <2>3, <2>5, <2>6 DEF RunFilesTypeOK, BeginRun
<1>2. CASE ReportPreviousRun(run)
  <2>1. FindPreviousRun(run) \in Nat
    BY SMTT(30), PreviousRun
  <2>2. runs' \in [Runs -> Processes]
    BY ZenonT(60), <1>0, <1>2, <2>1, ProcessUpdates DEF ReportPreviousRun, Ats
  <2>3. logs' \in [Runs -> Seq(Lines)]
    BY <1>2, LoggedTypes DEF ReportPreviousRun, Lines, RunFilesTypeOK
  <2>4. missed' \in SUBSET Runs
    BY <1>2 DEF ReportPreviousRun, RunFilesTypeOK
  <2>5. QED
    BY <1>2, <2>2, <2>3, <2>4 DEF RunFilesTypeOK, ReportPreviousRun
<1>3. CASE Removes(run)
  <2>1. PICK file \in runs[run].doomed, gone \in BOOLEAN :
          /\ MayRefuse(gone)
          /\ runs' = [runs EXCEPT ![run].doomed = @ \ {file}]
          /\ files' = IF gone THEN files \ {file} ELSE files
          /\ logs' = IF gone THEN logs ELSE Logged(run, "line")
          /\ deleted' = IF gone /\ file \in files THEN deleted \cup {file.run} ELSE deleted
    BY <1>3 DEF Removes
  <2>2. refused' \in Nat
    BY <2>1 DEF MayRefuse, RunFilesTypeOK
  <2>3. runs' \in [Runs -> Processes] /\ file \in Files
    BY <2>1 DEF RunFilesTypeOK, Processes
  <2>4. logs' \in [Runs -> Seq(Lines)]
    BY <2>1, LoggedTypes DEF Lines, RunFilesTypeOK
  <2>5. file.run \in Runs
    BY <2>3 DEF Files
  <2>6. QED
    BY <1>3, <2>1, <2>2, <2>3, <2>4, <2>5 DEF RunFilesTypeOK, Removes
<1>4. CASE LogsLine(run)
  <2>1. After(logs[run], "line") \in Seq(Lines)
    BY LogTypes DEF RunFilesTypeOK, Lines
  <2>2. QED
    BY <1>4, <2>1 DEF RunFilesTypeOK, LogsLine
<1>5. CASE Conclude(run)
  <2>1. runs' \in [Runs -> Processes]
    BY ZenonT(60), <1>0, <1>5, ProcessUpdates DEF Conclude, Ats
  <2>2. logs' \in [Runs -> Seq(Lines)]
    BY <1>5, LoggedTypes DEF Conclude, Lines
  <2>3. QED
    BY SMTT(30), <1>5, <2>1, <2>2 DEF RunFilesTypeOK, Conclude
<1>6. QED
  BY <1>1, <1>2, <1>3, <1>4, <1>5

LEMMA CrashTypes ==
  ASSUME RunFilesTypeOK, NEW run \in Runs,
         (\E thread \in Threads : WriteSignalLines(run, thread)) \/ WriteFrameLine(run) \/ Dies(run)
  PROVE  RunFilesTypeOK'
<1>0. runs \in [Runs -> Processes] /\ runs[run] \in Processes /\ runs[run].frames \in Nat
  BY DEF RunFilesTypeOK, Processes
<1>1. ASSUME NEW thread \in Threads, WriteSignalLines(run, thread) PROVE RunFilesTypeOK'
  <2>1. runs' \in [Runs -> Processes]
    BY <1>0, <1>1, ProcessUpdates DEF WriteSignalLines
  <2>2. logs' \in [Runs -> Seq(Lines)]
    BY <1>1, WriteLineTypes DEF WriteSignalLines, Lines
  <2>3. QED
    BY SMTT(30), <1>1, <2>1, <2>2 DEF RunFilesTypeOK, WriteSignalLines
<1>2. CASE WriteFrameLine(run)
  <2>1. runs' \in [Runs -> Processes]
    <3>1. runs[run].frames + 1 \in Nat
      BY <1>0
    <3>2. [runs[run] EXCEPT !.frames = runs[run].frames + 1] \in Processes
      BY <1>0, <3>1, ProcessUpdates, Zenon
    <3>3. QED
      BY <1>0, <1>2, <3>2 DEF WriteFrameLine
  <2>2. logs' \in [Runs -> Seq(Lines)]
    BY <1>2, WriteLineTypes DEF WriteFrameLine, Lines
  <2>3. QED
    BY <1>2, <2>1, <2>2 DEF RunFilesTypeOK, WriteFrameLine
<1>3. CASE Dies(run)
  <2>1. [NotTaken EXCEPT !.at = "ended", !.told = runs[run].told] \in Processes
    BY ProcessFacts DEF RunFilesTypeOK, Processes
  <2>2. QED
    BY <1>3, <2>1 DEF RunFilesTypeOK, Dies
<1>4. QED
  BY <1>1, <1>2, <1>3

-----------------------------------------------------------------------------
(***************************************************************************)
(* What a step does to its own Run's process, and that it is the only one. *)
(***************************************************************************)
OnlyOf(run) == \A r \in Runs : r # run => runs'[r] = runs[r] /\ logs'[r] = logs[r]

EndsAs(run) == runs'[run] = [NotTaken EXCEPT !.at = "ended", !.told = runs[run].told]

GoesOnAs(run) ==
  /\ runs'[run].at \notin Over \cup {"taken"}
  /\ runs'[run].frames = runs[run].frames /\ runs'[run].reporter = runs[run].reporter
  /\ runs'[run].crashFile = runs[run].crashFile \/ runs[run].at = "taken"

StartsAs(run) ==
  /\ runs'[run].at = "taken"
  /\ runs'[run].frames = runs[run].frames /\ runs'[run].reporter = runs[run].reporter
  /\ runs'[run].crashFile = runs[run].crashFile /\ runs[run].at = "none"

LogsAtMost(run) ==
  \/ logs'[run] = logs[run]
  \/ \E line \in {"line", "terminal"} : logs'[run] = Append(logs[run], line)

\* Nothing of a crash is written.
Quiet(run) ==
  /\ OnlyOf(run) /\ runs[run].at # "ended" /\ LogsAtMost(run)
  /\ EndsAs(run) \/ GoesOnAs(run) \/ StartsAs(run)

LEMMA QuietSteps ==
  ASSUME RunFilesTypeOK, NEW run \in Runs,
         \/ TakeRun(run) \/ Install(run) \/ BeginRun(run) \/ ReportPreviousRun(run) \/ ScansToPrune(run)
         \/ Removes(run) \/ Execute(run) \/ LogsLine(run) \/ DumpsGpu(run) \/ Conclude(run)
         \/ ProcessEnds(run) \/ Dies(run)
  PROVE  Quiet(run)
<1>0. runs \in [Runs -> Processes] /\ logs \in [Runs -> Seq(Lines)]
  BY DEF RunFilesTypeOK
<1>. DEFINE logged(line) == /\ \A r \in Runs : r # run => Logged(run, line)[r] = logs[r]
                            /\ Logged(run, line)[run] \in {logs[run], Append(logs[run], line)}
<1>1. \A line \in {"line", "terminal"} : logged(line)
  BY LoggedTypes DEF Lines
<1>2. CASE TakeRun(run)
  <2>1. OnlyOf(run) /\ runs[run].at # "ended" /\ LogsAtMost(run)
    BY <1>2, <1>0 DEF TakeRun, MainAt, OnlyOf, LogsAtMost
  <2>2. StartsAs(run)
    BY <1>2, <1>0 DEF TakeRun, MainAt, StartsAs, Processes
  <2>3. QED
    BY <2>1, <2>2 DEF Quiet
<1>3. CASE Install(run)
  <2>1. OnlyOf(run) /\ runs[run].at # "ended" /\ LogsAtMost(run)
    BY <1>3, <1>0 DEF Install, MainAt, OnlyOf, LogsAtMost
  <2>2. PICK opens \in BOOLEAN : runs' = [runs EXCEPT ![run].at = "installed", ![run].crashFile = opens]
    BY <1>3 DEF Install
  <2>. DEFINE p == runs[run]
             q == [p EXCEPT !.at = "installed", !.crashFile = opens]
  <2>3. p \in Processes /\ runs'[run] = q
    BY <1>0, <2>2
  <2>4. q.at = "installed" /\ q.frames = p.frames /\ q.reporter = p.reporter
    BY <2>3 DEF Processes
  <2>5. GoesOnAs(run)
    BY <1>3, <2>3, <2>4 DEF Install, MainAt, GoesOnAs, Over
  <2>6. QED
    BY <2>1, <2>5 DEF Quiet
<1>4. CASE BeginRun(run)
  <2>1. OnlyOf(run) /\ runs[run].at # "ended" /\ LogsAtMost(run)
    BY <1>4, <1>0, <1>1 DEF BeginRun, MainAt, OnlyOf, LogsAtMost
  <2>2. PICK opens \in BOOLEAN : runs' = [runs EXCEPT ![run].at = "begun", ![run].sink = opens]
    BY <1>4 DEF BeginRun
  <2>. DEFINE p == runs[run]
             q == [p EXCEPT !.at = "begun", !.sink = opens]
  <2>3. p \in Processes /\ runs'[run] = q
    BY <1>0, <2>2
  <2>4. q.at = "begun" /\ q.frames = p.frames /\ q.reporter = p.reporter /\ q.crashFile = p.crashFile
    BY <2>3 DEF Processes
  <2>5. GoesOnAs(run)
    BY <1>4, <2>3, <2>4 DEF BeginRun, MainAt, GoesOnAs, Over
  <2>6. QED
    BY <2>1, <2>5 DEF Quiet
<1>5. CASE ReportPreviousRun(run)
  <2>1. OnlyOf(run) /\ runs[run].at # "ended" /\ LogsAtMost(run)
    BY <1>5, <1>0, <1>1 DEF ReportPreviousRun, MainAt, OnlyOf, LogsAtMost
  <2>2. GoesOnAs(run)
    BY <1>5, <1>0 DEF ReportPreviousRun, MainAt, GoesOnAs, Processes, Over
  <2>3. QED
    BY <2>1, <2>2 DEF Quiet
<1>6. CASE ScansToPrune(run)
  <2>1. OnlyOf(run) /\ runs[run].at # "ended" /\ LogsAtMost(run)
    BY <1>6, <1>0 DEF ScansToPrune, MainAt, OnlyOf, LogsAtMost
  <2>2. GoesOnAs(run)
    BY <1>6, <1>0 DEF ScansToPrune, MainAt, GoesOnAs, Processes, Over
  <2>3. QED
    BY <2>1, <2>2 DEF Quiet
<1>7. CASE Removes(run)
  <2>1. OnlyOf(run) /\ runs[run].at # "ended" /\ LogsAtMost(run)
    BY <1>7, <1>0, <1>1 DEF Removes, MainAt, OnlyOf, LogsAtMost
  <2>2. GoesOnAs(run)
    BY <1>7, <1>0 DEF Removes, MainAt, GoesOnAs, Processes, Over
  <2>3. QED
    BY <2>1, <2>2 DEF Quiet
<1>8. CASE Execute(run)
  <2>1. OnlyOf(run) /\ runs[run].at # "ended" /\ LogsAtMost(run)
    BY <1>8, <1>0 DEF Execute, MainAt, OnlyOf, LogsAtMost
  <2>2. GoesOnAs(run)
    BY <1>8, <1>0 DEF Execute, MainAt, GoesOnAs, Processes, Over
  <2>3. QED
    BY <2>1, <2>2 DEF Quiet
<1>9. CASE LogsLine(run) \/ DumpsGpu(run)
  <2>1. After(logs[run], "line") \in {logs[run], Append(logs[run], "line")}
    BY <1>0, LogTypes DEF Lines
  <2>2. OnlyOf(run) /\ runs[run].at # "ended" /\ LogsAtMost(run)
    BY <1>9, <1>0, <2>1 DEF LogsLine, DumpsGpu, OnlyOf, LogsAtMost
  <2>3. GoesOnAs(run)
    BY <1>9, <1>0 DEF LogsLine, DumpsGpu, GoesOnAs, Processes, Over
  <2>4. QED
    BY <2>2, <2>3 DEF Quiet
<1>10. CASE Conclude(run)
  <2>1. OnlyOf(run) /\ runs[run].at # "ended" /\ LogsAtMost(run)
    BY <1>10, <1>0, <1>1 DEF Conclude, OnlyOf, LogsAtMost
  <2>2. GoesOnAs(run)
    BY <1>10, <1>0 DEF Conclude, GoesOnAs, Processes, Over
  <2>3. QED
    BY <2>1, <2>2 DEF Quiet
<1>11. CASE ProcessEnds(run) \/ Dies(run)
  BY <1>11, <1>0 DEF ProcessEnds, Dies, Alive, HandlesSignals, Over, OnlyOf, LogsAtMost, EndsAs, Quiet
<1>12. QED
  BY <1>2, <1>3, <1>4, <1>5, <1>6, <1>7, <1>8, <1>9, <1>10, <1>11

-----------------------------------------------------------------------------
(***************************************************************************)
(* What a log says of a crash, and what one more line adds to it.          *)
(***************************************************************************)
LEMMA LinesOfALog ==
  ASSUME NEW log \in Seq(Lines), NEW line
  PROVE  LET places == {i \in DOMAIN log : log[i] = line}
         IN places \in SUBSET (1..Len(log)) /\ IsFiniteSet(places) /\ Cardinality(places) \in Nat
<1>. DEFINE places == {i \in DOMAIN log : log[i] = line}
<1>1. places \in SUBSET (1..Len(log)) /\ Len(log) \in Nat
  OBVIOUS
<1>2. IsFiniteSet(places) /\ Cardinality(places) \in 0..Len(log)
  BY <1>1, PositionsAreFinite
<1>3. QED
  BY <1>1, <1>2

LEMMA OneMoreLine ==
  ASSUME NEW log \in Seq(Lines), NEW added \in Lines, NEW line
  PROVE  LET places == {i \in DOMAIN log : log[i] = line}
             after == {i \in DOMAIN Append(log, added) : Append(log, added)[i] = line}
         IN /\ after = IF line = added THEN places \cup {Len(log) + 1} ELSE places
            /\ line = added => Cardinality(after) = Cardinality(places) + 1
            /\ \A i \in places : i < Len(log) + 1
<1>. DEFINE places == {i \in DOMAIN log : log[i] = line}
            after == {i \in DOMAIN Append(log, added) : Append(log, added)[i] = line}
<1>1. /\ Len(log) \in Nat /\ DOMAIN log = 1..Len(log) /\ DOMAIN Append(log, added) = 1..Len(log) + 1
      /\ \A i \in 1..Len(log) : Append(log, added)[i] = log[i]
      /\ Append(log, added)[Len(log) + 1] = added
  OBVIOUS
<1>2. after = IF line = added THEN places \cup {Len(log) + 1} ELSE places
  <2>1. \A i \in 1..Len(log) + 1 : i \in 1..Len(log) \/ i = Len(log) + 1
    BY <1>1
  <2>2. \A i \in 1..Len(log) : i \in 1..Len(log) + 1
    BY <1>1
  <2>3. Len(log) + 1 \in 1..Len(log) + 1
    BY <1>1
  <2>4. QED
    BY <1>1, <2>1, <2>2, <2>3
<1>3. \A i \in places : i < Len(log) + 1
  BY <1>1
<1>4. IsFiniteSet(places) /\ Len(log) + 1 \notin places
  <2>1. IsFiniteSet(places)
    BY LinesOfALog
  <2>2. \A i \in places : i # Len(log) + 1
    BY <1>1, <1>3
  <2>3. QED
    BY <2>1, <2>2
<1>5. line = added => Cardinality(after) = Cardinality(places) + 1
  BY <1>2, <1>4, FS_AddElement
<1>6. QED
  BY <1>2, <1>3, <1>5

LEMMA HasPlaces == \A run, line : Has(run, line) <=> Places(run, line) # {}
  BY DEF Has, Places

(* A log that is as it was, or has an ordinary line more, tells as much.   *)
LEMMA QuietLines ==
  ASSUME RunFilesTypeOK, NEW run \in Runs, LogsAtMost(run), NEW line \in {"crash", "frame"}
  PROVE  Places(run, line)' = Places(run, line) /\ (Has(run, line)' <=> Has(run, line))
<1>1. logs[run] \in Seq(Lines)
  BY DEF RunFilesTypeOK
<1>2. Places(run, line)' = Places(run, line)
  <2>1. CASE logs'[run] = logs[run]
    BY <2>1 DEF Places
  <2>2. ASSUME NEW added \in {"line", "terminal"}, logs'[run] = Append(logs[run], added)
        PROVE  Places(run, line)' = Places(run, line)
    <3>1. added \in Lines /\ line # added
      BY DEF Lines
    <3>2. QED
      BY <1>1, <2>2, <3>1, OneMoreLine DEF Places
  <2>3. QED
    BY <2>1, <2>2 DEF LogsAtMost
<1>3. QED
  BY <1>2, HasPlaces DEF Has, Places

LEMMA QuietKeepsCrashInv ==
  ASSUME RunFilesTypeOK, CrashInv, NEW run \in Runs, Quiet(run)
  PROVE  CrashInv'
<1>1. ASSUME NEW r \in Runs PROVE (WritesOfACrash(r) /\ OneReportOf(r))'
  <2>0. WritesOfACrash(r) /\ OneReportOf(r)
    BY DEF CrashInv
  <2>1. CASE r # run
    <3>1. runs'[r] = runs[r] /\ logs'[r] = logs[r]
      BY <2>1 DEF Quiet, OnlyOf
    <3>2. QED
      BY <2>0, <3>1 DEF WritesOfACrash, OneReportOf, Places, Has
  <2>2. CASE r = run
    <3>1. \A line \in {"crash", "frame"} :
            Places(run, line)' = Places(run, line) /\ (Has(run, line)' <=> Has(run, line))
      BY QuietLines DEF Quiet
    <3>2. OneReportOf(run)'
      BY <2>0, <2>2, <3>1 DEF OneReportOf
    <3>3. CASE EndsAs(run)
      <4>1. runs'[run].at = "ended" /\ runs'[run].frames = 0 /\ runs'[run].reporter = "none"
        BY <3>3 DEF EndsAs, NotTaken
      <4>2. QED
        BY <2>2, <3>2, <4>1, RunFilesAssumption DEF WritesOfACrash
    <3>4. CASE GoesOnAs(run)
      BY <2>0, <2>2, <3>1, <3>2, <3>4 DEF WritesOfACrash, GoesOnAs, Quiet, Over
    <3>5. CASE StartsAs(run)
      BY <2>0, <2>2, <3>1, <3>2, <3>5 DEF WritesOfACrash, StartsAs, Quiet, Over
    <3>6. QED
      BY <3>3, <3>4, <3>5 DEF Quiet
  <2>3. QED
    BY <2>1, <2>2
<1>2. QED
  BY <1>1 DEF CrashInv

(* A thread that reports a crash writes the first and only one.            *)
LEMMA SignalKeepsCrashInv ==
  ASSUME RunFilesTypeOK, CrashInv, NEW run \in Runs, NEW thread \in Threads, WriteSignalLines(run, thread)
  PROVE  CrashInv' /\ OnlyOf(run) /\ runs[run].at # "ended"
<1>0. runs \in [Runs -> Processes] /\ logs \in [Runs -> Seq(Lines)] /\ logs[run] \in Seq(Lines) /\ "crash" \in Lines
  BY DEF RunFilesTypeOK, Lines
<1>1. /\ runs[run].reporter = "none" /\ runs[run].at \notin Over \cup {"taken"} /\ thread # "none"
      /\ runs' = [runs EXCEPT ![run].reporter = thread] /\ logs' = WriteLine(run, "crash")
  BY DEF WriteSignalLines, HandlesSignals, MayReport, Threads
<1>2. /\ \A r \in Runs : r # run => logs'[r] = logs[r]
      /\ logs'[run] = IF runs[run].crashFile THEN Append(logs[run], "crash") ELSE logs[run]
  BY <1>0, <1>1, WriteLineTypes
<1>3. OnlyOf(run) /\ runs[run].at # "ended"
  BY <1>0, <1>1, <1>2 DEF OnlyOf, Over
<1>4. /\ runs'[run].reporter = thread /\ runs'[run].at = runs[run].at /\ runs'[run].frames = runs[run].frames
      /\ runs'[run].crashFile = runs[run].crashFile
  BY <1>0, <1>1 DEF Processes
<1>5. WritesOfACrash(run) /\ OneReportOf(run)
  BY DEF CrashInv
<1>6. Places(run, "crash") = {} /\ Places(run, "frame") = {} /\ runs[run].frames = 0
  BY <1>1, <1>3, <1>5, HasPlaces DEF WritesOfACrash
<1>7. Places(run, "frame")' = {}
  BY <1>0, <1>2, <1>6, OneMoreLine DEF Places
<1>8. /\ Places(run, "crash")' = IF runs[run].crashFile THEN {Len(logs[run]) + 1} ELSE {}
  BY <1>0, <1>2, <1>6, OneMoreLine DEF Places
<1>9. Cardinality({}) = 0 /\ Cardinality({Len(logs[run]) + 1}) = 1
  BY FS_EmptySet, FS_Singleton
<1>10. Frames \in Nat
  BY RunFilesAssumption
<1>11. /\ Cardinality(Places(run, "crash")') \in {0, 1}
       /\ Cardinality(Places(run, "frame")') = 0
  <2>1. Places(run, "crash")' = {Len(logs[run]) + 1} \/ Places(run, "crash")' = {}
    BY <1>8
  <2>2. Cardinality(Places(run, "crash")') = 1 \/ Cardinality(Places(run, "crash")') = 0
    BY <1>9, <2>1, Zenon
  <2>3. Cardinality(Places(run, "frame")') = 0
    BY <1>7, <1>9, Zenon
  <2>4. QED
    BY <2>2, <2>3
<1>12. OneReportOf(run)'
  <2>1. Cardinality(Places(run, "crash")') <= 1
    BY <1>11
  <2>2. Cardinality(Places(run, "frame")') <= Frames
    BY <1>11, <1>10
  <2>3. QED
    BY <1>7, <2>1, <2>2 DEF OneReportOf
<1>13. runs[run].crashFile => Has(run, "crash")'
  BY <1>8 DEF Has, Places
<1>14. WritesOfACrash(run)'
  <2>1. runs'[run].frames = 0 /\ runs'[run].reporter # "none" /\ runs'[run].at \notin Over \cup {"taken"}
    BY <1>1, <1>4, <1>6
  <2>2. runs'[run].frames <= Frames /\ Cardinality(Places(run, "frame")') <= runs'[run].frames
    BY <1>11, <1>10, <2>1
  <2>3. runs'[run].crashFile => Has(run, "crash")'
    BY <1>4, <1>13
  <2>4. QED
    BY <2>1, <2>2, <2>3 DEF WritesOfACrash
<1>15. ASSUME NEW r \in Runs, r # run PROVE (WritesOfACrash(r) /\ OneReportOf(r))'
  <2>1. runs'[r] = runs[r] /\ logs'[r] = logs[r] /\ WritesOfACrash(r) /\ OneReportOf(r)
    BY <1>3, <1>15 DEF OnlyOf, CrashInv
  <2>2. QED
    BY <2>1 DEF WritesOfACrash, OneReportOf, Places, Has
<1>16. QED
  BY <1>3, <1>12, <1>14, <1>15 DEF CrashInv

(* Its frames come after it, and are counted. *)
LEMMA FrameKeepsCrashInv ==
  ASSUME RunFilesTypeOK, CrashInv, NEW run \in Runs, WriteFrameLine(run)
  PROVE  CrashInv' /\ OnlyOf(run) /\ runs[run].at # "ended"
<1>0. /\ runs \in [Runs -> Processes] /\ logs \in [Runs -> Seq(Lines)] /\ logs[run] \in Seq(Lines)
      /\ "frame" \in Lines /\ runs[run].frames \in Nat
  BY DEF RunFilesTypeOK, Lines, Processes
<1>1. /\ runs[run].reporter # "none" /\ runs[run].at \notin Over \cup {"taken"} /\ runs[run].frames < Frames
      /\ runs' = [runs EXCEPT ![run].frames = @ + 1] /\ logs' = WriteLine(run, "frame")
  BY DEF WriteFrameLine, HandlesSignals
<1>2. /\ \A r \in Runs : r # run => logs'[r] = logs[r]
      /\ logs'[run] = IF runs[run].crashFile THEN Append(logs[run], "frame") ELSE logs[run]
  BY <1>0, <1>1, WriteLineTypes
<1>3. OnlyOf(run) /\ runs[run].at # "ended"
  BY <1>0, <1>1, <1>2 DEF OnlyOf, Over
<1>4. /\ runs'[run].reporter = runs[run].reporter /\ runs'[run].at = runs[run].at
      /\ runs'[run].frames = runs[run].frames + 1 /\ runs'[run].crashFile = runs[run].crashFile
  BY <1>0, <1>1 DEF Processes
<1>5. WritesOfACrash(run) /\ OneReportOf(run)
  BY DEF CrashInv
<1>6. Places(run, "crash")' = Places(run, "crash") /\ (Has(run, "crash")' <=> Has(run, "crash"))
  <2>1. Places(run, "crash")' = Places(run, "crash")
    BY <1>0, <1>2, OneMoreLine DEF Places
  <2>2. QED
    BY <2>1 DEF Has, Places
<1>7. /\ Places(run, "frame")' = IF runs[run].crashFile THEN Places(run, "frame") \cup {Len(logs[run]) + 1}
                                 ELSE Places(run, "frame")
      /\ Cardinality(Places(run, "frame")') = Cardinality(Places(run, "frame"))
                                              + (IF runs[run].crashFile THEN 1 ELSE 0)
      /\ \A i \in Places(run, "crash") : i < Len(logs[run]) + 1
  <2>1. Cardinality(Places(run, "frame")) \in Nat
    BY <1>0, LinesOfALog DEF Places
  <2>2. CASE runs[run].crashFile
    <3>1. logs'[run] = Append(logs[run], "frame")
      BY <1>2, <2>2
    <3>2. /\ Places(run, "frame")' = Places(run, "frame") \cup {Len(logs[run]) + 1}
          /\ Cardinality(Places(run, "frame")') = Cardinality(Places(run, "frame")) + 1
      <4>. DEFINE log == logs[run]
      <4>1. \A line \in {"frame"} :
              {i \in DOMAIN Append(log, "frame") : Append(log, "frame")[i] = line}
                = {i \in DOMAIN log : log[i] = line} \cup {Len(log) + 1}
            /\ Cardinality({i \in DOMAIN Append(log, "frame") : Append(log, "frame")[i] = line})
                = Cardinality({i \in DOMAIN log : log[i] = line}) + 1
        BY ZenonT(60), <1>0, OneMoreLine
      <4>2. /\ Places(run, "frame") = {i \in DOMAIN log : log[i] = "frame"}
            /\ Places(run, "frame")' = {i \in DOMAIN Append(log, "frame") : Append(log, "frame")[i] = "frame"}
        BY <3>1 DEF Places
      <4>3. QED
        BY <4>1, <4>2, Zenon
    <3>3. \A i \in Places(run, "crash") : i < Len(logs[run]) + 1
      BY <1>0, OneMoreLine DEF Places
    <3>4. QED
      BY <2>2, <3>2, <3>3
  <2>3. CASE ~runs[run].crashFile
    <3>1. Places(run, "frame")' = Places(run, "frame")
      BY <1>2, <2>3 DEF Places
    <3>2. \A i \in Places(run, "crash") : i < Len(logs[run]) + 1
      BY <1>0 DEF Places
    <3>3. QED
      BY <2>1, <2>3, <3>1, <3>2
  <2>4. QED
    BY <2>2, <2>3
<1>8. Cardinality(Places(run, "frame")) <= runs[run].frames /\ Cardinality(Places(run, "frame")) \in Nat
  BY <1>0, <1>3, <1>5, LinesOfALog DEF WritesOfACrash, Places
<1>9. Frames \in Nat
  BY RunFilesAssumption
<1>10. Cardinality(Places(run, "frame"))' <= runs[run].frames + 1 /\ runs[run].frames + 1 <= Frames
  BY <1>0, <1>1, <1>7, <1>8, <1>9
<1>11. runs[run].crashFile => \E j \in Places(run, "crash") : j < Len(logs[run]) + 1
  BY <1>1, <1>5, <1>7, HasPlaces DEF WritesOfACrash
<1>12. OneReportOf(run)'
  <2>1. Cardinality(Places(run, "crash"))' <= 1
    BY <1>5, <1>6 DEF OneReportOf
  <2>2. Cardinality(Places(run, "frame"))' <= Frames
    BY <1>7, <1>8, <1>0, <1>9, <1>10
  <2>3. \A i \in Places(run, "frame")' : \E j \in Places(run, "crash")' : j < i
    BY <1>5, <1>6, <1>7, <1>11 DEF OneReportOf
  <2>4. QED
    BY <2>1, <2>2, <2>3 DEF OneReportOf
<1>13. WritesOfACrash(run)'
  BY <1>1, <1>4, <1>5, <1>6, <1>10 DEF WritesOfACrash, Over
<1>14. ASSUME NEW r \in Runs, r # run PROVE (WritesOfACrash(r) /\ OneReportOf(r))'
  <2>1. runs'[r] = runs[r] /\ logs'[r] = logs[r] /\ WritesOfACrash(r) /\ OneReportOf(r)
    BY <1>3, <1>14 DEF OnlyOf, CrashInv
  <2>2. QED
    BY <2>1 DEF WritesOfACrash, OneReportOf, Places, Has
<1>15. QED
  BY <1>3, <1>12, <1>13, <1>14 DEF CrashInv

-----------------------------------------------------------------------------
(***************************************************************************)
(* Whatever a step does: one Run's, it leaves none taken untaken, no line  *)
(* of a log is taken back, and a log is as it was once its Run is over.    *)
(***************************************************************************)
LEMMA EveryStep ==
  ASSUME RunFilesTypeOK, CrashInv, NEW run \in Runs, StepOf(run)
  PROVE  /\ CrashInv' /\ OnlyOf(run)
         /\ \A r \in Runs : runs[r].at = "ended" => runs'[r] = runs[r] /\ logs'[r] = logs[r]
         /\ \A r \in Runs : Has(r, "crash") => Has(r, "crash")'
         /\ runs'[run].at # "none"
<1>0. logs \in [Runs -> Seq(Lines)] /\ runs \in [Runs -> Processes]
  BY DEF RunFilesTypeOK
<1>1. CASE Quiet(run)
  <2>1. CrashInv' /\ OnlyOf(run) /\ runs[run].at # "ended"
    BY <1>1, QuietKeepsCrashInv DEF Quiet
  <2>2. Has(run, "crash")' <=> Has(run, "crash")
    BY <1>1, QuietLines DEF Quiet
  <2>3. runs'[run].at # "none"
    BY <1>1 DEF Quiet, EndsAs, GoesOnAs, StartsAs, NotTaken, Over
  <2>4. QED
    BY <2>1, <2>2, <2>3 DEF OnlyOf, Has
<1>2. ASSUME NEW thread \in Threads, WriteSignalLines(run, thread)
      PROVE  /\ CrashInv' /\ OnlyOf(run) /\ runs[run].at # "ended"
             /\ Has(run, "crash") => Has(run, "crash")'
             /\ runs'[run].at # "none"
  <2>1. CrashInv' /\ OnlyOf(run) /\ runs[run].at # "ended"
    BY <1>2, SignalKeepsCrashInv
  <2>2. ~Has(run, "crash")
    BY <1>2, <2>1 DEF CrashInv, WritesOfACrash, WriteSignalLines, MayReport
  <2>3. runs'[run].at # "none"
    BY <1>0, <1>2 DEF WriteSignalLines, HandlesSignals, Over, Processes
  <2>4. QED
    BY <2>1, <2>2, <2>3
<1>3. CASE WriteFrameLine(run)
  <2>1. CrashInv' /\ OnlyOf(run) /\ runs[run].at # "ended"
    BY <1>3, FrameKeepsCrashInv
  <2>2. logs'[run] = logs[run] \/ logs'[run] = Append(logs[run], "frame")
    BY <1>3, WriteLineTypes DEF WriteFrameLine, Lines
  <2>3. Places(run, "crash")' = Places(run, "crash")
    BY <1>0, <2>2, OneMoreLine DEF Places, Lines
  <2>4. Has(run, "crash") => Has(run, "crash")'
    BY <2>3 DEF Has, Places
  <2>5. runs'[run].at # "none"
    BY <1>0, <1>3 DEF WriteFrameLine, HandlesSignals, Over, Processes
  <2>6. QED
    BY <2>1, <2>4, <2>5 DEF OnlyOf, Has
<1>4. QED
  BY <1>1, <1>2, <1>3, QuietSteps DEF StepOf, OnlyOf, Has

LEMMA RunsAreFinite ==
  ASSUME NEW later \in SUBSET Runs
  PROVE  IsFiniteSet(later) /\ Cardinality(later) \in Nat
         /\ \A some \in SUBSET later : Cardinality(some) <= Cardinality(later) /\ Cardinality(some) \in Nat
<1>1. MaxRuns \in Nat
  BY RunFilesAssumption
<1>2. IsFiniteSet(Runs)
  BY <1>1, FS_Interval DEF Runs
<1>3. IsFiniteSet(later)
  BY <1>2, FS_Subset
<1>4. ASSUME NEW some \in SUBSET later
      PROVE  Cardinality(some) <= Cardinality(later) /\ Cardinality(some) \in Nat
  BY <1>3, FS_Subset, FS_CardinalityType
<1>5. QED
  BY <1>3, <1>4, FS_CardinalityType

(* A Run once taken stays so: what enough have followed, they have. *)
LEMMA TakenStays ==
  ASSUME RunFilesTypeOK, CrashInv, NEW run \in Runs, StepOf(run)
  PROVE  \A r \in Runs : (IsTaken(r) => IsTaken(r)') /\ (Superseded(r) => Superseded(r)')
<1>1. \A r \in Runs : IsTaken(r) => IsTaken(r)'
  BY EveryStep DEF OnlyOf, IsTaken
<1>2. ASSUME NEW r \in Runs, Superseded(r) PROVE Superseded(r)'
  <2>1. TakenAfter(r) \in SUBSET TakenAfter(r)' /\ TakenAfter(r)' \in SUBSET Runs
    BY <1>1 DEF TakenAfter
  <2>2. /\ Cardinality(TakenAfter(r)) <= Cardinality(TakenAfter(r)') /\ Cardinality(TakenAfter(r)) \in Nat
        /\ Cardinality(TakenAfter(r)') \in Nat
    BY <2>1, RunsAreFinite
  <2>3. KeptRuns \in Nat
    BY RunFilesAssumption
  <2>4. Cardinality(TakenAfter(r)') >= KeptRuns
    BY <1>2, <2>2, <2>3 DEF Superseded
  <2>5. QED
    BY <2>4 DEF Superseded
<1>3. QED
  BY <1>1, <1>2

(* What is pruned, enough have followed: those that left a file were taken. *)
LEMMA PrunedIsSuperseded ==
  ASSUME RunFilesTypeOK, FilesInv, NEW run \in Runs, NEW old \in Pruned(run)
  PROVE  old \in Runs /\ Superseded(old)
<1>. DEFINE newer == {r \in ScanRuns : r > old}
<1>1. ScanRuns \subseteq Runs /\ \A r \in ScanRuns : IsTaken(r)
  BY DEF ScanRuns, RunFilesTypeOK, Files, FilesInv
<1>2. old \in Runs /\ Cardinality(newer) >= KeptRuns
  BY <1>1 DEF Pruned
<1>3. newer \in SUBSET TakenAfter(old) /\ TakenAfter(old) \in SUBSET Runs
  BY <1>1 DEF TakenAfter
<1>4. /\ Cardinality(newer) <= Cardinality(TakenAfter(old)) /\ Cardinality(newer) \in Nat
      /\ Cardinality(TakenAfter(old)) \in Nat
  BY <1>3, RunsAreFinite
<1>5. KeptRuns \in Nat
  BY RunFilesAssumption
<1>6. QED
  BY <1>2, <1>4, <1>5 DEF Superseded

(***************************************************************************)
(* What each step does to the files: a Run may make one of its own, delete *)
(* one of those it found too old, or mark such to be deleted.              *)
(***************************************************************************)
Makes(run) ==
  /\ files' \in {files, files \cup {Log(run)}, files \cup {Dump(run)}} /\ deleted' = deleted
  /\ runs'[run].doomed \subseteq runs[run].doomed
  /\ runs'[run].crashFile => runs[run].crashFile \/ Log(run) \in files'

Marks(run) ==
  /\ UNCHANGED <<files, deleted>>
  /\ runs'[run].doomed = {file \in files : file.run \in Pruned(run)}
  /\ runs'[run].crashFile = runs[run].crashFile

Deletes(run) ==
  /\ \E file \in runs[run].doomed :
       /\ files' \in {files, files \ {file}}
       /\ deleted' = IF file \in files /\ file \notin files' THEN deleted \cup {file.run} ELSE deleted
  /\ runs'[run].doomed \subseteq runs[run].doomed
  /\ runs'[run].crashFile = runs[run].crashFile

LEMMA FileSteps ==
  ASSUME RunFilesTypeOK, NEW run \in Runs, StepOf(run)
  PROVE  /\ Makes(run) \/ Marks(run) \/ Deletes(run)
         /\ crashed' = crashed \/ (Dies(run) /\ crashed' = crashed \cup {run} /\ runs[run].crashFile)
         /\ IsTaken(run) \/ files' = files
<1>0. runs \in [Runs -> Processes]
  BY DEF RunFilesTypeOK
<1>1. CASE TakeRun(run) \/ Execute(run)
  BY <1>0, <1>1 DEF TakeRun, Execute, MainAt, Makes, Processes
<1>2. CASE Install(run) \/ BeginRun(run)
  BY <1>0, <1>2 DEF Install, BeginRun, MainAt, Makes, Processes, IsTaken
<1>3. CASE ReportPreviousRun(run)
  BY <1>0, <1>3 DEF ReportPreviousRun, MainAt, Makes, Processes
<1>4. CASE ScansToPrune(run)
  BY <1>0, <1>4 DEF ScansToPrune, Marks, Processes
<1>5. CASE Removes(run)
  <2>1. IsTaken(run) /\ crashed' = crashed
    BY <1>5 DEF Removes, MainAt, IsTaken
  <2>2. PICK file \in runs[run].doomed, gone \in BOOLEAN :
          /\ runs' = [runs EXCEPT ![run].doomed = @ \ {file}]
          /\ files' = IF gone THEN files \ {file} ELSE files
          /\ deleted' = IF gone /\ file \in files THEN deleted \cup {file.run} ELSE deleted
    BY <1>5 DEF Removes
  <2>3. runs'[run].doomed \subseteq runs[run].doomed /\ runs'[run].crashFile = runs[run].crashFile
    BY <1>0, <2>2 DEF Processes
  <2>4. /\ files' \in {files, files \ {file}}
        /\ deleted' = IF file \in files /\ file \notin files' THEN deleted \cup {file.run} ELSE deleted
    BY <2>2
  <2>5. QED
    BY <2>1, <2>3, <2>4 DEF Deletes
<1>6. CASE LogsLine(run)
  BY <1>0, <1>6 DEF LogsLine, Makes
<1>7. CASE DumpsGpu(run) \/ Conclude(run)
  BY <1>0, <1>7 DEF DumpsGpu, Conclude, Makes, Processes, IsTaken
<1>8. CASE ProcessEnds(run) \/ Dies(run)
  <2>1. runs'[run].doomed = {} /\ runs'[run].crashFile = FALSE
    BY <1>0, <1>8 DEF ProcessEnds, Dies, NotTaken
  <2>2. QED
    BY <1>8, <2>1 DEF ProcessEnds, Dies, Makes
<1>9. CASE (\E thread \in Threads : WriteSignalLines(run, thread)) \/ WriteFrameLine(run)
  BY <1>0, <1>9 DEF WriteSignalLines, WriteFrameLine, Makes, Processes
<1>10. QED
  BY <1>1, <1>2, <1>3, <1>4, <1>5, <1>6, <1>7, <1>8, <1>9 DEF StepOf

LEMMA FilesStep ==
  ASSUME RunFilesTypeOK, CrashInv, FilesInv, NEW run \in Runs, StepOf(run)
  PROVE  FilesInv'
<1>0. /\ runs \in [Runs -> Processes] /\ files \in SUBSET Files /\ crashed \in SUBSET Runs
      /\ \A r \in Runs : runs[r].doomed \in SUBSET Files
      /\ \A file \in Files : file.run \in Runs
  BY DEF RunFilesTypeOK, Processes, Files
<1>1. OnlyOf(run) /\ \A r \in Runs : (IsTaken(r) => IsTaken(r)') /\ (Superseded(r) => Superseded(r)')
  BY EveryStep, TakenStays
<1>2. /\ Makes(run) \/ Marks(run) \/ Deletes(run)
      /\ crashed' = crashed \/ (crashed' = crashed \cup {run} /\ runs[run].crashFile)
      /\ IsTaken(run) \/ files' = files
  BY FileSteps
<1>3. Log(run).run = run /\ Dump(run).run = run
  BY DEF Log, Dump
<1>4. \A file \in files' : file \in files \/ (file.run = run /\ IsTaken(run))
  BY <1>2, <1>3 DEF Makes, Marks, Deletes
<1>5. \A file \in files' : IsTaken(file.run)'
  BY <1>0, <1>1, <1>4 DEF FilesInv
<1>6. \A file \in runs'[run].doomed : file.run \in Runs /\ Superseded(file.run)
  <2>1. CASE runs'[run].doomed \subseteq runs[run].doomed
    BY <2>1, <1>0 DEF FilesInv
  <2>2. CASE Marks(run)
    BY <2>2, <1>0, PrunedIsSuperseded DEF Marks
  <2>3. QED
    BY <1>2, <2>1, <2>2 DEF Makes, Deletes
<1>7. \A r \in Runs : \A file \in runs'[r].doomed : file.run \in Runs /\ Superseded(file.run)
  BY <1>0, <1>1, <1>6 DEF OnlyOf, FilesInv
<1>8. \A r \in Runs : \A file \in runs'[r].doomed : Superseded(file.run)'
  BY <1>1, <1>7
<1>9. \A r \in Runs : Log(r) \in files \/ r \in deleted => Log(r) \in files' \/ r \in deleted'
  <2>1. CASE Makes(run) \/ Marks(run)
    BY <2>1 DEF Makes, Marks
  <2>2. CASE Deletes(run)
    <3>1. PICK file \in runs[run].doomed :
            /\ files' \in {files, files \ {file}}
            /\ deleted' = IF file \in files /\ file \notin files' THEN deleted \cup {file.run} ELSE deleted
      BY <2>2 DEF Deletes
    <3>2. ASSUME NEW r \in Runs, Log(r) \in files, Log(r) \notin files' PROVE r \in deleted'
      <4>1. file = Log(r)
        BY <3>1, <3>2
      <4>2. file.run = r
        BY <4>1 DEF Log
      <4>3. QED
        BY <3>1, <3>2, <4>1, <4>2
    <3>3. deleted \subseteq deleted'
      BY <3>1
    <3>4. QED
      BY <3>2, <3>3
  <2>3. QED
    BY <1>2, <2>1, <2>2
<1>10. ASSUME NEW r \in Runs, runs'[r].crashFile \/ r \in crashed'
       PROVE  Log(r) \in files' \/ r \in deleted'
  <2>1. CASE runs[r].crashFile \/ r \in crashed
    BY <1>9, <2>1 DEF FilesInv
  <2>2. CASE ~(runs[r].crashFile \/ r \in crashed)
    <3>1. r = run
      BY <1>1, <1>2, <1>10, <2>2 DEF OnlyOf
    <3>2. runs'[run].crashFile /\ ~runs[run].crashFile
      BY <1>2, <1>10, <2>2, <3>1
    <3>3. QED
      BY <1>2, <3>1, <3>2 DEF Makes, Marks, Deletes
  <2>3. QED
    BY <2>1, <2>2
<1>11. QED
  BY <1>5, <1>8, <1>10 DEF FilesInv

-----------------------------------------------------------------------------
(* A log that ends as of a crash tells of one: no frame without it. *)
LEMMA EndOfACrash ==
  ASSUME RunFilesTypeOK, CrashInv, NEW run \in Runs, ReadRunEnd(run) = "crash"
  PROVE  Has(run, "crash")
<1>1. logs[run] \in Seq(Lines) /\ logs[run] # <<>>
  BY DEF RunFilesTypeOK, ReadRunEnd
<1>. DEFINE last == Len(logs[run])
<1>2. last \in DOMAIN logs[run]
  BY <1>1
<1>3. logs[run][last] \in {"crash", "frame"}
  BY <1>1 DEF ReadRunEnd
<1>4. OneReportOf(run)
  BY DEF CrashInv
<1>5. CASE logs[run][last] = "frame"
  <2>1. last \in Places(run, "frame")
    BY <1>2, <1>5 DEF Places
  <2>2. Places(run, "crash") # {}
    BY <1>4, <2>1 DEF OneReportOf
  <2>3. QED
    BY <2>2, HasPlaces
<1>6. QED
  BY <1>2, <1>3, <1>5 DEF Has

LEMMA CrashedStep ==
  ASSUME RunFilesTypeOK, CrashInv, CrashedInv, NEW run \in Runs, StepOf(run)
  PROVE  CrashedInv'
<1>0. runs \in [Runs -> Processes] /\ crashed \in SUBSET Runs
  BY DEF RunFilesTypeOK
<1>1. /\ \A r \in Runs : runs[r].at = "ended" => runs'[r] = runs[r]
      /\ \A r \in Runs : Has(r, "crash") => Has(r, "crash")'
  BY EveryStep
<1>2. \A r \in crashed : runs'[r].at = "ended" /\ Has(r, "crash")'
  BY <1>0, <1>1 DEF CrashedInv
<1>3. ASSUME Dies(run), runs[run].crashFile PROVE runs'[run].at = "ended" /\ Has(run, "crash")'
  <2>1. runs'[run].at = "ended"
    BY <1>0, <1>3 DEF Dies, NotTaken
  <2>2. Has(run, "crash")
    BY <1>3 DEF Dies, CrashInv, WritesOfACrash
  <2>3. QED
    BY <1>1, <2>1, <2>2
<1>4. crashed' = crashed \/ (Dies(run) /\ crashed' = crashed \cup {run} /\ runs[run].crashFile)
  BY FileSteps
<1>5. \A r \in crashed' : runs'[r].at = "ended" /\ Has(r, "crash")'
  BY <1>2, <1>3, <1>4
<1>6. missed' \subseteq crashed'
  <2>1. missed' \subseteq missed \cup crashed
    BY DEF StepOf, TakeRun, Install, BeginRun, ReportPreviousRun, ScansToPrune, Removes, Execute, LogsLine,
           DumpsGpu, Conclude, ProcessEnds, WriteSignalLines, WriteFrameLine, Dies
  <2>2. QED
    BY <1>4, <2>1 DEF CrashedInv
<1>7. QED
  BY <1>5, <1>6 DEF CrashedInv

LEMMA ToldSteps ==
  ASSUME RunFilesTypeOK, NEW run \in Runs, StepOf(run), ~ReportPreviousRun(run)
  PROVE  runs'[run].told = runs[run].told /\ missed' = missed
<1>0. runs \in [Runs -> Processes]
  BY DEF RunFilesTypeOK
<1>1. CASE TakeRun(run) \/ Install(run) \/ BeginRun(run) \/ ScansToPrune(run) \/ Removes(run)
  BY <1>0, <1>1 DEF TakeRun, Install, BeginRun, ScansToPrune, Removes, Processes
<1>2. CASE Execute(run) \/ LogsLine(run) \/ DumpsGpu(run) \/ Conclude(run)
  BY <1>0, <1>2 DEF Execute, LogsLine, DumpsGpu, Conclude, Processes
<1>3. CASE ProcessEnds(run) \/ Dies(run)
  BY <1>0, <1>3 DEF ProcessEnds, Dies, NotTaken
<1>4. CASE (\E thread \in Threads : WriteSignalLines(run, thread)) \/ WriteFrameLine(run)
  BY <1>0, <1>4 DEF WriteSignalLines, WriteFrameLine, Processes
<1>5. QED
  BY <1>1, <1>2, <1>3, <1>4 DEF StepOf

(* Of a crash a player is told of. *)
LEMMA CountsToldStep ==
  ASSUME RunFilesTypeOK, CrashInv, ToldOfACrash, NEW run \in Runs, StepOf(run)
  PROVE  ToldOfACrash'
<1>0. MaxRuns \in Nat /\ Runs = 1..MaxRuns /\ runs \in [Runs -> Processes]
  BY RunFilesAssumption DEF Runs, RunFilesTypeOK
<1>1. OnlyOf(run) /\ \A r \in Runs : Has(r, "crash") => Has(r, "crash")'
  BY EveryStep
<1>2. ASSUME NEW r \in Runs, runs'[r].told # 0
      PROVE  runs'[r].told \in Runs /\ runs'[r].told < r /\ Has(runs'[r].told, "crash")
  <2>1. CASE runs'[r].told = runs[r].told
    <3>1. runs[r].told \in Nat
      BY <1>0 DEF Processes
    <3>2. runs[r].told < r /\ Has(runs[r].told, "crash")
      BY <1>2, <2>1 DEF ToldOfACrash
    <3>3. QED
      BY <1>0, <1>2, <2>1, <3>1, <3>2
  <2>2. CASE runs'[r].told # runs[r].told
    <3>1. r = run /\ ReportPreviousRun(run)
      BY <1>1, <2>2, ToldSteps DEF OnlyOf
    <3>. DEFINE previous == FindPreviousRun(run)
    <3>2. runs'[run].told = IF previous # 0 /\ ReadRunEnd(previous) = "crash" THEN previous ELSE 0
      BY <1>0, <3>1 DEF ReportPreviousRun, Processes
    <3>3. previous # 0 /\ ReadRunEnd(previous) = "crash" /\ runs'[run].told = previous
      BY <1>2, <3>1, <3>2
    <3>4. previous \in ScanRuns /\ previous < run
      BY <3>3, PreviousRun
    <3>5. previous \in Runs
      BY <3>4 DEF ScanRuns, RunFilesTypeOK, Files
    <3>6. Has(previous, "crash")
      BY <3>3, <3>5, EndOfACrash
    <3>7. QED
      BY <3>1, <3>3, <3>4, <3>5, <3>6
  <2>3. QED
    BY <2>1, <2>2
<1>3. ASSUME NEW r \in Runs, runs'[r].told # 0
      PROVE  runs'[r].told < r /\ \E i \in DOMAIN logs'[runs'[r].told] : logs'[runs'[r].told][i] = "crash"
  <2>1. PICK told \in Runs : told = runs'[r].told
    BY <1>2, <1>3
  <2>2. told < r /\ Has(told, "crash")
    BY <1>2, <1>3, <2>1
  <2>3. Has(told, "crash")'
    BY <1>1, <2>2
  <2>4. QED
    BY <2>1, <2>2, <2>3 DEF Has
<1>4. QED
  BY <1>3 DEF ToldOfACrash, Has

(* A crash of the Run before one is missed only for its log's sake. *)
LEMMA MissedStep ==
  ASSUME RunFilesTypeOK, CrashInv, FilesInv, CrashedInv, CrashesAreTold, NEW run \in Runs, StepOf(run)
  PROVE  CrashesAreTold'
<1>0. MaxRuns \in Nat /\ Runs = 1..MaxRuns /\ runs \in [Runs -> Processes] /\ crashed \in SUBSET Runs
  BY RunFilesAssumption DEF Runs, RunFilesTypeOK
<1>1. \A r \in crashed : logs'[r] = logs[r]
  BY <1>0, EveryStep DEF CrashedInv
<1>2. deleted \subseteq deleted'
  BY FileSteps DEF Makes, Marks, Deletes
<1>3. ASSUME NEW r \in missed
      PROVE  logs'[r][Len(logs'[r])] \notin {"crash", "frame"} \/ r \in deleted'
  BY <1>1, <1>2 DEF CrashedInv, CrashesAreTold
<1>4. ASSUME ReportPreviousRun(run), NEW r \in missed', r \notin missed
      PROVE  logs'[r][Len(logs'[r])] \notin {"crash", "frame"} \/ r \in deleted'
  <2>. DEFINE previous == FindPreviousRun(run)
  <2>1. r = run - 1 /\ r \in crashed /\ r # runs'[run].told
    BY <1>4 DEF ReportPreviousRun
  <2>2. runs'[run].told = IF previous # 0 /\ ReadRunEnd(previous) = "crash" THEN previous ELSE 0
    BY <1>0, <1>4 DEF ReportPreviousRun, Processes
  <2>3. CASE Log(r) \in files
    <3>1. r \in ScanRuns
      BY <2>3 DEF ScanRuns, Log
    <3>2. r < run /\ r \in Nat /\ r # 0
      BY <1>0, <2>1
    <3>3. r <= previous /\ previous \in Nat /\ (previous # 0 => previous < run)
      BY <3>1, <3>2, PreviousRun
    <3>4. previous = r
      BY <1>0, <2>1, <3>2, <3>3
    <3>5. ReadRunEnd(r) # "crash"
      BY <2>1, <2>2, <3>2, <3>4
    <3>6. Has(r, "crash")
      BY <2>1 DEF CrashedInv
    <3>7. logs[r] # <<>>
      BY <3>6 DEF Has
    <3>8. logs[r][Len(logs[r])] \notin {"crash", "frame"}
      BY <2>3, <3>5, <3>7 DEF ReadRunEnd
    <3>9. QED
      BY <1>1, <2>1, <3>8
  <2>4. CASE Log(r) \notin files
    BY <1>0, <1>2, <2>1, <2>4 DEF FilesInv
  <2>5. QED
    BY <2>3, <2>4
<1>5. QED
  BY <1>3, <1>4, ToldSteps DEF CrashesAreTold

LEMMA DeletedStep ==
  ASSUME RunFilesTypeOK, CrashInv, FilesInv, NewestAreKept, NEW run \in Runs, StepOf(run)
  PROVE  NewestAreKept'
<1>0. /\ deleted \in SUBSET Runs /\ \A r \in Runs : runs[r].doomed \in SUBSET Files
      /\ \A file \in Files : file.run \in Runs
  BY DEF RunFilesTypeOK, Processes, Files
<1>1. \A r \in deleted : Superseded(r)
  BY DEF NewestAreKept, Superseded, TakenAfter
<1>2. \A r \in deleted' : r \in Runs /\ Superseded(r)
  <2>1. CASE Makes(run) \/ Marks(run)
    BY <1>0, <1>1, <2>1 DEF Makes, Marks
  <2>2. CASE Deletes(run)
    BY <1>0, <1>1, <2>2 DEF Deletes, FilesInv
  <2>3. QED
    BY <2>1, <2>2, FileSteps
<1>3. \A r \in deleted' : Superseded(r)'
  BY <1>2, TakenStays
<1>4. QED
  BY <1>3 DEF NewestAreKept, Superseded, TakenAfter

LEMMA CrashInvIsOneReport == CrashInv => OneReport
  BY DEF CrashInv, OneReportOf, OneReport, Places

LEMMA RunFilesInitInv == RunFilesInit => RunFilesIInv
<1>1. SUFFICES ASSUME RunFilesInit PROVE RunFilesIInv
  OBVIOUS
<1>2. RunFilesTypeOK
  BY <1>1, RunFilesInitTypes
<1>3. \A r \in Runs : runs[r] = NotTaken /\ logs[r] = <<>>
  BY <1>1 DEF RunFilesInit
<1>4. \A r \in Runs, line \in Lines : Places(r, line) = {} /\ ~Has(r, line)
  BY <1>3 DEF Places, Has
<1>5. Frames \in Nat /\ Cardinality({}) = 0
  BY RunFilesAssumption, FS_EmptySet
<1>6. CrashInv
  <2>1. SUFFICES ASSUME NEW r \in Runs PROVE WritesOfACrash(r) /\ OneReportOf(r)
    BY DEF CrashInv
  <2>2. /\ runs[r].frames = 0 /\ runs[r].reporter = "none" /\ Places(r, "frame") = {} /\ Places(r, "crash") = {}
        /\ ~Has(r, "crash") /\ ~Has(r, "frame")
    BY <1>3, <1>4 DEF NotTaken, Lines
  <2>3. WritesOfACrash(r)
    BY <1>5, <2>2 DEF WritesOfACrash
  <2>4. OneReportOf(r)
    BY <1>5, <2>2 DEF OneReportOf
  <2>5. QED
    BY <2>3, <2>4
<1>7. FilesInv /\ CrashedInv
  BY <1>1, <1>3 DEF RunFilesInit, FilesInv, CrashedInv, NotTaken
<1>8. ToldOfACrash /\ CrashesAreTold /\ NewestAreKept
  BY <1>1, <1>3 DEF RunFilesInit, ToldOfACrash, CrashesAreTold, NewestAreKept, NotTaken
<1>9. QED
  BY <1>2, <1>6, <1>7, <1>8, CrashInvIsOneReport DEF RunFilesIInv, RunFilesInv

LEMMA RunFilesStep ==
  ASSUME RunFilesIInv, [RunFilesNext]_runFilesVars
  PROVE  RunFilesIInv'
<1>0. /\ RunFilesTypeOK /\ CrashInv /\ FilesInv /\ CrashedInv
      /\ ToldOfACrash /\ CrashesAreTold /\ NewestAreKept
  BY DEF RunFilesIInv, RunFilesInv
<1>1. ASSUME NEW run \in Runs, StepOf(run) PROVE RunFilesIInv'
  <2>1. RunFilesTypeOK'
    BY <1>0, <1>1, QuietTypes, LoggingTypes, CrashTypes DEF StepOf
  <2>2. CrashInv'
    BY <1>0, <1>1, EveryStep
  <2>3. FilesInv'
    BY <1>0, <1>1, FilesStep
  <2>4. CrashedInv'
    BY <1>0, <1>1, CrashedStep
  <2>5. ToldOfACrash' /\ CrashesAreTold' /\ NewestAreKept'
    BY <1>0, <1>1, CountsToldStep, MissedStep, DeletedStep
  <2>6. OneReport'
    BY <2>2, CrashInvIsOneReport, PTL
  <2>7. QED
    BY <2>1, <2>2, <2>3, <2>4, <2>5, <2>6 DEF RunFilesIInv, RunFilesInv
<1>2. CASE UNCHANGED runFilesVars
  BY ZenonT(60), <1>0, <1>2, CrashInvIsOneReport
  DEF runFilesVars, RunFilesIInv, RunFilesInv, RunFilesTypeOK, CrashInv, WritesOfACrash, OneReportOf, OneReport, FilesInv,
      CrashedInv,
      ToldOfACrash, CrashesAreTold, NewestAreKept, Superseded, TakenAfter, IsTaken, Has, Places
<1>3. QED
  BY <1>1, <1>2, StepIsOneRuns

(***************************************************************************)
(* Whichever Runs are beside one another, and wherever each is killed: a   *)
(* player is told only of a crash that was, and of that of the Run before  *)
(* unless its log is gone or was written to after; nothing is deleted but  *)
(* of a Run that enough have followed; and a log has one crash, its frames *)
(* after it (run_files.cpp, client_run.cpp, crash_posix.cpp).              *)
(***************************************************************************)
THEOREM RunFilesInvariant == RunFilesSpec => []RunFilesInv
<1>1. RunFilesIInv => RunFilesInv
  BY DEF RunFilesIInv
<1>2. QED
  BY <1>1, RunFilesInitInv, RunFilesStep, PTL DEF RunFilesSpec

-----------------------------------------------------------------------------
(***************************************************************************)
(* The file of network messages.  Types, each variable's by itself.        *)
(***************************************************************************)
Queues == Seq(Nat)
StopReasons == {"queue_full", "create_failed", "write_failed"}

ReportsOK == reporting \in [Reporters -> [at : {"none", "encoded", "telling"}, message : Nat]]
WriterOK == writer \in {"starting", "waiting", "writing", "failed", "done"}
QueuesOK == waiting \in Queues /\ batch \in Queues /\ pcapng \in Queues /\ taken.all \in Queues
TakenOK ==
  /\ taken.after \in Nat /\ begun \in Nat
  /\ taken = [all |-> taken.all, dropped |-> taken.dropped, after |-> taken.after]
StopsOK == loggedStops \in Seq(StopReasons)

PcapngTypeOK == ReportsOK /\ WriterOK /\ QueuesOK /\ TakenOK /\ StopsOK

(***************************************************************************)
(* Until a write fails nothing is missing between the file and what was    *)
(* queued; a batch is being written or was when it failed; and a writer    *)
(* that is done has nothing more to come, for nobody reports any more.     *)
(***************************************************************************)
FileLine ==
  /\ IsPrefix(pcapng, taken.all) /\ Len(waiting) <= QueueCapacity
  /\ writer # "failed" => (pcapng \o batch) \o waiting = taken.all
  /\ writer \in {"starting", "waiting", "done"} => batch = <<>>
  /\ writer = "writing" => batch # <<>>
  /\ writer = "done" => closing /\ waiting = <<>>
  /\ closing => \A thread \in Reporters : reporting[thread].at = "none"

(* Whoever stopped the file is the only one to tell, and has not yet. *)
Telling(thread) == reporting[thread].at = "telling"

OneStop ==
  /\ Len(loggedStops) <= 1
  /\ fileStopped <=> loggedStops # <<>> \/ \E thread \in Reporters : Telling(thread)
  /\ \A thread \in Reporters : Telling(thread) => loggedStops = <<>>
  /\ \A thread, other \in Reporters : Telling(thread) /\ Telling(other) => thread = other

(***************************************************************************)
(* Once a message was dropped no report begins: each that has begun may    *)
(* still be queued, and the one that was dropped is not among them.        *)
(***************************************************************************)
Begun == {thread \in Reporters : reporting[thread].at = "encoded"}

FewLeft ==
  /\ ~taken.dropped => taken.after = 0
  /\ taken.dropped => fileStopped /\ taken.after + Cardinality(Begun) < Cardinality(Reporters)

PcapngIInv == PcapngTypeOK /\ FileLine /\ OneStop /\ FewLeft

-----------------------------------------------------------------------------
(* Queues and what the writer does to them. *)
LEMMA QueueFacts ==
  /\ <<>> \in Queues /\ \A m \in Nat : Len(<<>>) = 0
  /\ \A s \in Queues : /\ Len(s) \in Nat /\ s \o <<>> = s
                       /\ \A m \in Nat : Append(s, m) \in Queues /\ Len(Append(s, m)) = Len(s) + 1
                       /\ \A t \in Queues : s \o t \in Queues
                       /\ s # <<>> => Head(s) \in Nat /\ Tail(s) \in Queues
  BY DEF Queues

LEMMA QueuedLast ==
  ASSUME NEW f \in Queues, NEW b \in Queues, NEW w \in Queues, NEW m \in Nat
  PROVE  (f \o b) \o Append(w, m) = Append((f \o b) \o w, m)
  BY SMTT(30) DEF Queues

LEMMA WrittenFirst ==
  ASSUME NEW f \in Queues, NEW b \in Queues, NEW w \in Queues, b # <<>>
  PROVE  (Append(f, Head(b)) \o Tail(b)) \o w = (f \o b) \o w
<1>1. Append(f, Head(b)) \o Tail(b) = f \o b
  BY SMTT(30) DEF Queues
<1>2. QED
  BY <1>1

LEMMA FileIsItsPrefix ==
  ASSUME NEW f \in Queues, NEW b \in Queues, NEW w \in Queues
  PROVE  IsPrefix(f, (f \o b) \o w)
<1>1. /\ Len((f \o b) \o w) = Len(f) + Len(b) + Len(w) /\ Len(f) \in Nat /\ Len(b) \in Nat /\ Len(w) \in Nat
      /\ (f \o b) \o w \in Seq(Nat) /\ f \in Seq(Nat)
  BY DEF Queues
<1>2. \A i \in 1..Len(f) : ((f \o b) \o w)[i] = f[i]
  BY DEF Queues
<1>3. SubSeq(f, 1, Len(f)) = SubSeq((f \o b) \o w, 1, Len(f))
  BY <1>1, <1>2
<1>4. QED
  BY <1>1, <1>3 DEF IsPrefix

LEMMA PrefixOfMore ==
  ASSUME NEW f \in Queues, NEW all \in Queues, IsPrefix(f, all), NEW m \in Nat
  PROVE  IsPrefix(f, Append(all, m))
<1>1. /\ Len(f) <= Len(all) /\ SubSeq(f, 1, Len(f)) = SubSeq(all, 1, Len(f))
      /\ f \in Seq(Nat) /\ all \in Seq(Nat) /\ Len(f) \in Nat /\ Len(all) \in Nat
  BY DEF IsPrefix, Queues
<1>2. SubSeq(Append(all, m), 1, Len(f)) = SubSeq(all, 1, Len(f))
  BY <1>1
<1>3. Len(Append(all, m)) = Len(all) + 1
  BY <1>1
<1>4. QED
  BY <1>1, <1>2, <1>3 DEF IsPrefix

-----------------------------------------------------------------------------
(* The types. *)
LEMMA PcapngStopTypes ==
  ASSUME StopsOK, NEW reason \in StopReasons
  PROVE  /\ StopFile(reason) => StopsOK'
         /\ loggedStops' = Append(loggedStops, reason) => StopsOK'
  BY DEF StopsOK, StopFile

LEMMA ReporterTypes ==
  ASSUME PcapngTypeOK, NEW thread \in Reporters, Report(thread) \/ Enqueue(thread) \/ LogStopped(thread)
  PROVE  PcapngTypeOK'
<1>0. ReportsOK /\ WriterOK /\ QueuesOK /\ TakenOK /\ StopsOK
  BY DEF PcapngTypeOK
<1>1. CASE Report(thread)
  <2>1. begun' \in Nat /\ ReportsOK'
    BY <1>0, <1>1 DEF Report, ReportsOK, TakenOK
  <2>2. QED
    BY <1>0, <1>1, <2>1 DEF Report, PcapngTypeOK, WriterOK, QueuesOK, TakenOK, StopsOK
<1>2. CASE Enqueue(thread)
  <2>1. ReportsOK'
    BY <1>0, <1>2 DEF Enqueue, ReportsOK
  <2>2. CASE Full
    <3>1. TakenOK' /\ taken'.all = taken.all
      BY <1>0, <1>2, <2>2 DEF Enqueue, TakenOK
    <3>2. QED
      BY <1>0, <1>2, <2>1, <2>2, <3>1 DEF Enqueue, PcapngTypeOK, WriterOK, QueuesOK, StopsOK
  <2>3. CASE ~Full
    <3>1. reporting[thread].message \in Nat
      BY <1>0 DEF ReportsOK
    <3>2. taken'.all = Append(taken.all, reporting[thread].message) /\ TakenOK'
      <4>. DEFINE m == reporting[thread].message
                  more == IF taken.dropped THEN taken.after + 1 ELSE taken.after
      <4>1. taken' = [all |-> Append(taken.all, m), dropped |-> taken.dropped, after |-> more]
        BY <1>0, <1>2, <2>3 DEF Enqueue, TakenOK
      <4>2. more \in Nat
        BY <1>0 DEF TakenOK
      <4>. HIDE DEF m, more
      <4>3. taken'.all = Append(taken.all, m) /\ taken'.dropped = taken.dropped /\ taken'.after = more
        BY <4>1
      <4>4. begun' \in Nat
        BY <1>0, <1>2 DEF Enqueue, TakenOK
      <4>5. TakenOK'
        BY <4>1, <4>2, <4>3, <4>4 DEF TakenOK
      <4>6. QED
        BY <4>3, <4>5 DEF m
    <3>3. waiting' = Append(waiting, reporting[thread].message)
      BY <1>2, <2>3 DEF Enqueue
    <3>4. QueuesOK'
      BY <1>0, <1>2, <3>1, <3>2, <3>3, QueueFacts DEF Enqueue, QueuesOK
    <3>5. QED
      BY <1>0, <1>2, <2>1, <3>2, <3>4 DEF Enqueue, PcapngTypeOK, WriterOK, StopsOK
  <2>4. QED
    BY <2>2, <2>3
<1>3. CASE LogStopped(thread)
  <2>1. ReportsOK'
    BY <1>0, <1>3 DEF LogStopped, ReportsOK
  <2>2. StopsOK'
    BY <1>0, <1>3, PcapngStopTypes DEF LogStopped, StopReasons
  <2>3. QED
    BY <1>0, <1>3, <2>1, <2>2 DEF LogStopped, PcapngTypeOK, WriterOK, QueuesOK, TakenOK
<1>4. QED
  BY <1>1, <1>2, <1>3

LEMMA WriterTypes ==
  ASSUME PcapngTypeOK, FileLine, WritesHeaders \/ TakesBatch \/ WriteAll \/ DestroysWriter
  PROVE  PcapngTypeOK'
<1>0. ReportsOK /\ WriterOK /\ QueuesOK /\ TakenOK /\ StopsOK
  BY DEF PcapngTypeOK
<1>1. CASE WritesHeaders
  <2>1. StopsOK'
    BY <1>0, <1>1, PcapngStopTypes DEF WritesHeaders, StopReasons, StopsOK
  <2>2. QED
    BY <1>0, <1>1, <2>1 DEF WritesHeaders, PcapngTypeOK, ReportsOK, WriterOK, QueuesOK, TakenOK
<1>2. CASE TakesBatch
  BY <1>0, <1>2, QueueFacts DEF TakesBatch, PcapngTypeOK, ReportsOK, WriterOK, QueuesOK, TakenOK, StopsOK
<1>3. CASE WriteAll
  <2>1. batch # <<>>
    BY <1>3 DEF WriteAll, FileLine
  <2>2. QueuesOK'
    BY <1>0, <1>3, <2>1, QueueFacts DEF WriteAll, QueuesOK
  <2>3. StopsOK'
    BY <1>0, <1>3, PcapngStopTypes DEF WriteAll, StopReasons, StopsOK
  <2>4. QED
    BY <1>0, <1>3, <2>2, <2>3 DEF WriteAll, PcapngTypeOK, ReportsOK, WriterOK, TakenOK
<1>4. CASE DestroysWriter
  BY <1>0, <1>4 DEF DestroysWriter, PcapngTypeOK, ReportsOK, WriterOK, QueuesOK, TakenOK, StopsOK
<1>5. QED
  BY <1>1, <1>2, <1>3, <1>4

-----------------------------------------------------------------------------
(* What is queued is written. *)
LEMMA FileLineOfReporters ==
  ASSUME PcapngTypeOK, FileLine, NEW thread \in Reporters,
         Report(thread) \/ Enqueue(thread) \/ LogStopped(thread)
  PROVE  FileLine'
<1>0. ReportsOK /\ QueuesOK /\ TakenOK
  BY DEF PcapngTypeOK
<1>1. UNCHANGED <<writer, batch, pcapng, closing>>
  BY DEF Report, Enqueue, LogStopped
<1>2. ~closing
  BY DEF Report, Enqueue, LogStopped, FileLine
<1>3. writer # "done"
  BY <1>2 DEF FileLine
<1>4. CASE UNCHANGED waiting /\ taken'.all = taken.all
  BY <1>1, <1>2, <1>3, <1>4 DEF FileLine
<1>5. ASSUME NEW m \in Nat, waiting' = Append(waiting, m), taken'.all = Append(taken.all, m),
             Len(waiting) < QueueCapacity
      PROVE  FileLine'
  <2>1. pcapng \in Queues /\ batch \in Queues /\ waiting \in Queues /\ taken.all \in Queues
    BY <1>0 DEF QueuesOK
  <2>2. IsPrefix(pcapng, Append(taken.all, m))
    BY <2>1, PrefixOfMore DEF FileLine
  <2>3. Len(waiting') <= QueueCapacity
    <3>1. Len(waiting') = Len(waiting) + 1 /\ Len(waiting) \in Nat
      BY <1>5, <2>1, QueueFacts
    <3>2. QueueCapacity \in Nat
      BY PcapngAssumption
    <3>3. QED
      BY <1>5, <3>1, <3>2
  <2>4. writer # "failed" => (pcapng \o batch) \o waiting' = taken'.all
    <3>1. (pcapng \o batch) \o Append(waiting, m) = Append((pcapng \o batch) \o waiting, m)
      BY <2>1, QueuedLast
    <3>2. QED
      BY <1>5, <3>1 DEF FileLine
  <2>5. QED
    BY <1>1, <1>2, <1>3, <1>5, <2>2, <2>3, <2>4 DEF FileLine
<1>6. CASE Enqueue(thread) /\ ~Full
  <2>1. reporting[thread].message \in Nat
    BY <1>0 DEF ReportsOK
  <2>2. /\ waiting' = Append(waiting, reporting[thread].message)
        /\ taken'.all = Append(taken.all, reporting[thread].message)
    BY <1>0, <1>6 DEF Enqueue, TakenOK
  <2>3. Len(waiting) \in Nat /\ QueueCapacity \in Nat
    BY <1>0, QueueFacts, PcapngAssumption DEF QueuesOK
  <2>4. Len(waiting) < QueueCapacity
    BY <1>6, <2>3 DEF Full
  <2>5. QED
    BY <1>5, <2>1, <2>2, <2>4
<1>7. CASE Enqueue(thread) /\ Full
  BY <1>0, <1>4, <1>7 DEF Enqueue, TakenOK
<1>8. CASE Report(thread) \/ LogStopped(thread)
  BY <1>4, <1>8 DEF Report, LogStopped
<1>9. QED
  BY <1>6, <1>7, <1>8

LEMMA FileLineOfWriter ==
  ASSUME PcapngTypeOK, FileLine, WritesHeaders \/ TakesBatch \/ WriteAll \/ DestroysWriter
  PROVE  FileLine'
<1>0. pcapng \in Queues /\ batch \in Queues /\ waiting \in Queues /\ taken.all \in Queues
  BY DEF PcapngTypeOK, QueuesOK
<1>1. CASE WritesHeaders
  BY <1>1 DEF WritesHeaders, FileLine
<1>2. CASE TakesBatch
  <2>1. batch = <<>>
    BY <1>2 DEF TakesBatch, FileLine
  <2>2. (pcapng \o waiting) \o <<>> = (pcapng \o <<>>) \o waiting
    BY <1>0, QueueFacts
  <2>3. Len(<<>>) <= QueueCapacity
    BY PcapngAssumption
  <2>4. CASE waiting = <<>>
    BY <1>2, <2>1, <2>4 DEF TakesBatch, FileLine
  <2>5. CASE waiting # <<>>
    BY <1>2, <2>1, <2>2, <2>3, <2>5 DEF TakesBatch, FileLine
  <2>6. QED
    BY <2>4, <2>5
<1>3. CASE WriteAll
  <2>1. batch # <<>> /\ writer = "writing" /\ (pcapng \o batch) \o waiting = taken.all
    BY <1>3 DEF WriteAll, FileLine
  <2>2. CASE writer' = "failed" /\ UNCHANGED <<pcapng, batch>>
    BY <1>3, <2>2 DEF WriteAll, FileLine
  <2>3. CASE /\ pcapng' = Append(pcapng, Head(batch)) /\ batch' = Tail(batch)
             /\ writer' = IF batch' = <<>> THEN "waiting" ELSE "writing"
    <3>1. (pcapng' \o batch') \o waiting = taken.all
      BY <1>0, <2>1, <2>3, WrittenFirst
    <3>2. pcapng' \in Queues /\ batch' \in Queues
      BY <1>0, <2>1, <2>3, QueueFacts
    <3>3. IsPrefix(pcapng', taken.all)
      <4>1. IsPrefix(pcapng', (pcapng' \o batch') \o waiting)
        BY <1>0, <3>2, FileIsItsPrefix
      <4>2. QED
        BY <3>1, <4>1
    <3>4. QED
      BY <1>3, <2>3, <3>1, <3>3 DEF WriteAll, FileLine
  <2>4. QED
    BY <1>3, <2>2, <2>3 DEF WriteAll
<1>4. CASE DestroysWriter
  BY <1>4 DEF DestroysWriter, FileLine
<1>5. QED
  BY <1>1, <1>2, <1>3, <1>4

-----------------------------------------------------------------------------
(* The file stops once, and it is told once. *)
LEMMA OneStopOfReporters ==
  ASSUME PcapngTypeOK, OneStop, NEW thread \in Reporters,
         Report(thread) \/ Enqueue(thread) \/ LogStopped(thread)
  PROVE  OneStop'
<1>0. reporting \in [Reporters -> [at : {"none", "encoded", "telling"}, message : Nat]]
  BY DEF PcapngTypeOK, ReportsOK
<1>1. CASE UNCHANGED <<fileStopped, loggedStops>> /\ \A t \in Reporters : Telling(t)' <=> Telling(t)
  BY <1>1 DEF OneStop
<1>2. CASE Report(thread)
  <2>1. \A t \in Reporters : Telling(t)' <=> Telling(t)
    BY <1>0, <1>2 DEF Report, Telling
  <2>2. QED
    BY <1>1, <1>2, <2>1 DEF Report
<1>3. CASE Enqueue(thread) /\ ~(Full /\ ~fileStopped)
  <2>1. \A t \in Reporters : Telling(t)' <=> Telling(t)
    BY SMTT(30), <1>0, <1>3 DEF Enqueue, Telling
  <2>2. fileStopped' = fileStopped /\ loggedStops' = loggedStops
    BY <1>3 DEF Enqueue, PcapngTypeOK
  <2>3. QED
    BY <1>1, <2>1, <2>2
<1>4. CASE Enqueue(thread) /\ Full /\ ~fileStopped
  <2>1. loggedStops = <<>> /\ \A t \in Reporters : ~Telling(t)
    BY <1>4 DEF OneStop
  <2>2. Telling(thread)' /\ \A t \in Reporters : t # thread => ~Telling(t)'
    BY <1>0, <1>4, <2>1 DEF Enqueue, Telling
  <2>3. fileStopped' /\ loggedStops' = <<>>
    BY <1>4, <2>1 DEF Enqueue
  <2>4. Len(<<>>) <= 1
    OBVIOUS
  <2>5. QED
    BY <2>2, <2>3, <2>4 DEF OneStop
<1>5. CASE LogStopped(thread)
  <2>1. Telling(thread) /\ loggedStops = <<>> /\ fileStopped /\ \A t \in Reporters : t # thread => ~Telling(t)
    BY <1>5 DEF LogStopped, Telling, OneStop
  <2>2. \A t \in Reporters : ~Telling(t)'
    BY <1>0, <1>5, <2>1 DEF LogStopped, Telling
  <2>3. loggedStops' = <<"queue_full">> /\ fileStopped'
    BY <1>5, <2>1 DEF LogStopped
  <2>4. Len(loggedStops') = 1 /\ loggedStops' # <<>>
    BY <2>3
  <2>5. QED
    BY <2>2, <2>3, <2>4 DEF OneStop
<1>6. QED
  BY <1>2, <1>3, <1>4, <1>5

LEMMA OneStopOfWriter ==
  ASSUME PcapngTypeOK, OneStop, WritesHeaders \/ TakesBatch \/ WriteAll \/ DestroysWriter
  PROVE  OneStop'
<1>1. UNCHANGED reporting
  BY DEF WritesHeaders, TakesBatch, WriteAll, DestroysWriter
<1>2. CASE UNCHANGED <<fileStopped, loggedStops>>
  BY <1>1, <1>2 DEF OneStop, Telling
<1>3. ASSUME NEW reason \in StopReasons, StopFile(reason) PROVE OneStop'
  <2>1. CASE fileStopped
    BY <1>1, <1>3, <2>1 DEF StopFile, OneStop, Telling
  <2>2. CASE ~fileStopped
    <3>1. loggedStops = <<>> /\ \A t \in Reporters : ~Telling(t)
      BY <2>2 DEF OneStop
    <3>2. fileStopped' /\ loggedStops' = Append(<<>>, reason)
      BY <1>3, <2>2, <3>1 DEF StopFile
    <3>3. Len(loggedStops') = 1 /\ loggedStops' # <<>>
      BY <3>2
    <3>4. \A t \in Reporters : ~Telling(t)'
      BY <1>1, <3>1 DEF Telling
    <3>5. QED
      BY <3>2, <3>3, <3>4 DEF OneStop
  <2>3. QED
    BY <2>1, <2>2
<1>4. QED
  BY <1>2, <1>3 DEF WritesHeaders, TakesBatch, WriteAll, DestroysWriter, StopReasons

-----------------------------------------------------------------------------
(* Few are queued after a drop. *)
LEMMA BegunIsFinite ==
  /\ IsFiniteSet(Begun) /\ Cardinality(Begun) \in Nat
  /\ IsFiniteSet(Reporters) /\ Cardinality(Reporters) \in Nat
<1>1. IsFiniteSet(Reporters)
  BY PcapngAssumption
<1>2. Begun \subseteq Reporters
  BY DEF Begun
<1>3. QED
  BY <1>1, <1>2, FS_Subset, FS_CardinalityType

LEMMA FewLeftOfReporters ==
  ASSUME PcapngTypeOK, OneStop, FewLeft, NEW thread \in Reporters,
         Report(thread) \/ Enqueue(thread) \/ LogStopped(thread)
  PROVE  FewLeft'
<1>0. /\ reporting \in [Reporters -> [at : {"none", "encoded", "telling"}, message : Nat]]
      /\ taken.after \in Nat
      /\ taken = [all |-> taken.all, dropped |-> taken.dropped, after |-> taken.after]
  BY DEF PcapngTypeOK, ReportsOK, TakenOK
<1>1. CASE Report(thread)
  <2>1. ~taken.dropped /\ taken' = taken
    BY <1>1 DEF Report, FewLeft
  <2>2. QED
    BY <2>1 DEF FewLeft
<1>2. CASE LogStopped(thread)
  <2>1. Begun' = Begun
    BY <1>0, <1>2 DEF LogStopped, Begun
  <2>2. QED
    BY <1>2, <2>1 DEF LogStopped, FewLeft
<1>3. CASE Enqueue(thread)
  <2>1. thread \in Begun /\ Begun' = Begun \ {thread}
    BY <1>0, <1>3 DEF Enqueue, Begun
  <2>2. Cardinality(Begun') = Cardinality(Begun) - 1
    BY <2>1, BegunIsFinite, FS_RemoveElement
  <2>3. Cardinality(Begun) <= Cardinality(Reporters) /\ Begun \subseteq Reporters
    BY BegunIsFinite, FS_Subset DEF Begun
  <2>4. CASE Full
    <3>1. taken'.dropped /\ taken'.after = taken.after /\ fileStopped'
      BY <1>0, <1>3, <2>4 DEF Enqueue
    <3>2. CASE taken.dropped
      <4>1. taken.after + Cardinality(Begun) < Cardinality(Reporters)
        BY <3>2 DEF FewLeft
      <4>2. taken'.after + Cardinality(Begun') < Cardinality(Reporters)
        BY <1>0, <2>2, <3>1, <4>1, BegunIsFinite
      <4>3. QED
        BY <3>1, <4>2 DEF FewLeft
    <3>3. CASE ~taken.dropped
      <4>1. taken.after = 0
        BY <3>3 DEF FewLeft
      <4>2. taken'.after + Cardinality(Begun') < Cardinality(Reporters)
        BY <2>2, <2>3, <3>1, <4>1, BegunIsFinite
      <4>3. QED
        BY <3>1, <4>2 DEF FewLeft
    <3>4. QED
      BY <3>2, <3>3
  <2>5. CASE ~Full
    <3>1. /\ taken'.after = IF taken.dropped THEN taken.after + 1 ELSE taken.after
          /\ taken'.dropped = taken.dropped /\ fileStopped' = fileStopped
      BY <1>0, <1>3, <2>5 DEF Enqueue
    <3>2. CASE taken.dropped
      <4>1. fileStopped /\ taken.after + Cardinality(Begun) < Cardinality(Reporters)
        BY <3>2 DEF FewLeft
      <4>2. taken'.after + Cardinality(Begun') < Cardinality(Reporters)
        BY <1>0, <2>2, <3>1, <3>2, <4>1, BegunIsFinite
      <4>3. QED
        BY <3>1, <3>2, <4>1, <4>2 DEF FewLeft
    <3>3. CASE ~taken.dropped
      BY <3>1, <3>3 DEF FewLeft
    <3>4. QED
      BY <3>2, <3>3
  <2>6. QED
    BY <2>4, <2>5
<1>4. QED
  BY <1>1, <1>2, <1>3

LEMMA FewLeftOfWriter ==
  ASSUME FewLeft, WritesHeaders \/ TakesBatch \/ WriteAll \/ DestroysWriter
  PROVE  FewLeft'
<1>1. UNCHANGED <<reporting, taken>> /\ (fileStopped => fileStopped')
  BY DEF WritesHeaders, TakesBatch, WriteAll, DestroysWriter, StopFile
<1>2. Begun' = Begun
  BY <1>1 DEF Begun
<1>3. QED
  BY <1>1, <1>2 DEF FewLeft

-----------------------------------------------------------------------------
LEMMA PcapngInitInv == PcapngInit => PcapngIInv
<1>1. SUFFICES ASSUME PcapngInit PROVE PcapngIInv
  OBVIOUS
<1>2. NoReport \in [at : {"none", "encoded", "telling"}, message : Nat] /\ NoReport.at = "none"
  BY DEF NoReport
<1>3. \A thread \in Reporters : reporting[thread].at = "none"
  BY <1>1, <1>2 DEF PcapngInit
<1>4. PcapngTypeOK
  BY <1>1, <1>2, QueueFacts
  DEF PcapngInit, PcapngTypeOK, ReportsOK, WriterOK, QueuesOK, TakenOK, StopsOK
<1>5. FileLine
  <2>1. IsPrefix(<<>>, (<<>> \o <<>>) \o <<>>) /\ (<<>> \o <<>>) \o <<>> = <<>>
    BY QueueFacts, FileIsItsPrefix
  <2>2. Len(<<>>) <= QueueCapacity
    BY PcapngAssumption
  <2>3. QED
    BY <1>1, <1>3, <2>1, <2>2 DEF PcapngInit, FileLine
<1>6. OneStop
  <2>1. Len(<<>>) <= 1
    OBVIOUS
  <2>2. QED
    BY <1>1, <1>3, <2>1 DEF PcapngInit, OneStop, Telling
<1>7. FewLeft
  BY <1>1 DEF PcapngInit, FewLeft
<1>8. QED
  BY <1>4, <1>5, <1>6, <1>7 DEF PcapngIInv

LEMMA PcapngStep ==
  ASSUME PcapngIInv, [PcapngNext]_pcapngVars
  PROVE  PcapngIInv'
<1>0. PcapngTypeOK /\ FileLine /\ OneStop /\ FewLeft
  BY DEF PcapngIInv
<1>1. ASSUME NEW thread \in Reporters, Report(thread) \/ Enqueue(thread) \/ LogStopped(thread)
      PROVE  PcapngIInv'
  BY <1>0, <1>1, ReporterTypes, FileLineOfReporters, OneStopOfReporters, FewLeftOfReporters DEF PcapngIInv
<1>2. CASE WritesHeaders \/ TakesBatch \/ WriteAll \/ DestroysWriter
  BY <1>0, <1>2, WriterTypes, FileLineOfWriter, OneStopOfWriter, FewLeftOfWriter DEF PcapngIInv
<1>3. CASE UNCHANGED pcapngVars
  BY <1>0, <1>3
  DEF pcapngVars, PcapngIInv, PcapngTypeOK, ReportsOK, WriterOK, QueuesOK, TakenOK, StopsOK, FileLine, OneStop,
      Telling, FewLeft, Begun
<1>4. QED
  BY <1>1, <1>2, <1>3 DEF PcapngNext

LEMMA PcapngFollows == PcapngIInv => PcapngInv
<1>1. SUFFICES ASSUME PcapngIInv PROVE PcapngInv
  OBVIOUS
<1>0. PcapngTypeOK /\ FileLine /\ OneStop /\ FewLeft
  BY <1>1 DEF PcapngIInv
<1>2. WritesWhatItTook
  <2>1. pcapng \in Queues /\ batch \in Queues /\ waiting \in Queues
    BY <1>0 DEF PcapngTypeOK, QueuesOK
  <2>2. writer = "done" => batch = <<>> /\ waiting = <<>> /\ (pcapng \o batch) \o waiting = taken.all
    BY <1>0 DEF FileLine
  <2>3. (pcapng \o <<>>) \o <<>> = pcapng
    BY <2>1, QueueFacts
  <2>4. QED
    BY <1>0, <2>2, <2>3 DEF FileLine, WritesWhatItTook
<1>3. StopsOnce
  BY <1>0 DEF OneStop, Telling, StopsOnce
<1>4. FewAfterADrop
  <2>1. 0 < Cardinality(Reporters)
    <3>1. Cardinality(Reporters) # 0
      BY BegunIsFinite, PcapngAssumption, FS_EmptySet
    <3>2. QED
      BY <3>1, BegunIsFinite
  <2>2. taken.after \in Nat
    BY <1>0 DEF PcapngTypeOK, TakenOK
  <2>3. CASE taken.dropped
    BY <1>0, <2>2, <2>3, BegunIsFinite DEF FewLeft, FewAfterADrop
  <2>4. CASE ~taken.dropped
    BY <1>0, <2>1, <2>4 DEF FewLeft, FewAfterADrop
  <2>5. QED
    BY <2>3, <2>4
<1>5. QED
  BY <1>2, <1>3, <1>4 DEF PcapngInv

(***************************************************************************)
(* For any threads that report and any bound of the queue: what was queued *)
(* is written, in its order, each message once, unless a write fails; the  *)
(* file stops once and says so once; and after a message was dropped there *)
(* is room for one of each other thread at most (file_writer.cpp).         *)
(***************************************************************************)
THEOREM PcapngInvariant == PcapngSpec => []PcapngInv
  BY PcapngInitInv, PcapngStep, PcapngFollows, PTL DEF PcapngSpec

-----------------------------------------------------------------------------
(***************************************************************************)
(* The Session.  A run of it says of itself what has happened to it,       *)
(* whatever its three threads read of each other and when.                 *)
(***************************************************************************)
USE RolesAssumption

Messages == {"Admission", "Refusal", "MatchEnd"}
Said == Seq(Messages)
Events == Seq({"connected", "ended"})
Latches == {"kTransport", "kInvariant"}
Views == [accepted : BOOLEAN, refusal : BOOLEAN, matchEnd : BOOLEAN]

RemoteOK ==
  remote \in [stage : {"away", "dialled", "open", "asked", "admitted", "refused", "over", "closed"},
              arrived : Said, events : Events, said : Said,
              ended : {"no", "never", "closed", "lost", "full"}]

ChannelOK ==
  channel \in [state : {"kDisconnected", "kConnecting", "kConnected"}, connection : BOOLEAN, kept : Said]

ArrivalsOK == arrivals \in [hand : Said, view : Views, heard : Said]

RunnerOK ==
  runner \in [network : {"connect", "want", "round", "pump", "ask", "receive", "handing", "result", "unwant",
                         "close", "returning", "done"},
              prediction : {"waiting", "ticking", "result", "done"}, took : Latches \cup {"none"},
              stopping : BOOLEAN, failure : Latches \cup {"none"}]

RenderOK ==
  render \in [at : {"frame", "view", "wanted", "state", "ended", "draw", "stopping", "joining", "done"},
              read : Views, admitted : BOOLEAN]

LatchesOK == latches \in [recorded : SUBSET Latches, untaken : SUBSET Latches]

\* What a run may say of itself.
Results == {"running", "kTransport", "kInvariant", "kRefused", "kConnectionLost", "kServerUnreachable",
            "replayEnded", "closed"}

SessionTypeOK ==
  /\ RemoteOK /\ ChannelOK /\ ArrivalsOK /\ RunnerOK /\ RenderOK /\ LatchesOK
  /\ role \in {"player", "viewer"} /\ result \in Results

(***************************************************************************)
(* The line from the server to the Session's Inbox.  Nothing joins it once *)
(* the Session has given something up, what is being handed on is all that *)
(* was received, and what the ended connection kept is received before     *)
(* another connection can be there.                                        *)
(***************************************************************************)
WayInv == Len(OnTheWay) <= Len(remote.said) /\ HeardInOrder

PlacesInv ==
  /\ GaveUp => remote.stage = "closed"
  /\ arrivals.hand # <<>> => runner.network = "handing"
  /\ channel.connection => channel.kept = <<>>
  /\ runner.network = "connect" => remote.stage = "away" /\ remote.ended = "no" /\ channel = NoChannel

LineInv == WayInv /\ PlacesInv

(***************************************************************************)
(* What the Session's view says, and what the frame read of it, was told.  *)
(***************************************************************************)
ToldInv ==
  /\ arrivals.view.accepted => HandedOn("Admission")
  /\ arrivals.view.refusal => HandedOn("Refusal")
  /\ arrivals.view.matchEnd => HandedOn("MatchEnd")
  /\ render.read.accepted => HandedOn("Admission")

(***************************************************************************)
(* A connection that is not there has ended, was given up after a local    *)
(* failure, or the run is already ending: until then it is wanted, and a   *)
(* frame that has read that it is wanted finds it so.                      *)
(***************************************************************************)
Failed == latches.recorded # {}
Ending == render.at \in {"joining", "done"}

EndsAreTold == \A i \in DOMAIN remote.events : remote.events[i] = "ended" => remote.ended # "no"

WhyGone ==
  /\ channel.state = "kDisconnected" => runner.network = "connect" \/ remote.ended # "no" \/ Failed \/ Ending
  /\ runner.stopping \/ runner.network \in {"unwant", "close", "returning", "done"} => Failed \/ Ending
  /\ wanted \/ render.at \in {"state", "ended"} => runner.network \notin {"connect", "want"}
  /\ render.at = "ended" => remote.ended # "no" \/ Failed

(***************************************************************************)
(* A failure taken is the run's, or on its way with the network thread,    *)
(* which disconnects before it returns it.                                 *)
(***************************************************************************)
Took == latches.recorded \ latches.untaken

FailureInv ==
  /\ latches.untaken \subseteq latches.recorded
  /\ runner.took # "none" => runner.took \in Took
  /\ runner.failure # "none" => runner.failure \in Took /\ runner.stopping
  /\ Took # {} =>
       runner.failure # "none" \/ (runner.took # "none" /\ runner.network \in {"unwant", "close", "returning"})

(* The network thread disconnects before it is done. *)
LeavingInv ==
  /\ runner.network \in {"returning", "done"} => channel = NoChannel
  /\ runner.network \in {"close", "returning", "done"} => ~wanted
  /\ render.at = "done" => runner.network = "done"

(* The inductive invariant of a run. *)
SessionIInv ==
  SessionTypeOK /\ LineInv /\ ToldInv /\ EndsAreTold /\ WhyGone /\ FailureInv /\ LeavingInv /\ EndedAsToldTo

-----------------------------------------------------------------------------
(* What is said is a sequence of messages, and so is every part of it. *)
LEMMA SaidFacts ==
  /\ <<>> \in Said
  /\ \A s \in Said : /\ \A m \in Messages : Append(s, m) \in Said
                     /\ \A t \in Said : s \o t \in Said
                     /\ s # <<>> => Head(s) \in Messages /\ Tail(s) \in Said
<1>1. <<>> \in Said
  BY EmptySeq DEF Said
<1>2. \A s \in Said, m \in Messages : Append(s, m) \in Said
  BY AppendProperties DEF Said
<1>3. \A s \in Said, t \in Said : s \o t \in Said
  BY ConcatProperties DEF Said
<1>4. \A s \in Said : s # <<>> => Head(s) \in Messages /\ Tail(s) \in Said
  BY HeadTailProperties DEF Said
<1>5. QED
  BY <1>1, <1>2, <1>3, <1>4

LEMMA EventFacts ==
  \A s \in Events : /\ Append(s, "connected") \in Events /\ Append(s, "ended") \in Events
                    /\ s # <<>> => Head(s) \in {"connected", "ended"} /\ Tail(s) \in Events
<1>1. \A s \in Events : Append(s, "connected") \in Events /\ Append(s, "ended") \in Events
  BY AppendProperties DEF Events
<1>2. \A s \in Events : s # <<>> => Head(s) \in {"connected", "ended"} /\ Tail(s) \in Events
  BY HeadTailProperties DEF Events
<1>3. QED
  BY <1>1, <1>2

(***************************************************************************)
(* What Send may do: nothing but record a failure, give up a connection    *)
(* whose send queue is full, or send.                                      *)
(***************************************************************************)
Asking == [remote EXCEPT !.stage = IF @ = "open" THEN "asked" ELSE @]

QueueIsFull ==
  /\ latches.recorded = {} /\ channel.state = "kConnected"
  /\ channel' = [channel EXCEPT !.state = "kDisconnected", !.connection = FALSE]
  /\ remote' = [remote EXCEPT !.stage = "closed", !.arrived = <<>>, !.ended = "full"]
  /\ UNCHANGED latches

Records(latch) == latches.recorded = {} /\ RecordOnce(latch) /\ UNCHANGED <<remote, channel>>

LEMMA SendEffect ==
  ASSUME NEW sent, Send(sent)
  PROVE  \/ UNCHANGED channel /\ UNCHANGED latches /\ remote' \in {remote, sent}
         \/ \E latch \in Latches : Records(latch)
         \/ QueueIsFull
  BY DEF Send, Latches, Records, QueueIsFull

(***************************************************************************)
(* Each step of the run has its type.                                      *)
(***************************************************************************)
LEMMA TypeOfRecording ==
  ASSUME LatchesOK, NEW latch \in Latches, RecordOnce(latch)
  PROVE  LatchesOK'
  BY DEF LatchesOK, RecordOnce

LEMMA TypeOfSend ==
  ASSUME RemoteOK, ChannelOK, LatchesOK, NEW sent, sent \in {remote, Asking}, Send(sent)
  PROVE  RemoteOK' /\ ChannelOK' /\ LatchesOK'
<1>1. CASE UNCHANGED channel /\ UNCHANGED latches /\ remote' \in {remote, sent}
  <2>1. RemoteOK'
    BY <1>1 DEF RemoteOK, Asking
  <2>2. ChannelOK' /\ LatchesOK'
    BY <1>1 DEF ChannelOK, LatchesOK
  <2>3. QED
    BY <2>1, <2>2
<1>2. ASSUME NEW latch \in Latches, Records(latch)
      PROVE  RemoteOK' /\ ChannelOK' /\ LatchesOK'
  <2>1. LatchesOK'
    BY <1>2, TypeOfRecording DEF Records
  <2>2. QED
    BY <1>2, <2>1 DEF Records, RemoteOK, ChannelOK
<1>3. CASE QueueIsFull
  <2>1. RemoteOK'
    BY <1>3, SaidFacts DEF QueueIsFull, RemoteOK
  <2>2. ChannelOK'
    BY <1>3 DEF QueueIsFull, ChannelOK
  <2>3. LatchesOK'
    BY <1>3 DEF QueueIsFull, LatchesOK
  <2>4. QED
    BY <2>1, <2>2, <2>3
<1>4. QED
  BY <1>1, <1>2, <1>3, SendEffect

LEMMA TypeElsewhere ==
  ASSUME RemoteOK, Elsewhere
  PROVE  RemoteOK'
<1>1. CASE ServerAccepts
  BY <1>1, EventFacts DEF ServerAccepts, RemoteOK
<1>2. CASE ServerAnswers
  <2>1. remote.arrived \in Said /\ remote.said \in Said
    BY DEF RemoteOK
  <2>2. CASE Says("Admission", "admitted")
    <3>1. Append(remote.arrived, "Admission") \in Said /\ Append(remote.said, "Admission") \in Said
      BY <2>1, SaidFacts DEF Messages
    <3>2. QED
      BY <2>2, <3>1 DEF Says, RemoteOK
  <2>3. CASE Says("Refusal", "refused")
    <3>1. Append(remote.arrived, "Refusal") \in Said /\ Append(remote.said, "Refusal") \in Said
      BY <2>1, SaidFacts DEF Messages
    <3>2. QED
      BY <2>3, <3>1 DEF Says, RemoteOK
  <2>4. QED
    BY <1>2, <2>2, <2>3 DEF ServerAnswers
<1>3. CASE ServerEndsMatch
  BY <1>3, SaidFacts DEF ServerEndsMatch, Says, RemoteOK, Messages
<1>4. CASE ServerCloses
  BY <1>4, EventFacts DEF ServerCloses, WireEnds, RemoteOK
<1>5. CASE ConnectionIsLost
  BY <1>5, EventFacts DEF ConnectionIsLost, WireEnds, RemoteOK
<1>6. QED
  BY <1>1, <1>2, <1>3, <1>4, <1>5 DEF Elsewhere

LEMMA TypeOfNetwork ==
  ASSUME SessionTypeOK, NetworkThread
  PROVE  SessionTypeOK'
<1>1. /\ RemoteOK /\ ChannelOK /\ ArrivalsOK /\ RunnerOK /\ RenderOK /\ LatchesOK
      /\ role \in {"player", "viewer"} /\ result \in Results
  BY DEF SessionTypeOK
<1>2. UNCHANGED mainVars
  BY DEF NetworkThread, StartSession, Want, StartPump, PumpEvents, Ask, ReceiveMessages, HandToInbox, NetworkResult,
         Unwant, Disconnect, NetworkReturns
<1>3. (role \in {"player", "viewer"})' /\ (result \in Results)' /\ RenderOK'
  BY <1>1, <1>2 DEF mainVars, RenderOK
<1>4. CASE StartSession
  <2>1. RemoteOK'
    BY <1>4, <1>1 DEF StartSession, RemoteOK
  <2>2. ChannelOK'
    <3>1. channel' \in {NoChannel, [NoChannel EXCEPT !.state = "kConnecting", !.connection = TRUE]}
      BY <1>4 DEF StartSession
    <3>2. CASE channel' = NoChannel
      BY <3>2, SaidFacts DEF ChannelOK, NoChannel
    <3>3. CASE channel' = [NoChannel EXCEPT !.state = "kConnecting", !.connection = TRUE]
      <4>1. channel' = [state |-> "kConnecting", connection |-> TRUE, kept |-> <<>>]
        BY <3>3 DEF NoChannel
      <4>2. QED
        BY <4>1, SaidFacts DEF ChannelOK
    <3>4. QED
      BY <3>1, <3>2, <3>3
  <2>3. RunnerOK'
    BY <1>4, <1>1 DEF StartSession, NetworkGoes, RunnerOK
  <2>4. ArrivalsOK' /\ LatchesOK'
    BY <1>4, <1>1 DEF StartSession, ArrivalsOK, LatchesOK
  <2>5. QED
    BY <1>3, <2>1, <2>2, <2>3, <2>4 DEF SessionTypeOK
<1>5. CASE Want \/ StartPump \/ Unwant
  <2>1. RunnerOK'
    BY <1>5, <1>1 DEF Want, StartPump, Unwant, NetworkGoes, RunnerOK
  <2>2. UNCHANGED <<remote, channel, arrivals, latches>>
    BY <1>5 DEF Want, StartPump, Unwant, netVars
  <2>3. RemoteOK' /\ ChannelOK' /\ ArrivalsOK' /\ LatchesOK'
    BY <1>1, <2>2 DEF RemoteOK, ChannelOK, ArrivalsOK, LatchesOK
  <2>4. QED
    BY <1>3, <2>1, <2>3 DEF SessionTypeOK
<1>6. CASE PumpEvents
  <2>1. RunnerOK'
    BY <1>6, <1>1 DEF PumpEvents, NetworkGoes, RunnerOK
  <2>2. RemoteOK'
    BY <1>6, <1>1, SaidFacts, EventFacts DEF PumpEvents, RemoteOK
  <2>3. channel.kept \o remote.arrived \in Said
    BY <1>1, SaidFacts DEF ChannelOK, RemoteOK
  <2>4. ChannelOK'
    BY <1>6, <1>1, <2>3, SaidFacts DEF PumpEvents, ApplyToClient, NoChannel, ChannelOK
  <2>5. ArrivalsOK' /\ LatchesOK'
    BY <1>6, <1>1 DEF PumpEvents, ArrivalsOK, LatchesOK
  <2>6. QED
    BY <1>3, <2>1, <2>2, <2>4, <2>5 DEF SessionTypeOK
<1>7. CASE Ask
  <2>1. RunnerOK'
    BY <1>7, <1>1 DEF Ask, NetworkGoes, RunnerOK
  <2>2. Send(Asking) \/ UNCHANGED <<remote, channel, latches>>
    BY <1>7 DEF Ask, Asking
  <2>3. RemoteOK' /\ ChannelOK' /\ LatchesOK'
    <3>1. CASE Send(Asking)
      BY <1>1, <3>1, TypeOfSend
    <3>2. CASE UNCHANGED <<remote, channel, latches>>
      BY <1>1, <3>2 DEF RemoteOK, ChannelOK, LatchesOK
    <3>3. QED
      BY <2>2, <3>1, <3>2
  <2>4. ArrivalsOK'
    BY <1>7, <1>1 DEF Ask, ArrivalsOK
  <2>5. QED
    BY <1>3, <2>1, <2>3, <2>4 DEF SessionTypeOK
<1>8. CASE ReceiveMessages
  <2>1. RunnerOK'
    BY <1>8, <1>1 DEF ReceiveMessages, NetworkGoes, RunnerOK
  <2>2. RemoteOK'
    BY <1>8, <1>1, SaidFacts DEF ReceiveMessages, RemoteOK
  <2>3. ChannelOK'
    BY <1>8, <1>1, SaidFacts DEF ReceiveMessages, ChannelOK
  <2>4. ArrivalsOK'
    BY <1>8, <1>1 DEF ReceiveMessages, ArrivalsOK, RemoteOK, ChannelOK
  <2>5. LatchesOK'
    BY <1>8, <1>1 DEF ReceiveMessages, RecordOnce, LatchesOK, Latches
  <2>6. QED
    BY <1>3, <2>1, <2>2, <2>3, <2>4, <2>5 DEF SessionTypeOK
<1>9. CASE HandToInbox
  <2>1. RunnerOK'
    BY <1>9, <1>1 DEF HandToInbox, NetworkGoes, RunnerOK
  <2>2. \A message : ViewAfter(message) \in Views
    BY <1>1 DEF ViewAfter, Views, ArrivalsOK
  <2>3. ArrivalsOK'
    <3>1. CASE UNCHANGED arrivals
      BY <1>1, <3>1 DEF ArrivalsOK
    <3>2. CASE arrivals.hand # <<>> /\
               arrivals' = [hand |-> Tail(arrivals.hand), view |-> ViewAfter(Head(arrivals.hand)),
                                                   heard |-> Append(arrivals.heard, Head(arrivals.hand))]
      <4>1. arrivals.hand \in Said /\ arrivals.heard \in Said
        BY <1>1 DEF ArrivalsOK
      <4>2. Tail(arrivals.hand) \in Said /\ Append(arrivals.heard, Head(arrivals.hand)) \in Said
        BY <3>2, <4>1, SaidFacts
      <4>3. QED
        BY <3>2, <4>2, <2>2 DEF ArrivalsOK
    <3>3. QED
      BY <1>9, <3>1, <3>2 DEF HandToInbox
  <2>4. RemoteOK' /\ ChannelOK' /\ LatchesOK'
    BY <1>9, <1>1 DEF HandToInbox, RemoteOK, ChannelOK, LatchesOK
  <2>5. QED
    BY <1>3, <2>1, <2>3, <2>4 DEF SessionTypeOK
<1>10. CASE NetworkResult
  <2>1. RunnerOK'
    <3>1. Taken \in Latches
      BY DEF Taken, Latches
    <3>2. QED
      BY ZenonT(60), <1>10, <1>1, <3>1 DEF NetworkResult, NetworkGoes, RunnerOK
  <2>2. LatchesOK'
    BY <1>10, <1>1 DEF NetworkResult, TakeFailure, LatchesOK
  <2>3. RemoteOK' /\ ChannelOK' /\ ArrivalsOK'
    BY <1>10, <1>1 DEF NetworkResult, netVars, RemoteOK, ChannelOK, ArrivalsOK
  <2>4. QED
    BY <1>3, <2>1, <2>2, <2>3 DEF SessionTypeOK
<1>11. CASE Disconnect
  <2>1. RunnerOK'
    BY <1>11, <1>1 DEF Disconnect, NetworkGoes, RunnerOK
  <2>2. RemoteOK'
    BY <1>11, <1>1, SaidFacts DEF Disconnect, RemoteOK
  <2>3. ChannelOK'
    BY <1>11, <1>1, SaidFacts DEF Disconnect, ChannelOK, NoChannel
  <2>4. ArrivalsOK' /\ LatchesOK'
    BY <1>11, <1>1 DEF Disconnect, ArrivalsOK, LatchesOK
  <2>5. QED
    BY <1>3, <2>1, <2>2, <2>3, <2>4 DEF SessionTypeOK
<1>12. CASE NetworkReturns
  <2>1. RunnerOK'
    BY <1>12, <1>1 DEF NetworkReturns, KeptFailure, RunnerOK
  <2>2. RemoteOK' /\ ChannelOK' /\ ArrivalsOK' /\ LatchesOK'
    BY <1>12, <1>1 DEF NetworkReturns, netVars, RemoteOK, ChannelOK, ArrivalsOK, LatchesOK
  <2>3. QED
    BY <1>3, <2>1, <2>2 DEF SessionTypeOK
<1>13. QED
  BY <1>4, <1>5, <1>6, <1>7, <1>8, <1>9, <1>10, <1>11, <1>12 DEF NetworkThread

LEMMA TypeOfPrediction ==
  ASSUME SessionTypeOK, PredictionThread
  PROVE  SessionTypeOK'
<1>1. /\ RemoteOK /\ ChannelOK /\ ArrivalsOK /\ RunnerOK /\ RenderOK /\ LatchesOK
      /\ role \in {"player", "viewer"} /\ result \in Results
  BY DEF SessionTypeOK
<1>2. UNCHANGED mainVars /\ UNCHANGED arrivals
  BY DEF PredictionThread, AwaitTickRate, PredictionTick, PredictionResult, netVars
<1>3. (role \in {"player", "viewer"})' /\ (result \in Results)' /\ ArrivalsOK' /\ RenderOK'
  BY <1>1, <1>2 DEF mainVars, ArrivalsOK, RenderOK
<1>4. RunnerOK'
  <2>1. Taken \in Latches
    BY DEF Taken, Latches
  <2>2. KeptFailure(Taken) \in Latches \cup {"none"}
    BY <1>1, <2>1 DEF KeptFailure, RunnerOK
  <2>3. CASE AwaitTickRate
    BY <1>1, <2>3 DEF AwaitTickRate, PredictionGoes, RunnerOK
  <2>4. CASE PredictionTick
    BY <1>1, <2>4 DEF PredictionTick, PredictionGoes, RunnerOK
  <2>5. CASE PredictionResult
    BY ZenonT(60), <1>1, <2>2, <2>5 DEF PredictionResult, PredictionGoes, RunnerOK
  <2>6. QED
    BY <2>3, <2>4, <2>5 DEF PredictionThread
<1>5. RemoteOK' /\ ChannelOK' /\ LatchesOK'
  <2>1. CASE Send(remote)
    BY <1>1, <2>1, TypeOfSend
  <2>2. CASE UNCHANGED <<remote, channel, latches>>
    BY <1>1, <2>2 DEF RemoteOK, ChannelOK, LatchesOK
  <2>3. CASE PredictionResult
    <3>1. LatchesOK'
      BY <2>3, <1>1 DEF PredictionResult, TakeFailure, LatchesOK
    <3>2. QED
      BY <2>3, <1>1, <3>1 DEF PredictionResult, netVars, RemoteOK, ChannelOK
  <2>4. QED
    BY <2>1, <2>2, <2>3 DEF PredictionThread, AwaitTickRate, PredictionTick, netVars
<1>6. QED
  BY <1>3, <1>4, <1>5 DEF SessionTypeOK

(* A frame that reports nothing only reads. *)
Watching ==
  \/ AskRunner \/ ReadView \/ ReadWanted \/ ReadState \/ AskWhetherEnded \/ FinishFrame \/ CloseWindow \/ RunJoined

LEMMA TypeOfRender ==
  ASSUME SessionTypeOK, RenderThread
  PROVE  SessionTypeOK'
<1>1. /\ RemoteOK /\ ChannelOK /\ ArrivalsOK /\ RunnerOK /\ RenderOK /\ LatchesOK
      /\ role \in {"player", "viewer"} /\ result \in Results
  BY DEF SessionTypeOK
<1>2. UNCHANGED role /\ UNCHANGED arrivals
  BY DEF RenderThread, AskRunner, ReadView, ReadWanted, ReadState, AskWhetherEnded, FinishFrame, ReportReady,
         CloseWindow, StopAndJoin, RunJoined, Reads, netVars
<1>3. (role \in {"player", "viewer"})' /\ ArrivalsOK'
  BY <1>1, <1>2 DEF ArrivalsOK
<1>4. CASE Watching
  <2>1. Reads
    BY <1>4 DEF Watching, AskRunner, ReadView, ReadWanted, ReadState, AskWhetherEnded, FinishFrame, CloseWindow,
                RunJoined
  <2>2. RemoteOK' /\ ChannelOK' /\ LatchesOK'
    BY <1>1, <2>1 DEF Reads, netVars, RemoteOK, ChannelOK, LatchesOK
  <2>3. RunnerOK'
    BY <1>1, <2>1 DEF Reads, RunnerOK
  <2>4. arrivals.view \in Views
    BY <1>1 DEF ArrivalsOK
  <2>5. RenderOK'
    <3>1. arrivals.view.accepted \in BOOLEAN
      BY <2>4 DEF Views
    <3>2. CASE AskRunner \/ ReadWanted \/ ReadState \/ AskWhetherEnded \/ CloseWindow \/ RunJoined
      BY <1>1, <3>2 DEF AskRunner, ReadWanted, ReadState, AskWhetherEnded, CloseWindow, RunJoined, Goes, Ends, RenderOK
    <3>3. CASE ReadView
      BY <1>1, <2>4, <3>3 DEF ReadView, Ends, RenderOK
    <3>4. CASE FinishFrame
      BY <1>1, <3>1, <3>4 DEF FinishFrame, Ends, RenderOK
    <3>5. QED
      BY <1>4, <3>2, <3>3, <3>4 DEF Watching
  <2>6. (result \in Results)'
    BY <1>1, <1>4 DEF Watching, AskRunner, ReadView, ReadWanted, ReadState, AskWhetherEnded, FinishFrame,
       CloseWindow, RunJoined, Goes, Ends, Verdict, RunnerOK, Latches, Results
  <2>7. QED
    BY <1>3, <2>2, <2>3, <2>5, <2>6 DEF SessionTypeOK
<1>5. CASE ReportReady
  <2>1. RemoteOK' /\ ChannelOK' /\ LatchesOK'
    BY <1>1, <1>5, TypeOfSend DEF ReportReady
  <2>2. RunnerOK' /\ RenderOK'
    BY <1>1, <1>5 DEF ReportReady, Goes, RunnerOK, RenderOK
  <2>3. (result \in Results)'
    BY <1>1, <1>5 DEF ReportReady, Goes
  <2>4. QED
    BY <1>3, <2>1, <2>2, <2>3 DEF SessionTypeOK
<1>6. CASE StopAndJoin
  <2>1. RemoteOK' /\ ChannelOK' /\ LatchesOK'
    BY <1>1, <1>6 DEF StopAndJoin, netVars, RemoteOK, ChannelOK, LatchesOK
  <2>2. RunnerOK' /\ RenderOK'
    BY <1>1, <1>6 DEF StopAndJoin, Goes, RunnerOK, RenderOK
  <2>3. (result \in Results)'
    BY <1>1, <1>6 DEF StopAndJoin, Goes
  <2>4. QED
    BY <1>3, <2>1, <2>2, <2>3 DEF SessionTypeOK
<1>7. QED
  BY <1>4, <1>5, <1>6 DEF RenderThread, Watching

LEMMA TypeStep ==
  SessionTypeOK /\ [SessionNext]_sessionVars => SessionTypeOK'
<1>1. SUFFICES ASSUME SessionTypeOK, [SessionNext]_sessionVars
               PROVE  SessionTypeOK'
  OBVIOUS
<1>2. CASE Elsewhere /\ UNCHANGED <<netVars, latches, runner, mainVars>>
  <2>1. RemoteOK'
    BY <1>1, <1>2, TypeElsewhere DEF SessionTypeOK
  <2>2. QED
    BY <1>1, <1>2, <2>1 DEF SessionTypeOK, netVars, mainVars, ChannelOK, ArrivalsOK, RunnerOK, RenderOK, LatchesOK
<1>3. CASE UNCHANGED sessionVars
  BY <1>1, <1>3 DEF SessionTypeOK, sessionVars, RemoteOK, ChannelOK, ArrivalsOK, RunnerOK, RenderOK, LatchesOK
<1>4. QED
  BY <1>1, <1>2, <1>3, TypeOfNetwork, TypeOfPrediction, TypeOfRender DEF SessionNext

-----------------------------------------------------------------------------
(***************************************************************************)
(* A part of a prefix, from its beginning, is one too; and a prefix that   *)
(* is all there is grows as the whole does.                                *)
(***************************************************************************)
LEMMA PrefixOfPrefix ==
  ASSUME NEW s \in Said, NEW a \in Said, NEW b \in Said,
         Len(a \o b) <= Len(s), a \o b = SubSeq(s, 1, Len(a \o b))
  PROVE  Len(a) <= Len(s) /\ a = SubSeq(s, 1, Len(a))
<1>1. s \in Seq(Messages) /\ a \in Seq(Messages) /\ b \in Seq(Messages)
  BY DEF Said
<1>2. Len(a \o b) = Len(a) + Len(b) /\ Len(a) \in Nat /\ Len(b) \in Nat /\ Len(s) \in Nat
  BY <1>1, ConcatProperties, LenProperties
<1>3. Len(a) <= Len(s)
  BY <1>2
<1>4. ASSUME NEW i \in 1 .. Len(a)
      PROVE  a[i] = s[i]
  <2>1. (a \o b)[i] = a[i]
    BY <1>1, <1>2, ConcatProperties
  <2>2. SubSeq(s, 1, Len(a \o b))[i] = s[i]
    BY <1>1, <1>2
  <2>3. QED
    BY <2>1, <2>2
<1>5. SubSeq(s, 1, Len(a)) \in Seq(Messages) /\ Len(SubSeq(s, 1, Len(a))) = Len(a)
  BY <1>1, <1>2, <1>3
<1>6. \A i \in 1 .. Len(a) : SubSeq(s, 1, Len(a))[i] = s[i]
  BY <1>1, <1>2, <1>3
<1>7. QED
  BY <1>1, <1>3, <1>4, <1>5, <1>6, SeqEqual

LEMMA PrefixGrows ==
  ASSUME NEW s \in Said, NEW x \in Said, NEW m \in Messages, Len(x) = Len(s), x = SubSeq(s, 1, Len(x))
  PROVE  /\ Len(Append(x, m)) = Len(Append(s, m))
         /\ Append(x, m) = SubSeq(Append(s, m), 1, Len(Append(x, m)))
<1>1. s \in Seq(Messages) /\ x \in Seq(Messages)
  BY DEF Said
<1>2. x = s
  BY <1>1, SubSeqFull
<1>3. Append(s, m) \in Seq(Messages)
  BY <1>1
<1>4. QED
  BY <1>2, <1>3, SubSeqFull

LEMMA SaidLater ==
  ASSUME NEW a \in Said, NEW b \in Said, NEW m \in Messages
  PROVE  a \o Append(b, m) = Append(a \o b, m)
<1>1. a \in Seq(Messages) /\ b \in Seq(Messages) /\ a \o b \in Seq(Messages) /\ <<m>> \in Seq(Messages)
  BY ConcatProperties DEF Said
<1>2. a \o (b \o <<m>>) = (a \o b) \o <<m>>
  BY <1>1, ConcatAssociative
<1>3. QED
  BY <1>1, <1>2, AppendIsConcat

LEMMA HandedOver ==
  ASSUME NEW a \in Said, NEW b \in Said, b # <<>>
  PROVE  Append(a, Head(b)) \o Tail(b) = a \o b
<1>1. a \in Seq(Messages) /\ b \in Seq(Messages)
  BY DEF Said
<1>2. Head(b) \in Messages /\ Tail(b) \in Seq(Messages)
  BY <1>1, HeadTailProperties
<1>3. Append(a, Head(b)) = a \o <<Head(b)>>
  BY <1>1, <1>2, AppendIsConcat
<1>4. (a \o <<Head(b)>>) \o Tail(b) = a \o (<<Head(b)>> \o Tail(b))
  <2>1. <<Head(b)>> \in Seq(Messages)
    BY <1>2
  <2>2. QED
    BY <1>1, <1>2, <2>1, ConcatAssociative
<1>5. <<Head(b)>> \o Tail(b) = b
  <2>1. <<Head(b)>> \in Seq(Messages) /\ Len(<<Head(b)>>) = 1 /\ <<Head(b)>>[1] = Head(b)
    BY <1>2
  <2>2. Len(b) \in Nat /\ Len(b) # 0 /\ Len(Tail(b)) = Len(b) - 1
    BY <1>1
  <2>3. <<Head(b)>> \o Tail(b) \in Seq(Messages) /\ Len(<<Head(b)>> \o Tail(b)) = Len(b)
    BY <1>2, <2>1, <2>2, ConcatProperties
  <2>4. ASSUME NEW i \in 1 .. Len(b)
        PROVE  (<<Head(b)>> \o Tail(b))[i] = b[i]
    <3>1. (<<Head(b)>> \o Tail(b))[i] = IF i <= 1 THEN <<Head(b)>>[i] ELSE Tail(b)[i - 1]
      BY <1>2, <2>1, <2>2, ConcatProperties
    <3>2. i # 1 => Tail(b)[i - 1] = b[i]
      <4>1. SUFFICES ASSUME i # 1 PROVE Tail(b)[i - 1] = b[i]
        OBVIOUS
      <4>2. i - 1 \in 1 .. Len(Tail(b))
        BY <2>2, <4>1
      <4>3. QED
        BY <1>1, <4>2, HeadTailProperties
    <3>3. Head(b) = b[1]
      BY <1>1
    <3>4. QED
      BY <2>1, <3>1, <3>2, <3>3
  <2>5. QED
    BY <1>1, <2>3, <2>4, SeqEqual
<1>6. QED
  BY <1>3, <1>4, <1>5

LEMMA JoinsEitherWay ==
  ASSUME NEW a \in Said, NEW b \in Said, NEW c \in Said
  PROVE  a \o (b \o c) = (a \o b) \o c
<1>1. a \in Seq(Messages) /\ b \in Seq(Messages) /\ c \in Seq(Messages)
  BY DEF Said
<1>2. QED
  BY <1>1, ConcatAssociative

(* Nothing of the four parts is missed or said twice by joining them. *)
LEMMA JoinedWay ==
  ASSUME NEW a \in Said, NEW b \in Said, NEW c \in Said, NEW d \in Said
  PROVE  /\ a \o b \in Said /\ (a \o b) \o c \in Said /\ ((a \o b) \o c) \o d \in Said
         /\ ((a \o <<>>) \o <<>>) \o d = ((a \o d) \o <<>>) \o <<>>
         /\ ((a \o <<>>) \o c) \o d = ((a \o c) \o <<>>) \o d
         /\ ((a \o b) \o <<>>) \o <<>> = a \o b
<1>1. a \in Seq(Messages) /\ b \in Seq(Messages) /\ c \in Seq(Messages) /\ d \in Seq(Messages)
  BY DEF Said
<1>2. a \o b \in Said /\ a \o c \in Said /\ a \o d \in Said /\ c \o d \in Said
  BY SaidFacts
<1>3. (a \o b) \o c \in Said
  BY <1>2, SaidFacts
<1>4. ((a \o b) \o c) \o d \in Said
  BY <1>3, SaidFacts
<1>5. \A s \in Said : s \o <<>> = s
  BY ConcatEmptySeq DEF Said
<1>6. QED
  BY <1>2, <1>3, <1>4, <1>5

(***************************************************************************)
(* What a step does to the line: nothing, one more message, or it gives up *)
(* what was at its end.                                                    *)
(***************************************************************************)
StaysGone == runner.network \in {"returning", "done"} => runner'.network \in {"returning", "done"}

LEMMA SomeOfWay ==
  ASSUME SessionTypeOK
  PROVE  /\ arrivals.heard \in Said /\ arrivals.hand \in Said /\ channel.kept \in Said /\ remote.arrived \in Said
         /\ remote.said \in Said /\ OnTheWay \in Said
<1>1. /\ arrivals.heard \in Said /\ arrivals.hand \in Said /\ channel.kept \in Said /\ remote.arrived \in Said
      /\ remote.said \in Said
  BY DEF SessionTypeOK, ArrivalsOK, ChannelOK, RemoteOK
<1>2. QED
  BY <1>1, JoinedWay DEF OnTheWay

LEMMA SameWay ==
  ASSUME WayInv, UNCHANGED OnTheWay, remote'.said = remote.said, GaveUp => GaveUp'
  PROVE  WayInv'
<1>1. Len(OnTheWay') <= Len(remote'.said) /\ OnTheWay' = SubSeq(remote'.said, 1, Len(OnTheWay'))
  BY DEF WayInv, HeardInOrder
<1>2. GaveUp' \/ Len(OnTheWay') = Len(remote'.said)
  BY DEF WayInv, HeardInOrder
<1>3. QED
  BY <1>1, <1>2 DEF WayInv, HeardInOrder

LEMMA LongerWay ==
  ASSUME SessionTypeOK, WayInv, ~GaveUp, NEW m \in Messages,
         UNCHANGED <<arrivals, channel>>,
         remote'.arrived = Append(remote.arrived, m), remote'.said = Append(remote.said, m)
  PROVE  WayInv'
<1>1. OnTheWay' = Append(OnTheWay, m)
  <2>1. /\ arrivals.heard \in Said /\ arrivals.hand \in Said /\ channel.kept \in Said /\ remote.arrived \in Said
    BY SomeOfWay
  <2>2. (arrivals.heard \o arrivals.hand) \o channel.kept \in Said
    BY ZenonT(60), <2>1, JoinedWay
  <2>3. ((arrivals.heard \o arrivals.hand) \o channel.kept) \o Append(remote.arrived, m) =
          Append(((arrivals.heard \o arrivals.hand) \o channel.kept) \o remote.arrived, m)
    BY <2>1, <2>2, SaidLater
  <2>4. QED
    BY <2>3 DEF OnTheWay
<1>2. OnTheWay \in Said /\ remote.said \in Said
  BY SomeOfWay
<1>3. Len(OnTheWay) = Len(remote.said) /\ OnTheWay = SubSeq(remote.said, 1, Len(OnTheWay))
  BY DEF WayInv, HeardInOrder
<1>4. /\ Len(OnTheWay') = Len(remote'.said)
      /\ OnTheWay' = SubSeq(remote'.said, 1, Len(OnTheWay'))
  BY <1>1, <1>2, <1>3, PrefixGrows
<1>5. Len(remote'.said) \in Nat
  <2>1. Append(remote.said, m) \in Seq(Messages)
    BY <1>2 DEF Said
  <2>2. QED
    BY <2>1
<1>6. QED
  BY <1>4, <1>5 DEF WayInv, HeardInOrder

LEMMA ShorterWay ==
  ASSUME SessionTypeOK, WayInv, NEW a \in Said, NEW b \in Said, OnTheWay = a \o b,
         OnTheWay' = a, remote'.said = remote.said, GaveUp'
  PROVE  WayInv'
<1>1. Len(a \o b) <= Len(remote.said) /\ a \o b = SubSeq(remote.said, 1, Len(a \o b))
  BY DEF WayInv, HeardInOrder
<1>2. Len(a) <= Len(remote.said) /\ a = SubSeq(remote.said, 1, Len(a))
  BY <1>1, SomeOfWay, PrefixOfPrefix
<1>3. QED
  BY <1>2 DEF WayInv, HeardInOrder

LEMMA GoneStays ==
  ASSUME SessionTypeOK, SessionNext
  PROVE  StaysGone
<1>1. RunnerOK
  BY DEF SessionTypeOK
<1>2. CASE UNCHANGED runner
  BY <1>2 DEF StaysGone
<1>3. CASE NetworkThread
  BY <1>1, <1>3 DEF NetworkThread, StartSession, Want, StartPump, PumpEvents, Ask, ReceiveMessages, HandToInbox,
     NetworkResult, Unwant, Disconnect, NetworkReturns, NetworkAt, NetworkGoes, StaysGone, RunnerOK
<1>4. CASE PredictionThread
  BY <1>1, <1>4 DEF PredictionThread, AwaitTickRate, PredictionTick, PredictionResult, PredictionGoes, StaysGone, RunnerOK
<1>5. CASE RenderThread
  BY <1>1, <1>5 DEF RenderThread, AskRunner, ReadView, ReadWanted, ReadState, AskWhetherEnded, FinishFrame, ReportReady,
     CloseWindow, StopAndJoin, RunJoined, Reads, StaysGone, RunnerOK
<1>6. QED
  BY <1>2, <1>3, <1>4, <1>5 DEF SessionNext

LEMMA WayOfSend ==
  ASSUME SessionTypeOK, WayInv, UNCHANGED arrivals, StaysGone,
         NEW sent, sent \in {remote, Asking}, Send(sent)
  PROVE  WayInv'
<1>1. RemoteOK /\ ChannelOK
  BY DEF SessionTypeOK
<1>2. CASE UNCHANGED channel /\ remote' \in {remote, sent}
  <2>1. remote'.arrived = remote.arrived /\ remote'.said = remote.said /\ remote'.ended = remote.ended
    BY <1>1, <1>2 DEF RemoteOK, Asking
  <2>2. UNCHANGED OnTheWay
    BY <1>2, <2>1 DEF OnTheWay
  <2>3. GaveUp => GaveUp'
    BY <2>1 DEF GaveUp, StaysGone
  <2>4. QED
    BY <2>1, <2>2, <2>3, SameWay
<1>3. CASE QueueIsFull
  <2>1. remote'.arrived = <<>> /\ remote'.said = remote.said /\ remote'.ended = "full" /\ channel'.kept = channel.kept
    BY <1>1, <1>3 DEF QueueIsFull, RemoteOK, ChannelOK
  <2>2. /\ arrivals.heard \in Said /\ arrivals.hand \in Said /\ channel.kept \in Said /\ remote.arrived \in Said
    BY SomeOfWay
  <2>3. (arrivals.heard \o arrivals.hand) \o channel.kept \in Said
    BY <2>2, JoinedWay
  <2>4. OnTheWay' = (arrivals.heard \o arrivals.hand) \o channel.kept
    <3>1. \A s \in Said : s \o <<>> = s
      BY ConcatEmptySeq DEF Said
    <3>2. QED
      BY <2>1, <2>3, <3>1 DEF OnTheWay
  <2>5. OnTheWay = ((arrivals.heard \o arrivals.hand) \o channel.kept) \o remote.arrived
    BY DEF OnTheWay
  <2>6. GaveUp'
    BY <2>1 DEF GaveUp
  <2>7. QED
    BY <2>1, <2>2, <2>3, <2>4, <2>5, <2>6, ShorterWay
<1>4. QED
  BY <1>2, <1>3, SendEffect DEF Records

LEMMA WayElsewhere ==
  ASSUME SessionTypeOK, LineInv, Elsewhere, UNCHANGED <<netVars, latches, runner, mainVars>>
  PROVE  WayInv'
<1>1. RemoteOK /\ WayInv /\ UNCHANGED <<arrivals, channel>> /\ UNCHANGED runner
  BY DEF SessionTypeOK, LineInv, netVars
<1>2. ASSUME NEW m \in Messages, NEW stage, remote.stage # "closed", Says(m, stage)
      PROVE  WayInv'
  <2>1. remote'.arrived = Append(remote.arrived, m) /\ remote'.said = Append(remote.said, m)
    BY <1>1, <1>2 DEF Says, RemoteOK
  <2>2. ~GaveUp
    BY <1>2 DEF LineInv, PlacesInv
  <2>3. QED
    BY <1>1, <2>1, <2>2, LongerWay
<1>3. CASE ServerAnswers \/ ServerEndsMatch
  BY <1>2, <1>3 DEF ServerAnswers, ServerEndsMatch, Messages
<1>4. CASE ServerAccepts \/ ServerCloses \/ ConnectionIsLost
  <2>1. remote'.arrived = remote.arrived /\ remote'.said = remote.said
    BY <1>1, <1>4 DEF ServerAccepts, ServerCloses, ConnectionIsLost, WireEnds, RemoteOK
  <2>2. UNCHANGED OnTheWay
    BY <1>1, <2>1 DEF OnTheWay
  <2>3. remote.stage # "closed"
    BY <1>4 DEF ServerAccepts, ServerCloses, ConnectionIsLost
  <2>4. ~GaveUp
    BY <2>3 DEF LineInv, PlacesInv
  <2>5. QED
    BY <1>1, <2>1, <2>2, <2>4, SameWay
<1>5. QED
  BY <1>3, <1>4 DEF Elsewhere

(* The steps that leave what is on the way where it is. *)
LEMMA WayOfQuietSteps ==
  ASSUME SessionTypeOK, LineInv, StaysGone,
         Want \/ StartPump \/ NetworkResult \/ Unwant \/ NetworkReturns \/ UNCHANGED <<remote, channel, arrivals>>
  PROVE  WayInv'
<1>1. UNCHANGED <<remote, channel, arrivals>>
  BY DEF Want, StartPump, NetworkResult, Unwant, NetworkReturns, netVars
<1>2. UNCHANGED OnTheWay /\ remote'.said = remote.said
  BY <1>1 DEF OnTheWay
<1>3. GaveUp => GaveUp'
  BY <1>1 DEF GaveUp, StaysGone
<1>4. QED
  BY <1>2, <1>3, SameWay DEF LineInv

LEMMA WayOfStart ==
  ASSUME SessionTypeOK, LineInv, StartSession
  PROVE  WayInv'
<1>1. RemoteOK /\ runner.network = "connect" /\ WayInv /\ UNCHANGED arrivals
  BY DEF SessionTypeOK, LineInv, StartSession, NetworkAt
<1>2. channel = NoChannel /\ remote.ended = "no"
  BY <1>1 DEF LineInv, PlacesInv
<1>3. channel'.kept = channel.kept
  BY <1>2 DEF StartSession, NoChannel
<1>4. remote'.arrived = remote.arrived /\ remote'.said = remote.said
  BY <1>1 DEF StartSession, RemoteOK
<1>5. UNCHANGED OnTheWay
  BY <1>1, <1>3, <1>4 DEF OnTheWay
<1>6. ~GaveUp
  BY <1>1, <1>2 DEF GaveUp
<1>7. QED
  BY <1>1, <1>4, <1>5, <1>6, SameWay

LEMMA WayOfPump ==
  ASSUME SessionTypeOK, LineInv, StaysGone, PumpEvents
  PROVE  WayInv'
<1>1. RemoteOK /\ ChannelOK /\ WayInv /\ UNCHANGED arrivals
  BY DEF SessionTypeOK, LineInv, PumpEvents
<1>2. CASE UNCHANGED <<remote, channel>>
  BY <1>1, <1>2, WayOfQuietSteps
<1>3. CASE /\ remote.events # <<>> /\ channel' = ApplyToClient(Head(remote.events))
           /\ remote' = [remote EXCEPT !.events = Tail(@),
                                       !.arrived = IF Head(remote.events) = "ended" THEN <<>> ELSE @]
  <2>1. remote'.said = remote.said /\ remote'.ended = remote.ended
    BY <1>1, <1>3 DEF RemoteOK
  <2>2. GaveUp => GaveUp'
    BY <2>1 DEF GaveUp, StaysGone
  <2>3. Head(remote.events) \in {"connected", "ended"}
    BY <1>1, <1>3, EventFacts DEF RemoteOK
  <2>4. CASE Head(remote.events) = "connected"
    <3>1. channel'.kept = channel.kept /\ remote'.arrived = remote.arrived
      BY <1>1, <1>3, <2>4 DEF ApplyToClient, ChannelOK, RemoteOK
    <3>2. UNCHANGED OnTheWay
      BY <1>1, <3>1 DEF OnTheWay
    <3>3. QED
      BY <1>1, <2>1, <2>2, <3>2, SameWay
  <2>5. CASE Head(remote.events) = "ended"
    <3>1. channel'.kept = channel.kept \o remote.arrived /\ remote'.arrived = <<>>
      BY <1>1, <1>3, <2>5 DEF ApplyToClient, NoChannel, RemoteOK
    <3>2. /\ arrivals.heard \in Said /\ arrivals.hand \in Said /\ channel.kept \in Said /\ remote.arrived \in Said
      BY SomeOfWay
    <3>3. ((arrivals.heard \o arrivals.hand) \o (channel.kept \o remote.arrived)) \o <<>> =
            ((arrivals.heard \o arrivals.hand) \o channel.kept) \o remote.arrived
      <4>1. ASSUME NEW x \in Said
            PROVE  x \o (channel.kept \o remote.arrived) = (x \o channel.kept) \o remote.arrived
        BY <3>2, JoinsEitherWay, ZenonT(60)
      <4>2. ASSUME NEW x \in Said
            PROVE  x \o <<>> = x
        BY ConcatEmptySeq DEF Said
      <4>3. /\ arrivals.heard \o arrivals.hand \in Said
            /\ ((arrivals.heard \o arrivals.hand) \o channel.kept) \o remote.arrived \in Said
        BY <3>2, JoinedWay
      <4>4. QED
        BY <4>1, <4>2, <4>3, Zenon
    <3>4. UNCHANGED OnTheWay
      BY <1>1, <3>1, <3>3 DEF OnTheWay
    <3>5. QED
      BY <1>1, <2>1, <2>2, <3>4, SameWay
  <2>6. QED
    BY <2>3, <2>4, <2>5
<1>4. QED
  BY <1>2, <1>3 DEF PumpEvents

LEMMA WayOfReceive ==
  ASSUME SessionTypeOK, LineInv, StaysGone, ReceiveMessages
  PROVE  WayInv'
<1>1. RemoteOK /\ ChannelOK /\ ArrivalsOK /\ WayInv
  BY DEF SessionTypeOK, LineInv
<1>2. CASE UNCHANGED <<remote, channel, arrivals>>
  BY <1>2, WayOfQuietSteps
<1>3. CASE /\ arrivals' = [arrivals EXCEPT !.hand = IF channel.connection THEN remote.arrived ELSE channel.kept]
           /\ IF channel.connection THEN remote' = [remote EXCEPT !.arrived = <<>>] /\ UNCHANGED channel
              ELSE channel' = [channel EXCEPT !.kept = <<>>] /\ UNCHANGED remote
  <2>1. remote'.said = remote.said /\ remote'.ended = remote.ended
    BY <1>1, <1>3 DEF RemoteOK
  <2>2. GaveUp => GaveUp'
    BY <2>1 DEF GaveUp, StaysGone
  <2>3. arrivals.hand = <<>>
    BY DEF ReceiveMessages, NetworkAt, LineInv, PlacesInv
  <2>4. /\ arrivals.heard \in Said /\ channel.kept \in Said /\ remote.arrived \in Said
    BY SomeOfWay
  <2>5. arrivals'.heard = arrivals.heard
    BY <1>1, <1>3 DEF ArrivalsOK
  <2>6. CASE channel.connection
    <3>1. channel.kept = <<>> /\ channel'.kept = <<>>
      BY <1>3, <2>6 DEF LineInv, PlacesInv
    <3>2. arrivals'.hand = remote.arrived /\ remote'.arrived = <<>>
      BY <1>1, <1>3, <2>6 DEF ArrivalsOK, RemoteOK
    <3>3. ((arrivals.heard \o <<>>) \o <<>>) \o remote.arrived =
            ((arrivals.heard \o remote.arrived) \o <<>>) \o <<>>
      BY <2>4, JoinedWay
    <3>4. UNCHANGED OnTheWay
      BY <2>3, <2>5, <3>1, <3>2, <3>3 DEF OnTheWay
    <3>5. QED
      BY <1>1, <2>1, <2>2, <3>4, SameWay
  <2>7. CASE ~channel.connection
    <3>1. arrivals'.hand = channel.kept /\ channel'.kept = <<>> /\ remote'.arrived = remote.arrived
      BY <1>1, <1>3, <2>7 DEF ArrivalsOK, ChannelOK
    <3>2. ((arrivals.heard \o <<>>) \o channel.kept) \o remote.arrived =
            ((arrivals.heard \o channel.kept) \o <<>>) \o remote.arrived
      BY <2>4, JoinedWay
    <3>3. UNCHANGED OnTheWay
      BY <2>3, <2>5, <3>1, <3>2 DEF OnTheWay
    <3>4. QED
      BY <1>1, <2>1, <2>2, <3>3, SameWay
  <2>8. QED
    BY <2>6, <2>7
<1>4. QED
  BY <1>2, <1>3 DEF ReceiveMessages

LEMMA WayOfHanding ==
  ASSUME SessionTypeOK, LineInv, StaysGone, HandToInbox
  PROVE  WayInv'
<1>1. ArrivalsOK /\ WayInv /\ UNCHANGED <<remote, channel>>
  BY DEF SessionTypeOK, LineInv, HandToInbox
<1>2. CASE UNCHANGED arrivals
  BY <1>1, <1>2, WayOfQuietSteps
<1>3. CASE /\ arrivals.hand # <<>>
           /\ arrivals' = [hand |-> Tail(arrivals.hand), view |-> ViewAfter(Head(arrivals.hand)),
                           heard |-> Append(arrivals.heard, Head(arrivals.hand))]
  <2>1. arrivals'.heard = Append(arrivals.heard, Head(arrivals.hand)) /\ arrivals'.hand = Tail(arrivals.hand)
    BY <1>3
  <2>2. arrivals'.heard \o arrivals'.hand = arrivals.heard \o arrivals.hand
    BY <1>3, <2>1, SomeOfWay, HandedOver
  <2>3. UNCHANGED OnTheWay
    BY <1>1, <2>2 DEF OnTheWay
  <2>4. GaveUp => GaveUp'
    BY <1>1 DEF GaveUp, StaysGone
  <2>5. QED
    BY <1>1, <2>3, <2>4, SameWay
<1>4. QED
  BY <1>2, <1>3 DEF HandToInbox

LEMMA WayOfDisconnect ==
  ASSUME SessionTypeOK, LineInv, Disconnect
  PROVE  WayInv'
<1>1. RemoteOK /\ RunnerOK /\ WayInv /\ UNCHANGED arrivals
  BY DEF SessionTypeOK, LineInv, Disconnect
<1>2. remote'.arrived = <<>> /\ remote'.said = remote.said /\ channel'.kept = <<>>
  BY <1>1 DEF Disconnect, RemoteOK, NoChannel
<1>3. runner'.network = "returning"
  BY <1>1 DEF Disconnect, NetworkGoes, RunnerOK
<1>4. /\ arrivals.heard \in Said /\ arrivals.hand \in Said /\ channel.kept \in Said /\ remote.arrived \in Said
  BY SomeOfWay
<1>5. arrivals.heard \o arrivals.hand \in Said /\ channel.kept \o remote.arrived \in Said
  BY <1>4, SaidFacts
<1>6. OnTheWay = (arrivals.heard \o arrivals.hand) \o (channel.kept \o remote.arrived)
  <2>1. ASSUME NEW x \in Said
        PROVE  x \o (channel.kept \o remote.arrived) = (x \o channel.kept) \o remote.arrived
    BY <1>4, JoinsEitherWay, ZenonT(60)
  <2>2. QED
    BY <1>5, <2>1, Zenon DEF OnTheWay
<1>7. OnTheWay' = arrivals.heard \o arrivals.hand
  <2>1. ((arrivals.heard \o arrivals.hand) \o <<>>) \o <<>> = arrivals.heard \o arrivals.hand
    BY <1>4, JoinedWay
  <2>2. QED
    BY <1>1, <1>2, <2>1 DEF OnTheWay
<1>8. GaveUp'
  BY <1>3 DEF GaveUp
<1>9. QED
  BY <1>1, <1>2, <1>5, <1>6, <1>7, <1>8, ShorterWay

LEMMA WayStep ==
  ASSUME SessionTypeOK, LineInv, SessionNext
  PROVE  WayInv'
<1>1. StaysGone
  BY GoneStays
<1>2. CASE Elsewhere /\ UNCHANGED <<netVars, latches, runner, mainVars>>
  BY <1>2, WayElsewhere
<1>3. CASE NetworkThread
  <2>1. CASE Ask
    <3>1. UNCHANGED arrivals /\ (Send(Asking) \/ UNCHANGED <<remote, channel, arrivals>>)
      BY <2>1 DEF Ask, Asking
    <3>2. WayInv
      BY DEF LineInv
    <3>3. QED
      BY <1>1, <3>1, <3>2, WayOfSend, WayOfQuietSteps
  <2>2. QED
    BY <1>1, <1>3, <2>1, WayOfStart, WayOfPump, WayOfReceive, WayOfHanding, WayOfDisconnect, WayOfQuietSteps
       DEF NetworkThread
<1>4. CASE PredictionThread \/ RenderThread
  <2>1. UNCHANGED arrivals /\ (Send(remote) \/ UNCHANGED <<remote, channel, arrivals>>)
    BY <1>4 DEF PredictionThread, AwaitTickRate, PredictionTick, PredictionResult, RenderThread, AskRunner, ReadView,
       ReadWanted, ReadState, AskWhetherEnded, FinishFrame, ReportReady, CloseWindow, StopAndJoin, RunJoined, Reads,
       netVars
  <2>2. WayInv
    BY DEF LineInv
  <2>3. QED
    BY <1>1, <2>1, <2>2, WayOfSend, WayOfQuietSteps
<1>5. QED
  BY <1>2, <1>3, <1>4 DEF SessionNext

(***************************************************************************)
(* The rest of the line: where it ends once given up, and which of its     *)
(* places may hold something.                                              *)
(***************************************************************************)
LEMMA PlacesOfSend ==
  ASSUME SessionTypeOK, PlacesInv, UNCHANGED arrivals, runner'.network = runner.network \/ runner.network = "ask",
         runner'.network \in {runner.network, "receive"}, arrivals.hand # <<>> => runner'.network = "handing",
         NEW sent, sent \in {remote, Asking}, Send(sent)
  PROVE  PlacesInv'
<1>1. RemoteOK /\ ChannelOK
  BY DEF SessionTypeOK
<1>2. CASE UNCHANGED channel /\ remote' \in {remote, sent}
  <2>1. /\ remote'.ended = remote.ended
        /\ remote'.stage = remote.stage \/ (remote.stage = "open" /\ remote'.stage = "asked")
    BY <1>1, <1>2 DEF RemoteOK, Asking
  <2>2. QED
    BY <1>2, <2>1 DEF PlacesInv, GaveUp
<1>3. CASE QueueIsFull
  <2>1. remote'.stage = "closed" /\ channel' = [channel EXCEPT !.state = "kDisconnected", !.connection = FALSE]
    BY <1>1, <1>3 DEF QueueIsFull, RemoteOK
  <2>2. channel'.connection = FALSE /\ runner'.network # "connect"
    BY <1>1, <1>3, <2>1 DEF QueueIsFull, ChannelOK, PlacesInv, NoChannel
  <2>3. QED
    BY <2>1, <2>2 DEF PlacesInv
<1>4. QED
  BY <1>2, <1>3, SendEffect DEF Records

LEMMA PlacesElsewhere ==
  ASSUME SessionTypeOK, PlacesInv, Elsewhere, UNCHANGED <<netVars, latches, runner, mainVars>>
  PROVE  PlacesInv'
<1>1. RemoteOK /\ UNCHANGED <<arrivals, channel>> /\ UNCHANGED runner
  BY DEF SessionTypeOK, netVars
<1>2. remote.stage \notin {"closed", "away"}
  BY DEF Elsewhere, ServerAccepts, ServerAnswers, ServerEndsMatch, ServerCloses, ConnectionIsLost
<1>3. runner.network # "connect" /\ ~GaveUp
  BY <1>2 DEF PlacesInv
<1>4. remote'.stage = "closed" \/ remote'.ended = remote.ended
  BY <1>1 DEF Elsewhere, ServerAccepts, ServerAnswers, ServerEndsMatch, ServerCloses, ConnectionIsLost, Says, WireEnds,
     RemoteOK
<1>5. QED
  BY <1>1, <1>3, <1>4 DEF PlacesInv, GaveUp

LEMMA PlacesOfNetwork ==
  ASSUME SessionTypeOK, PlacesInv, NetworkThread
  PROVE  PlacesInv'
<1>1. RemoteOK /\ ChannelOK /\ ArrivalsOK /\ RunnerOK
  BY DEF SessionTypeOK
<1>2. CASE StartSession
  <2>1. runner.network = "connect" /\ runner'.network = "want" /\ UNCHANGED arrivals
    BY <1>1, <1>2 DEF StartSession, NetworkAt, NetworkGoes, RunnerOK
  <2>2. channel'.kept = <<>> /\ remote.ended = "no"
    <3>1. NoChannel.kept = <<>> /\ [NoChannel EXCEPT !.state = "kConnecting", !.connection = TRUE].kept = <<>>
      BY DEF NoChannel
    <3>2. QED
      BY <1>2, <2>1, <3>1 DEF StartSession, PlacesInv
  <2>3. remote'.ended \in {"no", "never"}
    BY <1>1, <1>2, <2>2 DEF StartSession, RemoteOK
  <2>4. QED
    BY <2>1, <2>2, <2>3 DEF PlacesInv, GaveUp
<1>3. CASE Want \/ StartPump \/ NetworkResult \/ Unwant
  <2>1. UNCHANGED <<remote, channel, arrivals>>
    BY <1>3 DEF Want, StartPump, NetworkResult, Unwant, netVars
  <2>2. /\ runner.network \in {"want", "round", "result", "unwant"}
        /\ runner'.network \in {"round", "unwant", "pump", "close"}
    BY <1>1, <1>3 DEF Want, StartPump, NetworkResult, Unwant, NetworkAt, NetworkGoes, RunnerOK
  <2>3. QED
    BY <2>1, <2>2 DEF PlacesInv, GaveUp
<1>4. CASE PumpEvents
  <2>1. /\ runner.network = "pump" /\ runner'.network \in {"pump", "ask"} /\ UNCHANGED arrivals
        /\ remote'.stage = remote.stage /\ remote'.ended = remote.ended
    BY <1>1, <1>4 DEF PumpEvents, NetworkAt, NetworkGoes, RunnerOK, RemoteOK
  <2>2. channel'.connection => channel'.kept = <<>>
    BY <1>1, <1>4 DEF PumpEvents, ApplyToClient, NoChannel, ChannelOK, PlacesInv
  <2>3. QED
    BY <2>1, <2>2 DEF PlacesInv, GaveUp
<1>5. CASE Ask
  <2>1. runner.network = "ask" /\ runner'.network = "receive" /\ UNCHANGED arrivals
    BY <1>1, <1>5 DEF Ask, NetworkAt, NetworkGoes, RunnerOK
  <2>2. arrivals.hand = <<>>
    BY <2>1 DEF PlacesInv
  <2>3. CASE Send(Asking)
    BY <2>1, <2>2, <2>3, PlacesOfSend
  <2>4. CASE UNCHANGED <<remote, channel>>
    BY <2>1, <2>2, <2>4 DEF PlacesInv, GaveUp
  <2>5. QED
    BY <1>5, <2>3, <2>4 DEF Ask, Asking
<1>6. CASE ReceiveMessages
  <2>1. runner.network = "receive" /\ runner'.network \in {"handing", "result"}
    BY <1>1, <1>6 DEF ReceiveMessages, NetworkAt, NetworkGoes, RunnerOK
  <2>2. remote'.stage = remote.stage /\ remote'.ended = remote.ended
    BY <1>1, <1>6 DEF ReceiveMessages, RemoteOK
  <2>3. channel'.connection => channel'.kept = <<>>
    BY <1>1, <1>6 DEF ReceiveMessages, ChannelOK, PlacesInv
  <2>4. arrivals'.hand # <<>> => runner'.network = "handing"
    <3>1. CASE UNCHANGED arrivals
      BY <2>1, <3>1 DEF PlacesInv
    <3>2. CASE NetworkGoes("handing")
      BY <1>1, <3>2 DEF NetworkGoes, RunnerOK
    <3>3. QED
      BY <1>6, <3>1, <3>2 DEF ReceiveMessages
  <2>5. QED
    BY <2>1, <2>2, <2>3, <2>4 DEF PlacesInv, GaveUp
<1>7. CASE HandToInbox
  <2>1. runner.network = "handing" /\ runner'.network \in {"handing", "result"} /\ UNCHANGED <<remote, channel>>
    BY <1>1, <1>7 DEF HandToInbox, NetworkAt, NetworkGoes, RunnerOK
  <2>2. arrivals'.hand # <<>> => runner'.network = "handing"
    BY <1>7, <2>1 DEF HandToInbox
  <2>3. QED
    BY <2>1, <2>2 DEF PlacesInv, GaveUp
<1>8. CASE Disconnect
  <2>1. runner.network = "close" /\ runner'.network = "returning" /\ UNCHANGED arrivals
    BY <1>1, <1>8 DEF Disconnect, NetworkAt, NetworkGoes, RunnerOK
  <2>2. remote'.stage = "closed" /\ channel'.connection = FALSE
    BY <1>1, <1>8 DEF Disconnect, RemoteOK, NoChannel
  <2>3. QED
    BY <2>1, <2>2 DEF PlacesInv
<1>9. CASE NetworkReturns
  <2>1. runner.network = "returning" /\ runner'.network = "done" /\ UNCHANGED <<remote, channel, arrivals>>
    BY <1>1, <1>9 DEF NetworkReturns, NetworkAt, NetworkGoes, RunnerOK, netVars
  <2>2. QED
    BY <2>1 DEF PlacesInv, GaveUp
<1>10. QED
  BY <1>2, <1>3, <1>4, <1>5, <1>6, <1>7, <1>8, <1>9 DEF NetworkThread

LEMMA LineStep ==
  ASSUME SessionTypeOK, LineInv, SessionNext
  PROVE  LineInv'
<1>1. PlacesInv
  BY DEF LineInv
<1>2. PlacesInv'
  <2>1. CASE Elsewhere /\ UNCHANGED <<netVars, latches, runner, mainVars>>
    BY <1>1, <2>1, PlacesElsewhere
  <2>2. CASE NetworkThread
    BY <1>1, <2>2, PlacesOfNetwork
  <2>3. CASE PredictionThread \/ RenderThread
    <3>1. UNCHANGED arrivals /\ (Send(remote) \/ UNCHANGED <<remote, channel>>)
      BY <2>3 DEF PredictionThread, AwaitTickRate, PredictionTick, PredictionResult, RenderThread, AskRunner, ReadView,
         ReadWanted, ReadState, AskWhetherEnded, FinishFrame, ReportReady, CloseWindow, StopAndJoin, RunJoined, Reads,
         netVars
    <3>2. RunnerOK
      BY DEF SessionTypeOK
    <3>3. runner'.network = runner.network
      BY <2>3, <3>2 DEF PredictionThread, AwaitTickRate, PredictionTick, PredictionResult, PredictionGoes, RenderThread,
         AskRunner, ReadView, ReadWanted, ReadState, AskWhetherEnded, FinishFrame, ReportReady, CloseWindow, StopAndJoin,
         RunJoined, Reads, RunnerOK
    <3>4. CASE Send(remote)
      BY <1>1, <3>1, <3>3, <3>4, PlacesOfSend DEF PlacesInv
    <3>5. CASE UNCHANGED <<remote, channel>>
      BY <1>1, <3>1, <3>3, <3>5 DEF PlacesInv, GaveUp
    <3>6. QED
      BY <3>1, <3>4, <3>5
  <2>4. QED
    BY <2>1, <2>2, <2>3 DEF SessionNext
<1>3. WayInv'
  BY WayStep
<1>4. QED
  BY <1>2, <1>3 DEF LineInv

-----------------------------------------------------------------------------
(***************************************************************************)
(* What was handed on stays handed on, and the view is of that.            *)
(***************************************************************************)
LEMMA HandedOnStays ==
  ASSUME SessionTypeOK, SessionNext, NEW m, HandedOn(m)
  PROVE  HandedOn(m)'
<1>1. arrivals.heard \in Seq(Messages) /\ ArrivalsOK
  BY SomeOfWay DEF Said, SessionTypeOK
<1>2. CASE arrivals'.heard = arrivals.heard
  BY <1>2 DEF HandedOn
<1>3. CASE HandToInbox /\ arrivals'.heard # arrivals.heard
  <2>1. arrivals'.heard = Append(arrivals.heard, Head(arrivals.hand)) /\ arrivals.hand # <<>>
    BY <1>3 DEF HandToInbox
  <2>2. Head(arrivals.hand) \in Messages
    BY <2>1, SomeOfWay, SaidFacts
  <2>3. PICK i \in DOMAIN arrivals.heard : arrivals.heard[i] = m
    BY DEF HandedOn
  <2>4. i \in DOMAIN arrivals'.heard /\ arrivals'.heard[i] = m
    BY <1>1, <2>1, <2>2, <2>3
  <2>5. QED
    BY <2>4 DEF HandedOn
<1>4. arrivals'.heard = arrivals.heard \/ HandToInbox
  <2>1. CASE NetworkThread
    BY <1>1, <2>1 DEF NetworkThread, StartSession, Want, StartPump, PumpEvents, Ask, ReceiveMessages, NetworkResult,
       Unwant, Disconnect, NetworkReturns, netVars, ArrivalsOK
  <2>2. CASE PredictionThread
    BY <2>2 DEF PredictionThread, AwaitTickRate, PredictionTick, PredictionResult, netVars
  <2>3. CASE RenderThread
    BY <2>3 DEF RenderThread, AskRunner, ReadView, ReadWanted, ReadState, AskWhetherEnded, FinishFrame, ReportReady,
       CloseWindow, StopAndJoin, RunJoined, Reads, netVars
  <2>4. QED
    BY <2>1, <2>2, <2>3 DEF SessionNext, netVars
<1>5. QED
  BY <1>2, <1>3, <1>4

LEMMA ToldStep ==
  ASSUME SessionTypeOK, ToldInv, SessionNext
  PROVE  ToldInv'
<1>1. ArrivalsOK /\ RenderOK
  BY DEF SessionTypeOK
<1>2. \A m : HandedOn(m) => HandedOn(m)'
  BY HandedOnStays
<1>3. CASE HandToInbox /\ ~UNCHANGED arrivals
  <2>1. /\ arrivals.hand # <<>> /\ UNCHANGED render
        /\ arrivals' = [hand |-> Tail(arrivals.hand), view |-> ViewAfter(Head(arrivals.hand)),
                        heard |-> Append(arrivals.heard, Head(arrivals.hand))]
    BY <1>3 DEF HandToInbox, mainVars
  <2>2. PICK h \in Messages : h = Head(arrivals.hand)
    BY <2>1, SomeOfWay, SaidFacts
  <2>3. arrivals.heard \in Seq(Messages)
    BY SomeOfWay DEF Said
  <2>4. arrivals'.heard = Append(arrivals.heard, h)
    BY <2>1, <2>2
  <2>5. Len(arrivals.heard) + 1 \in DOMAIN arrivals'.heard /\ arrivals'.heard[Len(arrivals.heard) + 1] = h
    BY <2>3, <2>4, <2>2
  <2>6. HandedOn(h)'
    BY <2>5 DEF HandedOn
  <2>7. arrivals'.view = ViewAfter(h)
    BY <2>1, <2>2
  <2>8. /\ arrivals'.view.accepted => arrivals.view.accepted \/ h = "Admission"
        /\ arrivals'.view.refusal => arrivals.view.refusal \/ h = "Refusal"
        /\ arrivals'.view.matchEnd => arrivals.view.matchEnd \/ h = "MatchEnd"
    BY <1>1, <2>7 DEF ViewAfter, ArrivalsOK, Views
  <2>9. QED
    BY <1>2, <2>1, <2>6, <2>8, Zenon DEF ToldInv
<1>4. CASE arrivals'.view = arrivals.view
  <2>1. render'.read = render.read \/ render'.read = arrivals.view
    <3>1. CASE UNCHANGED render
      BY <3>1
    <3>2. CASE RenderThread
      BY <1>1, <3>2 DEF RenderThread, AskRunner, ReadView, ReadWanted, ReadState, AskWhetherEnded, FinishFrame,
         ReportReady, CloseWindow, StopAndJoin, RunJoined, Goes, Ends, RenderOK
    <3>3. NetworkThread \/ PredictionThread => UNCHANGED render
      BY DEF NetworkThread, StartSession, Want, StartPump, PumpEvents, Ask, ReceiveMessages, HandToInbox, NetworkResult,
         Unwant, Disconnect, NetworkReturns, PredictionThread, AwaitTickRate, PredictionTick, PredictionResult, mainVars
    <3>4. QED
      BY <3>1, <3>2, <3>3 DEF SessionNext, mainVars
  <2>2. QED
    BY <1>2, <1>4, <2>1, Zenon DEF ToldInv
<1>5. arrivals'.view = arrivals.view \/ (HandToInbox /\ ~UNCHANGED arrivals)
  <2>1. CASE NetworkThread
    BY <1>1, <2>1 DEF NetworkThread, StartSession, Want, StartPump, PumpEvents, Ask, ReceiveMessages, NetworkResult,
       Unwant, Disconnect, NetworkReturns, netVars, ArrivalsOK
  <2>2. CASE PredictionThread
    BY <2>2 DEF PredictionThread, AwaitTickRate, PredictionTick, PredictionResult, netVars
  <2>3. CASE RenderThread
    BY <2>3 DEF RenderThread, AskRunner, ReadView, ReadWanted, ReadState, AskWhetherEnded, FinishFrame, ReportReady,
       CloseWindow, StopAndJoin, RunJoined, Reads, netVars
  <2>4. QED
    BY <2>1, <2>2, <2>3 DEF SessionNext, netVars
<1>6. QED
  BY <1>3, <1>4, <1>5

-----------------------------------------------------------------------------
(***************************************************************************)
(* Failures: what is recorded stays so, and what was taken.                *)
(***************************************************************************)
LEMMA FailureOfSend ==
  ASSUME SessionTypeOK, FailureInv, NEW sent, Send(sent)
  PROVE  /\ latches'.untaken \subseteq latches'.recorded /\ Took' = Took
         /\ latches.recorded \subseteq latches'.recorded
<1>1. LatchesOK
  BY DEF SessionTypeOK
<1>2. CASE UNCHANGED latches
  BY <1>2 DEF FailureInv, Took
<1>3. ASSUME NEW latch, RecordOnce(latch)
      PROVE  /\ latches'.untaken \subseteq latches'.recorded /\ Took' = Took
             /\ latches.recorded \subseteq latches'.recorded
  BY <1>3 DEF RecordOnce, FailureInv, Took
<1>4. QED
  BY <1>2, <1>3, SendEffect DEF Records, QueueIsFull

LEMMA TakenIsThere ==
  ASSUME SessionTypeOK, latches.untaken # {}
  PROVE  Taken \in latches.untaken /\ Taken # "none"
  BY DEF SessionTypeOK, LatchesOK, Taken, Latches

LEMMA FailureStep ==
  ASSUME SessionTypeOK, FailureInv, SessionNext
  PROVE  FailureInv' /\ latches.recorded \subseteq latches'.recorded
<1>1. LatchesOK /\ RunnerOK
  BY DEF SessionTypeOK
<1>2. ASSUME UNCHANGED latches \/ \E sent : Send(sent)
      PROVE  /\ latches'.untaken \subseteq latches'.recorded /\ Took' = Took
             /\ latches.recorded \subseteq latches'.recorded
  <2>1. CASE UNCHANGED latches
    BY <2>1 DEF FailureInv, Took
  <2>2. QED
    BY <1>2, <2>1, FailureOfSend
<1>3. CASE Elsewhere /\ UNCHANGED <<netVars, latches, runner, mainVars>>
  BY <1>2, <1>3 DEF FailureInv
<1>4. CASE NetworkThread
  <2>1. CASE StartSession \/ Want \/ StartPump \/ PumpEvents \/ Ask \/ HandToInbox
    <3>1. UNCHANGED latches \/ \E sent : Send(sent)
      BY <2>1 DEF StartSession, Want, StartPump, PumpEvents, Ask, HandToInbox
    <3>2. /\ runner'.took = runner.took /\ runner'.failure = runner.failure /\ runner'.stopping = runner.stopping
          /\ runner.network \notin {"unwant", "close", "returning"}
      BY <1>1, <2>1 DEF StartSession, Want, StartPump, PumpEvents, Ask, HandToInbox, NetworkAt, NetworkGoes, RunnerOK
    <3>3. QED
      BY <1>2, <3>1, <3>2 DEF FailureInv
  <2>2. CASE ReceiveMessages
    <3>1. UNCHANGED latches \/ RecordOnce("kTransport")
      BY <2>2 DEF ReceiveMessages
    <3>2. /\ latches'.untaken \subseteq latches'.recorded /\ Took' = Took
          /\ latches.recorded \subseteq latches'.recorded
      BY <3>1 DEF RecordOnce, FailureInv, Took
    <3>3. /\ runner'.took = runner.took /\ runner'.failure = runner.failure /\ runner'.stopping = runner.stopping
          /\ runner.network \notin {"unwant", "close", "returning"}
      BY <1>1, <2>2 DEF ReceiveMessages, NetworkAt, NetworkGoes, RunnerOK
    <3>4. QED
      BY <3>2, <3>3 DEF FailureInv
  <2>3. CASE NetworkResult
    <3>1. CASE latches.untaken = {}
      <4>1. UNCHANGED latches /\ runner.network = "result" /\ runner' = [runner EXCEPT !.network = "round"]
        BY <2>3, <3>1 DEF NetworkResult, NetworkAt, NetworkGoes
      <4>2. QED
        BY <1>1, <4>1 DEF FailureInv, Took, RunnerOK
    <3>2. CASE latches.untaken # {}
      <4>1. latches'.recorded = latches.recorded /\ latches'.untaken = latches.untaken \ {Taken}
        BY <1>1, <2>3, <3>2 DEF NetworkResult, TakeFailure, LatchesOK
      <4>2. /\ runner'.network = "unwant" /\ runner'.took = Taken /\ runner'.failure = runner.failure
            /\ runner'.stopping = runner.stopping
        BY <1>1, <2>3, <3>2 DEF NetworkResult, RunnerOK
      <4>3. Taken \in Took' /\ Took \subseteq Took'
        BY <3>2, <4>1, TakenIsThere DEF Took, FailureInv
      <4>4. Taken # "none"
        BY <3>2, TakenIsThere
      <4>5. QED
        BY <4>1, <4>2, <4>3, <4>4 DEF FailureInv
    <3>3. QED
      BY <3>1, <3>2
  <2>4. CASE Unwant \/ Disconnect
    <3>1. /\ UNCHANGED latches /\ runner'.took = runner.took /\ runner'.failure = runner.failure
          /\ runner'.stopping = runner.stopping /\ runner'.network \in {"close", "returning"}
          /\ runner.network \in {"unwant", "close"}
      BY <1>1, <2>4 DEF Unwant, Disconnect, NetworkAt, NetworkGoes, RunnerOK
    <3>2. QED
      BY <3>1 DEF FailureInv, Took
  <2>5. CASE NetworkReturns
    <3>1. /\ UNCHANGED latches /\ runner'.took = runner.took
      BY <1>1, <2>5 DEF NetworkReturns, RunnerOK
    <3>2. CASE runner.took = "none"
      <4>1. runner'.failure = runner.failure /\ runner'.stopping = runner.stopping
        BY <1>1, <2>5, <3>2 DEF NetworkReturns, RunnerOK
      <4>2. QED
        BY <3>1, <3>2, <4>1 DEF FailureInv, Took
    <3>3. CASE runner.took # "none"
      <4>1. runner'.failure = KeptFailure(runner.took) /\ runner'.stopping = TRUE
        BY <1>1, <2>5, <3>3 DEF NetworkReturns, RunnerOK
      <4>2. runner'.failure \in Took /\ runner'.failure # "none"
        BY <3>3, <4>1 DEF KeptFailure, FailureInv
      <4>3. QED
        BY <3>1, <4>1, <4>2 DEF FailureInv, Took
    <3>4. QED
      BY <3>2, <3>3
  <2>6. QED
    BY <1>4, <2>1, <2>2, <2>3, <2>4, <2>5 DEF NetworkThread
<1>5. CASE PredictionThread
  <2>1. CASE AwaitTickRate \/ PredictionTick
    <3>1. UNCHANGED latches \/ \E sent : Send(sent)
      BY <2>1 DEF AwaitTickRate, PredictionTick
    <3>2. /\ runner'.took = runner.took /\ runner'.failure = runner.failure /\ runner'.stopping = runner.stopping
          /\ runner'.network = runner.network
      BY <1>1, <2>1 DEF AwaitTickRate, PredictionTick, PredictionGoes, RunnerOK
    <3>3. QED
      BY <1>2, <3>1, <3>2 DEF FailureInv
  <2>2. CASE PredictionResult
    <3>1. CASE latches.untaken = {}
      <4>1. UNCHANGED latches /\ runner' = [runner EXCEPT !.prediction = "ticking"]
        BY <2>2, <3>1 DEF PredictionResult, PredictionGoes
      <4>2. QED
        BY <1>1, <4>1 DEF FailureInv, Took, RunnerOK
    <3>2. CASE latches.untaken # {}
      <4>1. latches'.recorded = latches.recorded /\ latches'.untaken = latches.untaken \ {Taken}
        BY <1>1, <2>2, <3>2 DEF PredictionResult, TakeFailure, LatchesOK
      <4>2. /\ runner'.network = runner.network /\ runner'.took = runner.took /\ runner'.failure = KeptFailure(Taken)
            /\ runner'.stopping = TRUE
        BY <1>1, <2>2, <3>2 DEF PredictionResult, RunnerOK
      <4>3. Taken \in Took' /\ Took \subseteq Took' /\ Taken # "none"
        BY <3>2, <4>1, TakenIsThere DEF Took, FailureInv
      <4>4. runner'.failure \in Took' /\ runner'.failure # "none"
        BY <4>2, <4>3 DEF KeptFailure, FailureInv
      <4>5. latches'.untaken \subseteq latches'.recorded
        BY <4>1 DEF FailureInv
      <4>6. runner'.took # "none" => runner'.took \in Took'
        BY <4>2, <4>3 DEF FailureInv
      <4>7. QED
        BY <4>1, <4>2, <4>4, <4>5, <4>6 DEF FailureInv
    <3>3. QED
      BY <3>1, <3>2
  <2>3. QED
    BY <1>5, <2>1, <2>2 DEF PredictionThread
<1>6. CASE RenderThread
  <2>1. UNCHANGED latches \/ \E sent : Send(sent)
    BY <1>6 DEF RenderThread, AskRunner, ReadView, ReadWanted, ReadState, AskWhetherEnded, FinishFrame, ReportReady,
       CloseWindow, StopAndJoin, RunJoined, Reads
  <2>2. /\ runner'.took = runner.took /\ runner'.failure = runner.failure /\ runner'.network = runner.network
        /\ runner.stopping => runner'.stopping
    BY <1>1, <1>6 DEF RenderThread, AskRunner, ReadView, ReadWanted, ReadState, AskWhetherEnded, FinishFrame,
       ReportReady, CloseWindow, StopAndJoin, RunJoined, Reads, RunnerOK
  <2>3. QED
    BY <1>2, <2>1, <2>2 DEF FailureInv
<1>7. QED
  BY <1>3, <1>4, <1>5, <1>6 DEF SessionNext

-----------------------------------------------------------------------------
(***************************************************************************)
(* The network thread leaves nothing open.                                 *)
(***************************************************************************)
LEMMA LeavingStep ==
  ASSUME SessionTypeOK, LeavingInv, SessionNext
  PROVE  LeavingInv'
<1>1. RunnerOK /\ RenderOK /\ ChannelOK
  BY DEF SessionTypeOK
<1>2. ASSUME UNCHANGED wanted, UNCHANGED render, runner'.network = runner.network,
             UNCHANGED channel \/ \E sent : Send(sent)
      PROVE  LeavingInv'
  <2>1. channel = NoChannel => UNCHANGED channel
    BY <1>2, SendEffect DEF Records, QueueIsFull, NoChannel
  <2>2. QED
    BY <1>2, <2>1 DEF LeavingInv
<1>3. CASE Elsewhere /\ UNCHANGED <<netVars, latches, runner, mainVars>>
  BY <1>2, <1>3 DEF netVars, mainVars
<1>4. CASE NetworkThread
  <2>1. UNCHANGED render
    BY <1>4 DEF NetworkThread, StartSession, Want, StartPump, PumpEvents, Ask, ReceiveMessages, HandToInbox,
       NetworkResult, Unwant, Disconnect, NetworkReturns, mainVars
  <2>2. CASE StartSession \/ Want \/ StartPump \/ PumpEvents \/ Ask \/ ReceiveMessages \/ HandToInbox \/ NetworkResult
    <3>1. /\ runner.network \notin {"close", "returning", "done"}
          /\ runner'.network \notin {"close", "returning", "done"}
      BY <1>1, <2>2 DEF StartSession, Want, StartPump, PumpEvents, Ask, ReceiveMessages, HandToInbox, NetworkResult,
         NetworkAt, NetworkGoes, RunnerOK
    <3>2. QED
      BY <2>1, <3>1 DEF LeavingInv
  <2>3. CASE Unwant
    <3>1. runner'.network = "close" /\ wanted' = FALSE /\ runner.network = "unwant"
      BY <1>1, <2>3 DEF Unwant, NetworkAt, NetworkGoes, RunnerOK
    <3>2. QED
      BY <2>1, <3>1 DEF LeavingInv
  <2>4. CASE Disconnect
    <3>1. runner'.network = "returning" /\ runner.network = "close" /\ UNCHANGED wanted /\ channel' = NoChannel
      BY <1>1, <2>4 DEF Disconnect, NetworkAt, NetworkGoes, RunnerOK
    <3>2. QED
      BY <2>1, <3>1 DEF LeavingInv
  <2>5. CASE NetworkReturns
    <3>1. runner'.network = "done" /\ runner.network = "returning" /\ UNCHANGED wanted /\ UNCHANGED channel
      BY <1>1, <2>5 DEF NetworkReturns, NetworkAt, RunnerOK, netVars
    <3>2. QED
      BY <2>1, <3>1 DEF LeavingInv
  <2>6. QED
    BY <1>4, <2>2, <2>3, <2>4, <2>5 DEF NetworkThread
<1>5. CASE PredictionThread
  <2>1. UNCHANGED wanted /\ UNCHANGED render /\ (UNCHANGED channel \/ \E sent : Send(sent))
    BY <1>5 DEF PredictionThread, AwaitTickRate, PredictionTick, PredictionResult, netVars, mainVars
  <2>2. runner'.network = runner.network
    BY <1>1, <1>5 DEF PredictionThread, AwaitTickRate, PredictionTick, PredictionResult, PredictionGoes, RunnerOK
  <2>3. QED
    BY <1>2, <2>1, <2>2
<1>6. CASE RenderThread
  <2>1. UNCHANGED wanted /\ (UNCHANGED channel \/ \E sent : Send(sent))
    BY <1>6 DEF RenderThread, AskRunner, ReadView, ReadWanted, ReadState, AskWhetherEnded, FinishFrame, ReportReady,
       CloseWindow, StopAndJoin, RunJoined, Reads, netVars
  <2>2. runner'.network = runner.network
    BY <1>1, <1>6 DEF RenderThread, AskRunner, ReadView, ReadWanted, ReadState, AskWhetherEnded, FinishFrame,
       ReportReady, CloseWindow, StopAndJoin, RunJoined, Reads, RunnerOK
  <2>3. channel = NoChannel => UNCHANGED channel
    BY <2>1, SendEffect DEF Records, QueueIsFull, NoChannel
  <2>4. render'.at = "done" => runner.network = "done"
    BY <1>1, <1>6 DEF RenderThread, AskRunner, ReadView, ReadWanted, ReadState, AskWhetherEnded, FinishFrame,
       ReportReady, CloseWindow, StopAndJoin, RunJoined, Goes, Ends, RenderOK
  <2>5. QED
    BY <2>1, <2>2, <2>3, <2>4 DEF LeavingInv
<1>7. QED
  BY <1>3, <1>4, <1>5, <1>6 DEF SessionNext

-----------------------------------------------------------------------------
(***************************************************************************)
(* Why a connection is gone.                                               *)
(***************************************************************************)
LEMMA EndsStayTold ==
  ASSUME SessionTypeOK, PlacesInv, EndsAreTold, SessionNext
  PROVE  EndsAreTold' /\ (remote.ended # "no" => remote'.ended # "no")
<1>1. RemoteOK
  BY DEF SessionTypeOK
<1>2. remote.events \in Seq({"connected", "ended"})
  BY <1>1 DEF RemoteOK, Events
<1>3. ASSUME remote'.events = remote.events, remote.ended # "no" => remote'.ended # "no"
      PROVE  EndsAreTold' /\ (remote.ended # "no" => remote'.ended # "no")
  BY <1>3 DEF EndsAreTold
<1>4. ASSUME NEW sent, sent \in {remote, Asking}, Send(sent)
      PROVE  EndsAreTold' /\ (remote.ended # "no" => remote'.ended # "no")
  <2>1. remote'.events = remote.events /\ (remote'.ended = remote.ended \/ remote'.ended = "full")
    <3>1. CASE QueueIsFull
      BY <1>1, <3>1 DEF QueueIsFull, RemoteOK
    <3>2. CASE remote' \in {remote, sent}
      BY <1>1, <1>4, <3>2 DEF RemoteOK, Asking
    <3>3. QED
      BY <1>4, <3>1, <3>2, SendEffect DEF Records
  <2>2. QED
    BY <1>3, <2>1
<1>5. CASE Elsewhere
  <2>1. CASE ServerAccepts
    <3>1. remote'.events = Append(remote.events, "connected") /\ remote'.ended = remote.ended
      BY <1>1, <2>1 DEF ServerAccepts, RemoteOK
    <3>2. \A i \in DOMAIN remote'.events :
             (i \in DOMAIN remote.events /\ remote'.events[i] = remote.events[i]) \/ remote'.events[i] = "connected"
      BY <1>2, <3>1
    <3>3. QED
      BY <3>1, <3>2 DEF EndsAreTold
  <2>2. CASE ServerAnswers \/ ServerEndsMatch
    <3>1. remote'.events = remote.events /\ remote'.ended = remote.ended
      BY <1>1, <2>2 DEF ServerAnswers, ServerEndsMatch, Says, RemoteOK
    <3>2. QED
      BY <1>3, <3>1
  <2>3. CASE ServerCloses \/ ConnectionIsLost
    <3>1. remote'.ended \in {"closed", "lost"}
      BY <1>1, <2>3 DEF ServerCloses, ConnectionIsLost, WireEnds, RemoteOK
    <3>2. QED
      BY <3>1 DEF EndsAreTold
  <2>4. QED
    BY <1>5, <2>1, <2>2, <2>3 DEF Elsewhere
<1>6. CASE NetworkThread
  <2>1. CASE StartSession
    <3>1. remote.ended = "no" /\ remote'.events = remote.events
      BY <1>1, <2>1 DEF StartSession, NetworkAt, PlacesInv, RemoteOK
    <3>2. QED
      BY <1>3, <3>1
  <2>2. CASE PumpEvents
    <3>1. remote'.ended = remote.ended
      BY <1>1, <2>2 DEF PumpEvents, RemoteOK
    <3>2. CASE UNCHANGED remote
      BY <1>3, <3>2
    <3>3. CASE remote.events # <<>> /\ remote'.events = Tail(remote.events)
      <4>1. \A i \in DOMAIN remote'.events : i + 1 \in DOMAIN remote.events /\ remote'.events[i] = remote.events[i + 1]
        BY <1>2, <3>3
      <4>2. QED
        BY <3>1, <4>1 DEF EndsAreTold
    <3>4. QED
      BY <1>1, <2>2, <3>2, <3>3 DEF PumpEvents, RemoteOK
  <2>3. CASE Ask
    BY <1>3, <1>4, <2>3 DEF Ask, Asking
  <2>4. CASE ReceiveMessages \/ Disconnect
    <3>1. remote'.events = remote.events /\ remote'.ended = remote.ended
      BY <1>1, <2>4 DEF ReceiveMessages, Disconnect, RemoteOK
    <3>2. QED
      BY <1>3, <3>1
  <2>5. CASE UNCHANGED remote
    BY <1>3, <2>5
  <2>6. QED
    BY <1>6, <2>1, <2>2, <2>3, <2>4, <2>5 DEF NetworkThread, Want, StartPump, HandToInbox, NetworkResult, Unwant,
       NetworkReturns
<1>7. CASE PredictionThread \/ RenderThread
  <2>1. Send(remote) \/ UNCHANGED remote
    BY <1>7 DEF PredictionThread, AwaitTickRate, PredictionTick, PredictionResult, RenderThread, AskRunner, ReadView,
       ReadWanted, ReadState, AskWhetherEnded, FinishFrame, ReportReady, CloseWindow, StopAndJoin, RunJoined, Reads
  <2>2. QED
    BY <1>3, <1>4, <2>1
<1>8. QED
  BY <1>5, <1>6, <1>7 DEF SessionNext

LEMMA WhyGoneStep ==
  ASSUME SessionTypeOK, PlacesInv, FailureInv, EndsAreTold, WhyGone, SessionNext
  PROVE  WhyGone'
<1>1. RemoteOK /\ ChannelOK /\ RunnerOK /\ RenderOK /\ LatchesOK
  BY DEF SessionTypeOK
<1>2. /\ remote.ended # "no" => remote'.ended # "no"
      /\ Failed => Failed'
  BY EndsStayTold, FailureStep DEF Failed
<1>3. Ending => Ending'
  <2>1. CASE UNCHANGED render
    BY <2>1 DEF Ending
  <2>2. CASE RenderThread
    BY <1>1, <2>2 DEF RenderThread, AskRunner, ReadView, ReadWanted, ReadState, AskWhetherEnded, FinishFrame,
       ReportReady, CloseWindow, StopAndJoin, RunJoined, Goes, Ends, Ending, RenderOK
  <2>3. NetworkThread \/ PredictionThread => UNCHANGED render
    BY DEF NetworkThread, StartSession, Want, StartPump, PumpEvents, Ask, ReceiveMessages, HandToInbox,
       NetworkResult, Unwant, Disconnect, NetworkReturns, PredictionThread, AwaitTickRate, PredictionTick,
       PredictionResult, mainVars
  <2>4. QED
    BY <2>1, <2>2, <2>3 DEF SessionNext, mainVars
\* A Send that ends the connection has its reason.
<1>4. ASSUME \E sent : Send(sent)
      PROVE  UNCHANGED channel \/ (remote'.ended # "no" /\ runner.network # "connect")
  <2>1. CASE QueueIsFull
    <3>1. remote'.ended = "full" /\ channel.state = "kConnected"
      BY <1>1, <2>1 DEF QueueIsFull, RemoteOK
    <3>2. QED
      BY <3>1 DEF PlacesInv, NoChannel
  <2>2. QED
    BY <1>4, <2>1, SendEffect DEF Records
<1>5. CASE Elsewhere /\ UNCHANGED <<netVars, latches, runner, mainVars>>
  BY <1>2, <1>3, <1>5 DEF WhyGone, netVars, mainVars
<1>6. CASE NetworkThread
  <2>1. UNCHANGED render
    BY <1>6 DEF NetworkThread, StartSession, Want, StartPump, PumpEvents, Ask, ReceiveMessages, HandToInbox,
       NetworkResult, Unwant, Disconnect, NetworkReturns, mainVars
  <2>2. CASE StartSession
    <3>1. /\ runner.network = "connect" /\ runner'.network = "want" /\ runner'.stopping = runner.stopping
          /\ UNCHANGED wanted
      BY <1>1, <2>2 DEF StartSession, NetworkAt, NetworkGoes, RunnerOK
    <3>2. ~wanted /\ render.at \notin {"state", "ended"}
      BY <3>1 DEF WhyGone
    <3>3. channel'.state = "kDisconnected" => remote'.ended # "no"
      <4>1. CASE channel' = [NoChannel EXCEPT !.state = "kConnecting", !.connection = TRUE]
        BY <4>1 DEF NoChannel
      <4>2. CASE remote' = [remote EXCEPT !.ended = "never"]
        BY <1>1, <4>2 DEF RemoteOK
      <4>3. QED
        BY <2>2, <4>1, <4>2 DEF StartSession
    <3>4. QED
      BY <1>2, <1>3, <2>1, <3>1, <3>2, <3>3 DEF WhyGone
  <2>3. CASE Want
    <3>1. /\ runner.network = "want" /\ runner'.network = "round" /\ runner'.stopping = runner.stopping
          /\ UNCHANGED channel
      BY <1>1, <2>3 DEF Want, NetworkAt, NetworkGoes, RunnerOK
    <3>2. QED
      BY <1>2, <1>3, <2>1, <3>1 DEF WhyGone
  <2>4. CASE StartPump
    <3>1. /\ runner.network = "round" /\ runner'.network = (IF runner.stopping THEN "unwant" ELSE "pump")
          /\ runner'.stopping = runner.stopping /\ UNCHANGED channel /\ UNCHANGED wanted
      BY <1>1, <2>4 DEF StartPump, NetworkAt, NetworkGoes, RunnerOK, netVars
    <3>2. QED
      BY <1>2, <1>3, <2>1, <3>1 DEF WhyGone
  <2>5. CASE PumpEvents
    <3>1. /\ runner.network = "pump" /\ runner'.network \in {"pump", "ask"} /\ runner'.stopping = runner.stopping
          /\ UNCHANGED wanted
      BY <1>1, <2>5 DEF PumpEvents, NetworkAt, NetworkGoes, RunnerOK
    <3>2. channel'.state = "kDisconnected" => channel.state = "kDisconnected" \/ remote'.ended # "no"
      <4>1. CASE UNCHANGED channel
        BY <4>1
      <4>2. CASE remote.events # <<>> /\ channel' = ApplyToClient(Head(remote.events))
        <5>1. Head(remote.events) \in {"connected", "ended"}
          BY <1>1, <4>2, EventFacts DEF RemoteOK
        <5>2. CASE Head(remote.events) = "connected"
          BY <1>1, <4>2, <5>2 DEF ApplyToClient, ChannelOK
        <5>3. CASE Head(remote.events) = "ended"
          <6>1. 1 \in DOMAIN remote.events /\ remote.events[1] = "ended"
            BY <1>1, <4>2, <5>3 DEF RemoteOK, Events
          <6>2. remote.ended # "no"
            BY <6>1 DEF EndsAreTold
          <6>3. QED
            BY <1>2, <6>2
        <5>4. QED
          BY <5>1, <5>2, <5>3
      <4>3. QED
        BY <2>5, <4>1, <4>2 DEF PumpEvents
    <3>3. QED
      BY <1>2, <1>3, <2>1, <3>1, <3>2 DEF WhyGone
  <2>6. CASE Ask
    <3>1. /\ runner.network = "ask" /\ runner'.network = "receive" /\ runner'.stopping = runner.stopping
          /\ UNCHANGED wanted
      BY <1>1, <2>6 DEF Ask, NetworkAt, NetworkGoes, RunnerOK
    <3>2. UNCHANGED channel \/ remote'.ended # "no"
      BY <1>4, <2>6 DEF Ask
    <3>3. QED
      BY <1>2, <1>3, <2>1, <3>1, <3>2 DEF WhyGone
  <2>7. CASE ReceiveMessages \/ HandToInbox
    <3>1. /\ runner.network \in {"receive", "handing"} /\ runner'.network \in {"handing", "result"}
          /\ runner'.stopping = runner.stopping /\ UNCHANGED wanted
      BY <1>1, <2>7 DEF ReceiveMessages, HandToInbox, NetworkAt, NetworkGoes, RunnerOK
    <3>2. channel'.state = channel.state
      BY <1>1, <2>7 DEF ReceiveMessages, HandToInbox, ChannelOK
    <3>3. QED
      BY <1>2, <1>3, <2>1, <3>1, <3>2 DEF WhyGone
  <2>8. CASE NetworkResult
    <3>1. /\ runner.network = "result" /\ runner'.stopping = runner.stopping /\ UNCHANGED channel /\ UNCHANGED wanted
          /\ runner'.network = (IF latches.untaken = {} THEN "round" ELSE "unwant")
      BY <1>1, <2>8 DEF NetworkResult, NetworkAt, NetworkGoes, RunnerOK, netVars
    <3>2. latches.untaken # {} => Failed
      BY DEF FailureInv, Failed
    <3>3. QED
      BY <1>2, <1>3, <2>1, <3>1, <3>2 DEF WhyGone
  <2>9. CASE Unwant
    <3>1. /\ runner.network = "unwant" /\ runner'.network = "close" /\ runner'.stopping = runner.stopping
          /\ UNCHANGED channel /\ wanted' = FALSE
      BY <1>1, <2>9 DEF Unwant, NetworkAt, NetworkGoes, RunnerOK
    <3>2. QED
      BY <1>2, <1>3, <2>1, <3>1 DEF WhyGone
  <2>10. CASE Disconnect
    <3>1. /\ runner.network = "close" /\ runner'.network = "returning" /\ runner'.stopping = runner.stopping
          /\ UNCHANGED wanted
      BY <1>1, <2>10 DEF Disconnect, NetworkAt, NetworkGoes, RunnerOK
    <3>2. Failed \/ Ending
      BY <3>1 DEF WhyGone
    <3>3. QED
      BY <1>2, <1>3, <2>1, <3>1, <3>2 DEF WhyGone
  <2>11. CASE NetworkReturns
    <3>1. runner.network = "returning" /\ runner'.network = "done" /\ UNCHANGED channel /\ UNCHANGED wanted
      BY <1>1, <2>11 DEF NetworkReturns, NetworkAt, RunnerOK, netVars
    <3>2. Failed \/ Ending
      BY <3>1 DEF WhyGone
    <3>3. QED
      BY <1>2, <1>3, <2>1, <3>1, <3>2 DEF WhyGone
  <2>12. QED
    BY <1>6, <2>2, <2>3, <2>4, <2>5, <2>6, <2>7, <2>8, <2>9, <2>10, <2>11 DEF NetworkThread
<1>7. CASE PredictionThread
  <2>1. UNCHANGED render /\ UNCHANGED wanted /\ (UNCHANGED channel \/ \E sent : Send(sent))
    BY <1>7 DEF PredictionThread, AwaitTickRate, PredictionTick, PredictionResult, netVars, mainVars
  <2>2. runner'.network = runner.network /\ (runner'.stopping => runner.stopping \/ latches.untaken # {})
    BY <1>1, <1>7 DEF PredictionThread, AwaitTickRate, PredictionTick, PredictionResult, PredictionGoes, RunnerOK
  <2>3. latches.untaken # {} => Failed
    BY DEF FailureInv, Failed
  <2>4. QED
    BY <1>2, <1>3, <1>4, <2>1, <2>2, <2>3 DEF WhyGone
<1>8. CASE RenderThread
  <2>1. UNCHANGED wanted /\ (UNCHANGED channel \/ \E sent : Send(sent))
    BY <1>8 DEF RenderThread, AskRunner, ReadView, ReadWanted, ReadState, AskWhetherEnded, FinishFrame, ReportReady,
       CloseWindow, StopAndJoin, RunJoined, Reads, netVars
  <2>2. runner'.network = runner.network /\ (runner'.stopping => runner.stopping \/ Ending')
    BY <1>1, <1>8 DEF RenderThread, AskRunner, ReadView, ReadWanted, ReadState, AskWhetherEnded, FinishFrame,
       ReportReady, CloseWindow, StopAndJoin, RunJoined, Reads, Goes, Ending, RunnerOK, RenderOK
  <2>3. /\ render'.at = "state" => wanted
        /\ render'.at = "ended" => render.at = "state" /\ channel.state = "kDisconnected"
    BY <1>1, <1>8 DEF RenderThread, AskRunner, ReadView, ReadWanted, ReadState, AskWhetherEnded, FinishFrame,
       ReportReady, CloseWindow, StopAndJoin, RunJoined, Goes, Ends, RenderOK
  <2>4. render'.at = "ended" => remote.ended # "no" \/ Failed
    BY <2>3 DEF WhyGone, Ending
  <2>5. QED
    BY <1>2, <1>3, <1>4, <2>1, <2>2, <2>3, <2>4 DEF WhyGone
<1>9. QED
  BY <1>5, <1>6, <1>7, <1>8 DEF SessionNext

-----------------------------------------------------------------------------
(***************************************************************************)
(* What the run says of itself: only the Main/Render thread says it, from  *)
(* what it has read, which has not become less true since.                 *)
(***************************************************************************)
LEMMA EndedStep ==
  ASSUME SessionTypeOK, PlacesInv, ToldInv, EndsAreTold, WhyGone, FailureInv, EndedAsToldTo, SessionNext
  PROVE  EndedAsToldTo'
<1>1. RunnerOK /\ RenderOK /\ result \in Results
  BY DEF SessionTypeOK
<1>2. /\ \A m : HandedOn(m) => HandedOn(m)'
      /\ remote.ended # "no" => remote'.ended # "no"
      /\ latches.recorded # {} => latches'.recorded # {}
  BY HandedOnStays, EndsStayTold, FailureStep
<1>3. runner.failure # "none" => runner'.failure = runner.failure
  <2>1. CASE UNCHANGED runner
    BY <2>1
  <2>2. CASE NetworkThread
    BY <1>1, <2>2 DEF NetworkThread, StartSession, Want, StartPump, PumpEvents, Ask, ReceiveMessages, HandToInbox,
       NetworkResult, Unwant, Disconnect, NetworkReturns, NetworkGoes, KeptFailure, RunnerOK
  <2>3. CASE PredictionThread
    BY <1>1, <2>3 DEF PredictionThread, AwaitTickRate, PredictionTick, PredictionResult, PredictionGoes, KeptFailure,
       RunnerOK
  <2>4. CASE RenderThread
    BY <1>1, <2>4 DEF RenderThread, AskRunner, ReadView, ReadWanted, ReadState, AskWhetherEnded, FinishFrame,
       ReportReady, CloseWindow, StopAndJoin, RunJoined, Reads, RunnerOK
  <2>5. QED
    BY <2>1, <2>2, <2>3, <2>4 DEF SessionNext
<1>4. UNCHANGED role
  BY DEF SessionNext, NetworkThread, StartSession, Want, StartPump, PumpEvents, Ask, ReceiveMessages, HandToInbox,
     NetworkResult, Unwant, Disconnect, NetworkReturns, PredictionThread, AwaitTickRate, PredictionTick,
     PredictionResult, RenderThread, AskRunner, ReadView, ReadWanted, ReadState, AskWhetherEnded, FinishFrame,
     ReportReady, CloseWindow, StopAndJoin, RunJoined, Reads, mainVars
<1>5. CASE UNCHANGED result
  <2>1. result \in {"kTransport", "kInvariant"} => runner.failure = result /\ runner.failure # "none"
    BY DEF EndedAsToldTo
  <2>2. (result \in {"kTransport", "kInvariant"} => runner.failure = result)'
    BY <1>3, <1>5, <2>1
  <2>3. /\ (result = "kRefused" => HandedOn("Refusal"))'
        /\ (result = "replayEnded" => HandedOn("MatchEnd") /\ role = "viewer")'
        /\ (result = "kConnectionLost" => HandedOn("Admission"))'
    BY <1>2, <1>4, <1>5, Zenon DEF EndedAsToldTo
  <2>4. (result \in {"kConnectionLost", "kServerUnreachable"} => remote.ended # "no" \/ latches.recorded # {})'
    BY <1>2, <1>5 DEF EndedAsToldTo
  <2>5. QED
    BY <2>2, <2>3, <2>4 DEF EndedAsToldTo
<1>6. ASSUME RenderThread, ~UNCHANGED result
      PROVE  EndedAsToldTo'
  <2>1. CASE AskRunner \/ CloseWindow
    <3>1. result' = "closed" \/ (result' = runner.failure /\ runner.failure # "none" /\ UNCHANGED runner)
      BY <1>6, <2>1 DEF AskRunner, CloseWindow, Goes, Ends, Reads
    <3>2. result' \notin {"kRefused", "replayEnded", "kConnectionLost", "kServerUnreachable"}
      BY <1>1, <3>1 DEF RunnerOK, Latches
    <3>3. result' \in {"kTransport", "kInvariant"} => runner'.failure = result'
      BY <3>1
    <3>4. QED
      BY <3>2, <3>3 DEF EndedAsToldTo
  <2>2. CASE ReadView
    <3>1. result' = "kRefused" /\ arrivals.view.refusal
      BY <1>6, <2>2 DEF ReadView, Ends
    <3>2. HandedOn("Refusal")'
      BY <1>2, <3>1 DEF ToldInv
    <3>3. QED
      BY <3>1, <3>2 DEF EndedAsToldTo
  <2>3. CASE ReadState \/ AskWhetherEnded
    <3>1. result' = Verdict
      BY <1>6, <2>3 DEF ReadState, AskWhetherEnded, Goes, Ends
    <3>2. Verdict = "kConnectionLost" => HandedOn("Admission")'
      BY <1>2 DEF Verdict, ToldInv
    <3>3. Verdict \in {"kConnectionLost", "kServerUnreachable"}
      BY DEF Verdict
    <3>4. remote.ended # "no" \/ latches.recorded # {}
      <4>1. CASE ReadState
        <5>1. render.at = "state" /\ channel.state = "kDisconnected"
          BY <1>6, <4>1 DEF ReadState, Goes
        <5>2. QED
          BY <5>1 DEF WhyGone, Failed, Ending
      <4>2. CASE AskWhetherEnded
        BY <4>2 DEF AskWhetherEnded, WhyGone, Failed
      <4>3. QED
        BY <2>3, <4>1, <4>2
    <3>5. QED
      BY <1>2, <3>1, <3>2, <3>3, <3>4 DEF EndedAsToldTo
  <2>4. CASE FinishFrame
    <3>1. result' = "replayEnded" /\ ReplayEnded
      BY <1>6, <2>4 DEF FinishFrame, Ends
    <3>2. HandedOn("MatchEnd")' /\ role' = "viewer"
      BY <1>2, <1>4, <3>1 DEF ReplayEnded, ToldInv
    <3>3. QED
      BY <3>1, <3>2 DEF EndedAsToldTo
  <2>5. QED
    BY <1>6, <2>1, <2>2, <2>3, <2>4 DEF RenderThread, ReadWanted, ReportReady, StopAndJoin, RunJoined, Goes
<1>7. UNCHANGED result \/ RenderThread
  BY DEF SessionNext, NetworkThread, StartSession, Want, StartPump, PumpEvents, Ask, ReceiveMessages, HandToInbox,
     NetworkResult, Unwant, Disconnect, NetworkReturns, PredictionThread, AwaitTickRate, PredictionTick,
     PredictionResult, mainVars
<1>8. QED
  BY <1>5, <1>6, <1>7

-----------------------------------------------------------------------------
(***************************************************************************)
(* The invariant holds of every run.                                       *)
(***************************************************************************)
LEMMA SessionStart == SessionInit => SessionIInv
<1>1. SUFFICES ASSUME SessionInit PROVE SessionIInv
  OBVIOUS
<1>2. remote = [stage |-> "away", arrived |-> <<>>, events |-> <<>>, said |-> <<>>, ended |-> "no"]
  BY <1>1 DEF SessionInit
<1>3. channel = NoChannel /\ arrivals = [hand |-> <<>>, view |-> NoView, heard |-> <<>>]
  BY <1>1 DEF SessionInit
<1>4. latches = [recorded |-> {}, untaken |-> {}]
  BY <1>1 DEF SessionInit
<1>5. runner = [network |-> "connect", prediction |-> "waiting", took |-> "none", stopping |-> FALSE, failure |-> "none"]
  BY <1>1 DEF SessionInit
<1>6. render = [at |-> "frame", read |-> NoView, admitted |-> FALSE] /\ result = "running" /\ ~wanted
  BY <1>1 DEF SessionInit
<1>7. <<>> \in Said /\ <<>> \in Events /\ NoView \in Views
  BY EmptySeq DEF Said, Events, NoView, Views
<1>8. SessionTypeOK
  <2>1. RemoteOK
    BY <1>2, <1>7 DEF RemoteOK
  <2>2. ChannelOK
    BY <1>3, <1>7 DEF ChannelOK, NoChannel
  <2>3. ArrivalsOK
    BY <1>3, <1>7 DEF ArrivalsOK
  <2>4. RunnerOK
    BY <1>5 DEF RunnerOK
  <2>5. RenderOK
    BY <1>6, <1>7 DEF RenderOK
  <2>6. LatchesOK
    BY <1>4 DEF LatchesOK
  <2>7. role \in {"player", "viewer"} /\ result \in Results
    BY <1>1, <1>6 DEF SessionInit, Results
  <2>8. QED
    BY <2>1, <2>2, <2>3, <2>4, <2>5, <2>6, <2>7 DEF SessionTypeOK
<1>9. LineInv
  <2>1. OnTheWay = <<>>
    <3>1. OnTheWay = ((<<>> \o <<>>) \o <<>>) \o <<>>
      BY <1>2, <1>3 DEF OnTheWay, NoChannel
    <3>2. \A s \in Said : s \o <<>> = s
      BY ConcatEmptySeq DEF Said
    <3>3. QED
      BY <1>7, <3>1, <3>2
  <2>2. Len(OnTheWay) = 0 /\ Len(remote.said) = 0
    BY <1>2, <2>1
  <2>3. SubSeq(remote.said, 1, 0) = <<>>
    BY <1>2, SubSeqEmpty
  <2>4. WayInv
    BY <2>1, <2>2, <2>3 DEF WayInv, HeardInOrder
  <2>5. PlacesInv
    BY <1>2, <1>3, <1>5 DEF PlacesInv, GaveUp, NoChannel
  <2>6. QED
    BY <2>4, <2>5 DEF LineInv
<1>10. ToldInv
  BY <1>3, <1>6 DEF ToldInv, NoView
<1>11. EndsAreTold
  BY <1>2 DEF EndsAreTold
<1>12. WhyGone /\ FailureInv /\ LeavingInv /\ EndedAsToldTo
  BY <1>4, <1>5, <1>6 DEF WhyGone, FailureInv, Took, LeavingInv, EndedAsToldTo
<1>13. QED
  BY <1>8, <1>9, <1>10, <1>11, <1>12 DEF SessionIInv

LEMMA SessionStep == SessionIInv /\ [SessionNext]_sessionVars => SessionIInv'
<1>1. SUFFICES ASSUME SessionIInv, [SessionNext]_sessionVars
               PROVE  SessionIInv'
  OBVIOUS
<1>2. CASE SessionNext
  <2>1. /\ SessionTypeOK /\ LineInv /\ PlacesInv /\ ToldInv /\ EndsAreTold /\ WhyGone /\ FailureInv /\ LeavingInv
        /\ EndedAsToldTo
    BY <1>1 DEF SessionIInv, LineInv
  <2>2. SessionTypeOK'
    BY <1>1, <2>1, TypeStep
  <2>3. LineInv'
    BY <1>2, <2>1, LineStep
  <2>4. ToldInv'
    BY <1>2, <2>1, ToldStep
  <2>5. EndsAreTold' /\ WhyGone'
    BY <1>2, <2>1, EndsStayTold, WhyGoneStep
  <2>6. FailureInv' /\ LeavingInv'
    BY <1>2, <2>1, FailureStep, LeavingStep
  <2>7. EndedAsToldTo'
    BY <1>2, <2>1, EndedStep
  <2>8. QED
    BY <2>2, <2>3, <2>4, <2>5, <2>6, <2>7 DEF SessionIInv
<1>3. CASE UNCHANGED sessionVars
  <2>1. SessionTypeOK'
    BY <1>1, TypeStep DEF SessionIInv
  <2>2. UNCHANGED OnTheWay /\ (GaveUp <=> GaveUp') /\ \A m : HandedOn(m) <=> HandedOn(m)'
    BY <1>3 DEF OnTheWay, GaveUp, HandedOn, sessionVars
  <2>3. LineInv'
    BY <1>1, <1>3, <2>2 DEF SessionIInv, LineInv, WayInv, HeardInOrder, PlacesInv, sessionVars
  <2>4. ToldInv' /\ EndedAsToldTo'
    BY <1>1, <1>3, <2>2 DEF SessionIInv, ToldInv, EndedAsToldTo, sessionVars
  <2>5. EndsAreTold' /\ WhyGone' /\ FailureInv' /\ LeavingInv'
    BY <1>1, <1>3 DEF SessionIInv, EndsAreTold, WhyGone, Failed, Ending, FailureInv, Took, LeavingInv, sessionVars
  <2>6. QED
    BY <2>1, <2>3, <2>4, <2>5 DEF SessionIInv
<1>4. QED
  BY <1>1, <1>2, <1>3

LEMMA SessionPromise == SessionIInv => SessionInv
<1>1. SUFFICES ASSUME SessionIInv PROVE SessionInv
  OBVIOUS
<1>2. HeardInOrder /\ EndedAsToldTo
  BY <1>1 DEF SessionIInv, LineInv, WayInv
<1>3. FailuresAreReported
  BY <1>1 DEF SessionIInv, FailureInv, Took, FailuresAreReported
<1>4. LeavesNothing
  BY <1>1 DEF SessionIInv, LeavingInv, LeavesNothing
<1>5. QED
  BY <1>2, <1>3, <1>4 DEF SessionInv

(***************************************************************************)
(* Of every run, for a player or a viewer: what the server said is handed  *)
(* on once and in order, the run ends for a reason that was there, no      *)
(* failure that a thread took goes unreported, and nothing is left behind. *)
(***************************************************************************)
THEOREM SessionInvariant == SessionSpec => []SessionInv
<1>1. SessionInit => SessionIInv
  BY SessionStart
<1>2. SessionIInv /\ [SessionNext]_sessionVars => SessionIInv'
  BY SessionStep
<1>3. SessionIInv => SessionInv
  BY SessionPromise
<1>4. QED
  BY <1>1, <1>2, <1>3, PTL DEF SessionSpec

-----------------------------------------------------------------------------
(***************************************************************************)
(* The client's own player.  Types.                                        *)
(***************************************************************************)
Totals == [correction : Int, rifles : Nat, rounds : Nat]
SequenceNumbers == 0 .. LastSequence

PredictionTypeOK ==
  /\ predicting \in [player : Predicted, totals : Totals]
  /\ history \in Seq(Entries) /\ Len(history) <= MaxHistory
  /\ issued \in Seq(Commands) /\ Len(issued) <= LastSequence
  /\ held \in Acknowledgements
  /\ server \in [player : Predicted, taken : SequenceNumbers, last : Commands]
  /\ answers \in SUBSET Acknowledgements /\ IsFiniteSet(answers) /\ Cardinality(answers) <= MaxAnswers
  /\ tally \in [seen : Totals, count : Nat, largest : Nat, rifles : Int, rounds : Int]
  /\ starts \in Nat
  /\ began \in [sequence : SequenceNumbers, totals : Totals]
  /\ basis \in [sequence : SequenceNumbers, player : Predicted]
  /\ walked \in Int /\ apart \in BOOLEAN

(***************************************************************************)
(* The history is the last commands sent, each as it was sent, none of     *)
(* them from before the match or answered; and nothing answers a command   *)
(* not sent yet.                                                           *)
(***************************************************************************)
HistoryOf(entries, from) ==
  /\ Len(entries) + began.sequence <= Len(issued)
  /\ Len(entries) + from.sequence <= Len(issued)
  /\ \A i \in DOMAIN entries :
       /\ entries[i].sequence = Len(issued) - Len(entries) + i
       /\ entries[i].command = issued[Len(issued) - Len(entries) + i]

HistoryOK ==
  /\ HistoryOf(history, basis)
  /\ server.taken <= Len(issued) /\ held.sequence <= Len(issued)
  /\ \A answer \in answers : answer.sequence <= Len(issued)

(***************************************************************************)
(* Each prediction is the one before it stepped by its command, and the    *)
(* first one held, where it follows the last answer acted on, is stepped   *)
(* from a player close to that answer's.                                   *)
(***************************************************************************)
Close(player, other) ==
  ~BodyNeedsCorrection(player, other) /\ player.rifle = other.rifle

ChainOf(player, entries, from) ==
  /\ entries # <<>> => player = entries[Len(entries)].predicted
  /\ \A i \in DOMAIN entries :
       i # 1 => entries[i].predicted = StepPlayer(entries[i - 1].predicted, entries[i].command)
  /\ entries # <<>> /\ entries[1].sequence = from.sequence + 1 =>
       \E before \in Predicted : /\ Close(from.player, before)
                                 /\ entries[1].predicted = StepPlayer(before, entries[1].command)
  /\ entries = <<>> => from.sequence = Len(issued) /\ Close(from.player, player)

ChainOK == ChainOf(predicting.player, history, basis)

(***************************************************************************)
(* Where the client's commands alone lead its player in this match.  While *)
(* the server only took them in order, both are on that path.              *)
(***************************************************************************)
IsOwnPath(path) ==
  /\ path \in [began.sequence .. Len(issued) -> Predicted]
  /\ path[began.sequence] = Spawned
  /\ \A s \in began.sequence + 1 .. Len(issued) : path[s] = StepPlayer(path[s - 1], issued[s])

OnPath(path) ==
  /\ predicting.player = path[Len(issued)]
  /\ \A i \in DOMAIN history : history[i].predicted = path[history[i].sequence]
  /\ server.taken = 0 \/ server.taken > began.sequence
  /\ server.player = path[IF server.taken = 0 THEN began.sequence ELSE server.taken]
  /\ \A answer \in answers \cup {held} :
       answer.sequence > began.sequence => answer.player = path[answer.sequence]

PathOK == \E path : IsOwnPath(path) /\ (~apart => OnPath(path))

(***************************************************************************)
(* The tallies have seen every tick's totals.                              *)
(***************************************************************************)
TotalsOK == tally.seen = predicting.totals /\ TotalsExplain

PredictionIInv == PredictionTypeOK /\ HistoryOK /\ ChainOK /\ PathOK /\ TotalsOK

-----------------------------------------------------------------------------
(***************************************************************************)
(* A step of the player, and many.                                         *)
(***************************************************************************)
LEMMA PredictionConstants ==
  /\ MaxHistory \in Nat /\ MaxHistory > 0 /\ Tolerance \in Nat /\ Tolerance > 0
  /\ Wall \in Nat /\ Wall > 0 /\ Magazine \in Nat /\ Magazine > 0
  /\ LastSequence \in Nat /\ MaxAnswers \in Nat /\ MaxStarts \in Nat
BY PredictionAssumption DEF PredictionAssumption

LEMMA StepIsPredicted ==
  ASSUME NEW player \in Predicted, NEW command \in Commands
  PROVE  StepPlayer(player, command) \in Predicted
<1>1. Move(player.body, command) \in 0 .. Wall
  BY PredictionConstants DEF Predicted, Commands, Move
<1>2. (IF Fires(player.rifle, command) THEN player.rifle - 1 ELSE player.rifle) \in 0 .. Magazine
  BY PredictionConstants DEF Predicted, Commands, Fires
<1>3. QED
  BY <1>1, <1>2 DEF StepPlayer, Predicted

(* Players close to each other are so after the same command.              *)
LEMMA StepsKeepClose ==
  ASSUME NEW player \in Predicted, NEW other \in Predicted, NEW command \in Commands, Close(player, other)
  PROVE  Close(StepPlayer(player, command), StepPlayer(other, command))
<1>1. player.body \in 0 .. Wall /\ other.body \in 0 .. Wall /\ command.move \in {0, 1}
  BY DEF Predicted, Commands
<1>2. ~(Distance(player.body, other.body) >= Tolerance) /\ player.rifle = other.rifle
  BY DEF Close, BodyNeedsCorrection
<1>3. ~(Distance(Move(player.body, command), Move(other.body, command)) >= Tolerance)
  BY <1>1, <1>2, PredictionConstants DEF Distance, Move
<1>4. QED
  BY <1>2, <1>3 DEF Close, BodyNeedsCorrection, StepPlayer

LEMMA CloseToItself ==
  ASSUME NEW player \in Predicted PROVE Close(player, player)
BY PredictionConstants DEF Close, BodyNeedsCorrection, Distance, Predicted

AreEntries(entries) ==
  Len(entries) \in Nat /\ \A i \in 1 .. Len(entries) : entries[i].command \in Commands

LEMMA SteppedIs ==
  ASSUME NEW player \in Predicted, NEW entries, AreEntries(entries)
  PROVE  /\ Stepped(player, entries) \in [0 .. Len(entries) -> Predicted]
         /\ Stepped(player, entries)[0] = player
         /\ \A i \in 1 .. Len(entries) :
              Stepped(player, entries)[i] = StepPlayer(Stepped(player, entries)[i - 1], entries[i].command)
<1>. DEFINE N == Len(entries)
            step == [i \in Nat |-> [p \in Predicted |->
                       IF i \in 1 .. N THEN StepPlayer(p, entries[i].command) ELSE p]]
            Is(f) == f = [i \in 0 .. N |-> IF i = 0 THEN player ELSE StepPlayer(f[i - 1], entries[i].command)]
            S == Stepped(player, entries)
<1>1. N \in Nat
  BY DEF AreEntries
<1>2. step \in [Nat -> [Predicted -> Predicted]]
  <2>1. \A i \in 1 .. N, p \in Predicted : StepPlayer(p, entries[i].command) \in Predicted
    BY StepIsPredicted DEF AreEntries
  <2>2. QED
    BY <2>1
<1>3. PICK f \in [0 .. N -> Predicted] : Counts(f, player, step, N)
  <2>. HIDE DEF step, N
  <2>. QED
    BY <1>1, <1>2, CountedTo, Zenon
<1>4. ASSUME NEW i \in 0 .. N PROVE f[i] = IF i = 0 THEN player ELSE StepPlayer(f[i - 1], entries[i].command)
  <2>1. f[i] = IF i = 0 THEN player ELSE step[i][f[i - 1]]
    <3>. HIDE DEF step, N
    <3>. QED
      BY <1>3, <1>4, Zenon DEF Counts
  <2>2. CASE i # 0
    <3>1. i \in 1 .. N /\ i \in Nat /\ i - 1 \in 0 .. N
      BY <1>1, <2>2
    <3>2. f[i - 1] \in Predicted
      BY <3>1
    <3>3. step[i][f[i - 1]] = StepPlayer(f[i - 1], entries[i].command)
      BY <3>1, <3>2
    <3>4. QED
      BY <2>1, <2>2, <3>3
  <2>3. QED
    BY <2>1, <2>2
<1>5. Is(f)
  <2>. HIDE DEF N, step
  <2>1. DOMAIN f = 0 .. N
    OBVIOUS
  <2>2. QED
    BY <1>4, <2>1
<1>6. S = CHOOSE g : Is(g)
  BY Zenon DEF Stepped
<1>7. Is(S)
  <2>. HIDE DEF Is, S
  <2>. QED
    BY <1>5, <1>6, Zenon
<1>. DEFINE Apart == {n \in 0 .. N : S[n] # f[n]}
<1>8. S = f
  <2>. HIDE DEF S
  <2>1. SUFFICES ASSUME Apart # {} PROVE FALSE
    <3>. HIDE DEF N, step
    <3>1. f = [n \in 0 .. N |-> f[n]] /\ S = [n \in 0 .. N |-> S[n]]
      BY <1>7, Zenon
    <3>2. (\A n \in 0 .. N : S[n] = f[n]) => S = f
      <4>. HIDE DEF Is
      <4>1. ASSUME \A n \in 0 .. N : S[n] = f[n]
            PROVE  [n \in 0 .. N |-> S[n]] = [n \in 0 .. N |-> f[n]]
        BY <4>1
      <4>2. QED
        BY <3>1, <4>1
    <3>3. QED
      BY <3>2
  <2>. HIDE DEF N, step
  <2>2. Apart \subseteq Nat /\ Apart \subseteq 0 .. N
    BY <1>1
  <2>3. PICK n \in Apart : \A k \in Apart : n <= k
    <3>. HIDE DEF Apart
    <3>. QED
      BY <2>1, <2>2, LeastNat
  <2>4. n \in 0 .. N /\ S[n] # f[n]
    OBVIOUS
  <2>5. S[n] = IF n = 0 THEN player ELSE StepPlayer(S[n - 1], entries[n].command)
    BY <1>7, <2>4, Zenon
  <2>6. n # 0 => n - 1 \in 0 .. N /\ ~(n <= n - 1)
    BY <1>1, <2>4
  <2>7. n # 0 => S[n - 1] = f[n - 1]
    BY <2>3, <2>6
  <2>8. QED
    BY <1>4, <2>4, <2>5, <2>7
<1>9. QED
  <2>. HIDE DEF N, step, S
  <2>1. \A n \in 1 .. N : n \in 0 .. N /\ n # 0
    BY <1>1
  <2>2. 0 \in 0 .. N
    BY <1>1
  <2>3. S \in [0 .. N -> Predicted] /\ S[0] = player
    BY <1>4, <1>8, <2>2
  <2>4. \A n \in 1 .. N : S[n] = StepPlayer(S[n - 1], entries[n].command)
    BY <1>4, <1>8, <2>1
  <2>5. QED
    BY <2>3, <2>4 DEF N, S

LEMMA EntriesAre ==
  ASSUME NEW entries \in Seq(Entries)
  PROVE  /\ Len(entries) \in Nat /\ DOMAIN entries = 1 .. Len(entries)
         /\ \A i \in DOMAIN entries :
              /\ entries[i] \in Entries /\ entries[i].sequence \in 1 .. LastSequence
              /\ entries[i].command \in Commands /\ entries[i].predicted \in Predicted
<1>1. Len(entries) \in Nat /\ DOMAIN entries = 1 .. Len(entries)
  OBVIOUS
<1>2. \A i \in DOMAIN entries : entries[i] \in Entries
  OBVIOUS
<1>3. QED
  BY <1>1, <1>2 DEF Entries

(* What was predicted from a player close to another stays close to what   *)
(* that other is stepped to.                                               *)
LEMMA StaysClose ==
  ASSUME NEW player \in Predicted, NEW before \in Predicted, NEW entries \in Seq(Entries), Close(player, before),
         entries # <<>> => entries[1].predicted = StepPlayer(before, entries[1].command),
         \A i \in DOMAIN entries :
           i # 1 => entries[i].predicted = StepPlayer(entries[i - 1].predicted, entries[i].command)
  PROVE  \A i \in DOMAIN entries : Close(Stepped(player, entries)[i], entries[i].predicted)
<1>. DEFINE S == Stepped(player, entries)
            Far == {i \in DOMAIN entries : ~Close(S[i], entries[i].predicted)}
<1>1. /\ Len(entries) \in Nat /\ DOMAIN entries = 1 .. Len(entries)
      /\ \A i \in DOMAIN entries : entries[i].command \in Commands /\ entries[i].predicted \in Predicted
  BY EntriesAre
<1>2. AreEntries(entries)
  BY <1>1 DEF AreEntries
<1>3. /\ S \in [0 .. Len(entries) -> Predicted] /\ S[0] = player
      /\ \A i \in 1 .. Len(entries) : S[i] = StepPlayer(S[i - 1], entries[i].command)
  BY <1>2, SteppedIs
<1>. HIDE DEF S
<1>4. SUFFICES ASSUME Far # {} PROVE FALSE
  BY DEF S
<1>5. Far \subseteq Nat
  BY <1>1
<1>6. PICK i \in Far : \A k \in Far : i <= k
  <2>. HIDE DEF Far
  <2>. QED
    BY <1>4, <1>5, LeastNat
<1>7. i \in 1 .. Len(entries) /\ ~Close(S[i], entries[i].predicted)
  BY <1>1
<1>8. S[i] = StepPlayer(S[i - 1], entries[i].command) /\ entries[i].command \in Commands
  BY <1>1, <1>3, <1>7
<1>9. CASE i = 1
  <2>1. entries # <<>> /\ S[i - 1] = player
    BY <1>1, <1>3, <1>7, <1>9
  <2>2. entries[i].predicted = StepPlayer(before, entries[i].command)
    BY <1>9, <2>1
  <2>3. QED
    BY <1>7, <1>8, <2>1, <2>2, StepsKeepClose
<1>10. CASE i # 1
  <2>1. i - 1 \in 1 .. Len(entries) /\ i - 1 \in 0 .. Len(entries) /\ ~(i <= i - 1)
    BY <1>1, <1>7, <1>10
  <2>2. Close(S[i - 1], entries[i - 1].predicted)
    BY <1>1, <1>6, <2>1
  <2>3. S[i - 1] \in Predicted /\ entries[i - 1].predicted \in Predicted
    BY <1>1, <1>3, <2>1
  <2>4. entries[i].predicted = StepPlayer(entries[i - 1].predicted, entries[i].command)
    BY <1>1, <1>7, <1>10
  <2>5. QED
    BY <1>7, <1>8, <2>2, <2>3, <2>4, StepsKeepClose
<1>11. QED
  BY <1>9, <1>10

(* Answer acted on is carried forward by what is predicted since.          *)
LEMMA IsCarriedForward ==
  ASSUME PredictionTypeOK, ChainOK, HistoryOK
  PROVE  CarriedForward
<1>1. /\ predicting.player \in Predicted /\ held \in Acknowledgements
      /\ history \in Seq(Entries) /\ Len(history) <= MaxHistory
      /\ history # <<>> => predicting.player = history[Len(history)].predicted
  BY DEF PredictionTypeOK, ChainOK, ChainOf
<1>2. history # <<>> => history[1].sequence > basis.sequence
  <2>1. ASSUME history # <<>> PROVE 1 \in DOMAIN history /\ Len(history) \in Nat
    BY <1>1, <2>1
  <2>2. Len(issued) \in Nat /\ basis.sequence \in Nat
    BY DEF PredictionTypeOK, SequenceNumbers
  <2>3. QED
    BY <2>1, <2>2 DEF HistoryOK, HistoryOf
<1>3. ASSUME history # <<>>, history[1].sequence = basis.sequence + 1, NEW i \in DOMAIN history
      PROVE  /\ ~BodyNeedsCorrection(CarriedOn(i), history[i].predicted)
             /\ CarriedOn(i).rifle = history[i].predicted.rifle
  <2>1. PICK before \in Predicted : /\ Close(basis.player, before)
                                    /\ history[1].predicted = StepPlayer(before, history[1].command)
    BY <1>3 DEF ChainOK, ChainOf
  <2>2. basis.player \in Predicted
    BY DEF PredictionTypeOK
  <2>3. Close(Stepped(basis.player, history)[i], history[i].predicted)
    BY <1>1, <1>3, <2>1, <2>2, StaysClose DEF ChainOK, ChainOf
  <2>4. QED
    BY <2>3 DEF Close, CarriedOn
<1>4. QED
  BY <1>1, <1>2, <1>3 DEF CarriedForward

-----------------------------------------------------------------------------
(***************************************************************************)
(* What an answer discards.                                                *)
(***************************************************************************)
LEMMA Discards ==
  ASSUME PredictionTypeOK, HistoryOK, NEW s \in SequenceNumbers, s <= Len(issued)
  PROVE  LET dropped == s - (Len(issued) - Len(history))
         IN  /\ IsHeld(s) <=> dropped \in DOMAIN history
             /\ IsHeld(s) => FirstNotOlder(s) = dropped /\ Unanswered(s) = SubSeq(history, dropped + 1, Len(history))
             /\ ~IsHeld(s) => Unanswered(s) = SubSeq(history, 1, Len(history))
<1>. DEFINE dropped == s - (Len(issued) - Len(history))
            N == Len(history)
            IsFirst(first) ==
              /\ \A i \in 1 .. first - 1 : history[i].sequence < s
              /\ first <= N => history[first].sequence >= s
            k == IF dropped \in 1 .. N THEN dropped ELSE 1
<1>1. /\ N \in Nat /\ Len(issued) \in Nat /\ s \in Nat /\ N <= Len(issued) /\ dropped \in Int /\ dropped <= N
      /\ DOMAIN history = 1 .. N
  BY EntriesAre DEF PredictionTypeOK, HistoryOK, HistoryOf, SequenceNumbers
<1>2. \A i \in 1 .. N : history[i].sequence = Len(issued) - N + i
  BY <1>1 DEF HistoryOK, HistoryOf
<1>3. FirstNotOlder(s) = CHOOSE first \in 1 .. N + 1 : IsFirst(first)
  BY DEF FirstNotOlder
<1>. HIDE DEF N
<1>4. k \in 1 .. N + 1 /\ IsFirst(k)
  <2>1. \A i \in 1 .. N : history[i].sequence < s <=> i < dropped
    BY <1>1, <1>2
  <2>2. k \in 1 .. N + 1
    BY <1>1
  <2>3. \A i \in 1 .. k - 1 : i \in 1 .. N /\ i < dropped
    BY <1>1
  <2>4. k <= N => k \in 1 .. N /\ ~(k < dropped)
    BY <1>1
  <2>5. k <= N => history[k].sequence >= s
    <3>1. k <= N => history[k].sequence \in Int
      BY <1>1, <1>2, <2>4
    <3>2. QED
      BY <1>1, <1>2, <2>4
  <2>6. QED
    BY <2>1, <2>2, <2>3, <2>5
<1>5. \A first \in 1 .. N + 1 : IsFirst(first) => first = k
  <2>1. SUFFICES ASSUME NEW first \in 1 .. N + 1, IsFirst(first), first # k PROVE FALSE
    OBVIOUS
  <2>2. first < k \/ k < first
    BY <1>1, <2>1
  <2>3. CASE first < k
    <3>1. first \in 1 .. N /\ first < dropped
      BY <1>1, <2>3
    <3>2. QED
      BY <1>1, <1>2, <2>1, <3>1
  <2>4. CASE k < first
    <3>1. k \in 1 .. first - 1 /\ k \in 1 .. N /\ ~(k < dropped)
      BY <1>1, <2>4
    <3>2. history[k].sequence < s
      BY <2>1, <3>1
    <3>3. QED
      BY <1>1, <1>2, <3>1, <3>2
  <2>5. QED
    BY <2>2, <2>3, <2>4
<1>6. FirstNotOlder(s) = k
  <2>. HIDE DEF k, IsFirst
  <2>1. QED
    BY <1>3, <1>4, <1>5
<1>7. IsHeld(s) <=> dropped \in 1 .. N
  <2>1. k <= N => history[k].sequence = Len(issued) - N + k
    BY <1>1, <1>2
  <2>2. IsHeld(s) <=> k <= N /\ history[k].sequence = s
    BY <1>6 DEF IsHeld, N
  <2>3. CASE dropped \in 1 .. N
    BY <1>1, <2>1, <2>2, <2>3
  <2>4. CASE dropped \notin 1 .. N
    BY <1>1, <2>1, <2>2, <2>4
  <2>5. QED
    BY <2>3, <2>4
<1>8. IsHeld(s) => FirstNotOlder(s) = dropped /\ Unanswered(s) = SubSeq(history, dropped + 1, N)
  BY <1>6, <1>7 DEF Unanswered, N
<1>9. ~IsHeld(s) => Unanswered(s) = SubSeq(history, 1, N)
  BY <1>6, <1>7 DEF Unanswered, N
<1>10. QED
  BY <1>1, <1>7, <1>8, <1>9 DEF N

(* Of a history, all that is after some place in it.                       *)
LEMMA LastOf ==
  ASSUME NEW entries \in Seq(Entries), NEW n \in 0 .. Len(entries)
  PROVE  LET last == SubSeq(entries, n + 1, Len(entries))
         IN  /\ last \in Seq(Entries) /\ Len(last) = Len(entries) - n
             /\ \A i \in 1 .. Len(entries) - n : last[i] = entries[n + i]
<1>1. Len(entries) \in Nat /\ n + 1 \in Int
  OBVIOUS
<1>2. QED
  BY <1>1, SubSeqProperties

-----------------------------------------------------------------------------
(***************************************************************************)
(* The reconciliation leaves a history of the commands not answered, each  *)
(* predicted from the one before it, a player that its totals explain, and *)
(* one that was right as it was.                                           *)
(***************************************************************************)
Explains(after) ==
  /\ after.player.body - after.totals.correction = predicting.player.body - predicting.totals.correction
  /\ after.totals.rounds = predicting.totals.rounds

Sound(after) ==
  /\ after.player \in Predicted /\ after.totals \in Totals
  /\ after.history \in Seq(Entries) /\ Len(after.history) <= Len(history)
  /\ after.basis \in [sequence : SequenceNumbers, player : Predicted]
  /\ HistoryOf(after.history, after.basis)
  /\ ChainOf(after.player, after.history, after.basis)
  /\ Explains(after)
  /\ ~apart => /\ after.player = predicting.player /\ after.totals = predicting.totals
               /\ \A i \in DOMAIN after.history :
                    \E j \in DOMAIN history : after.history[i] = history[j]

LEMMA NothingHeardIsSound ==
  ASSUME PredictionTypeOK, HistoryOK, ChainOK, NEW after, after.player = predicting.player,
         after.totals = predicting.totals, after.history = history, after.basis = basis
  PROVE  Sound(after)
<1>1. /\ after.player \in Predicted /\ after.totals \in Totals /\ after.history \in Seq(Entries)
      /\ after.basis \in [sequence : SequenceNumbers, player : Predicted]
  BY DEF PredictionTypeOK
<1>2. Len(after.history) <= Len(history)
  BY EntriesAre DEF PredictionTypeOK
<1>3. HistoryOf(after.history, after.basis) /\ ChainOf(after.player, after.history, after.basis)
  BY DEF HistoryOK, ChainOK
<1>4. QED
  BY <1>1, <1>2, <1>3 DEF Sound, Explains

(* What is left of the history, once the one `dropped` is answered.        *)
LEMMA AnsweredLeaves ==
  ASSUME PredictionTypeOK, HistoryOK, ChainOK, IsHeld(held.sequence)
  PROVE  LET entries == Unanswered(held.sequence)
             n == FirstNotOlder(held.sequence)
         IN  /\ n \in DOMAIN history /\ n \in 1 .. Len(history) /\ history[n].sequence = held.sequence
             /\ held.sequence = Len(issued) - Len(entries)
             /\ entries \in Seq(Entries) /\ Len(entries) = Len(history) - n
             /\ \A i \in 1 .. Len(entries) : entries[i] = history[n + i] /\ n + i \in DOMAIN history
             /\ HistoryOf(entries, held)
<1>. DEFINE entries == Unanswered(held.sequence)
            n == FirstNotOlder(held.sequence)
            N == Len(history)
<1>1. /\ N \in Nat /\ Len(issued) \in Nat /\ held.sequence \in SequenceNumbers /\ held.sequence <= Len(issued)
      /\ DOMAIN history = 1 .. N /\ began.sequence \in Nat /\ history \in Seq(Entries) /\ held.sequence \in Nat
  BY EntriesAre DEF PredictionTypeOK, HistoryOK, HistoryOf, SequenceNumbers, Acknowledgements
<1>2. n = held.sequence - (Len(issued) - N) /\ n \in 1 .. N /\ entries = SubSeq(history, n + 1, N)
  BY <1>1, Discards
<1>. HIDE DEF n, entries
<1>3. n \in 0 .. N /\ N - n \in Nat
  BY <1>1, <1>2
<1>4. entries \in Seq(Entries) /\ Len(entries) = N - n /\ \A i \in 1 .. N - n : entries[i] = history[n + i]
  BY <1>1, <1>2, <1>3, LastOf
<1>5. \A i \in 1 .. N - n : n + i \in 1 .. N
  BY SMTT(30), <1>1, <1>2
<1>6. history[n].sequence = held.sequence
  BY SMTT(30), <1>1, <1>2 DEF HistoryOK, HistoryOf
<1>7. held.sequence = Len(issued) - Len(entries)
  BY SMTT(30), <1>1, <1>2, <1>4
<1>8. HistoryOf(entries, held)
  <2>1. Len(entries) + began.sequence <= Len(issued)
    <3>1. N + began.sequence <= Len(issued)
      BY DEF HistoryOK, HistoryOf
    <3>2. QED
      BY <1>1, <1>2, <1>4, <3>1
  <2>2. Len(entries) + held.sequence <= Len(issued)
    BY SMTT(30), <1>1, <1>2, <1>4, <1>7
  <2>3. ASSUME NEW i \in DOMAIN entries
        PROVE  /\ entries[i].sequence = Len(issued) - Len(entries) + i
               /\ entries[i].command = issued[Len(issued) - Len(entries) + i]
    <3>1. i \in 1 .. N - n
      BY <1>4, EntriesAre
    <3>2. entries[i] = history[n + i] /\ n + i \in 1 .. N
      BY <1>4, <1>5, <3>1
    <3>3. Len(issued) - N + (n + i) = Len(issued) - Len(entries) + i
      BY SMTT(30), <1>1, <1>2, <1>4, <3>1
    <3>4. QED
      BY <1>1, <3>2, <3>3 DEF HistoryOK, HistoryOf
  <2>4. QED
    BY <2>1, <2>2, <2>3 DEF HistoryOf
<1>9. \A i \in 1 .. Len(entries) : entries[i] = history[n + i] /\ n + i \in DOMAIN history
  BY <1>1, <1>4, <1>5
<1>10. QED
  BY <1>1, <1>2, <1>4, <1>6, <1>7, <1>8, <1>9 DEF entries, n

(* An answer that was predicted right discards what it answers.            *)
LEMMA PredictedRightIsSound ==
  ASSUME PredictionTypeOK, HistoryOK, ChainOK, IsHeld(held.sequence),
         Close(held.player, history[FirstNotOlder(held.sequence)].predicted),
         NEW after, after.player = predicting.player, after.totals = predicting.totals,
         after.history = Unanswered(held.sequence),
         after.basis = [sequence |-> held.sequence, player |-> held.player]
  PROVE  Sound(after)
<1>. DEFINE entries == Unanswered(held.sequence)
            n == FirstNotOlder(held.sequence)
            N == Len(history)
<1>1. /\ n \in DOMAIN history /\ n \in 1 .. N /\ N \in Nat /\ DOMAIN history = 1 .. N
      /\ held.sequence = Len(issued) - Len(entries)
      /\ entries \in Seq(Entries) /\ Len(entries) = N - n /\ Len(entries) \in Nat
      /\ \A i \in 1 .. Len(entries) : entries[i] = history[n + i] /\ n + i \in DOMAIN history
      /\ HistoryOf(entries, held)
  <2>1. history \in Seq(Entries)
    BY DEF PredictionTypeOK
  <2>2. QED
    BY <2>1, AnsweredLeaves, EntriesAre
<1>2. /\ predicting.player \in Predicted /\ predicting.totals \in Totals
      /\ after.basis \in [sequence : SequenceNumbers, player : Predicted] /\ held.player \in Predicted
      /\ Len(issued) \in Nat /\ held.sequence \in Nat
  BY DEF PredictionTypeOK, Acknowledgements, SequenceNumbers
<1>. HIDE DEF entries, n
<1>3. HistoryOf(entries, after.basis)
  BY <1>1 DEF HistoryOf
<1>4. ChainOf(predicting.player, entries, after.basis)
  <2>1. \A i \in 1 .. N : i # 1 => history[i].predicted = StepPlayer(history[i - 1].predicted, history[i].command)
    BY <1>1 DEF ChainOK, ChainOf
  <2>2. predicting.player = history[N].predicted
    <3>1. history # <<>>
      BY <1>1
    <3>2. QED
      BY <3>1 DEF ChainOK, ChainOf
  <2>3. DOMAIN entries = 1 .. Len(entries)
    BY <1>1, EntriesAre
  <2>4. entries # <<>> => predicting.player = entries[Len(entries)].predicted
    <3>1. ASSUME entries # <<>> PROVE Len(entries) \in 1 .. Len(entries) /\ n + Len(entries) = N
      BY <1>1, <3>1
    <3>2. QED
      BY <1>1, <2>2, <3>1
  <2>5. ASSUME NEW i \in DOMAIN entries, i # 1
        PROVE  entries[i].predicted = StepPlayer(entries[i - 1].predicted, entries[i].command)
    <3>1. i \in 1 .. Len(entries) /\ i - 1 \in 1 .. Len(entries)
      BY <1>1, <2>3, <2>5
    <3>2. entries[i] = history[n + i] /\ entries[i - 1] = history[n + (i - 1)] /\ n + (i - 1) = (n + i) - 1
      BY <1>1, <3>1
    <3>3. n + i \in 1 .. N /\ n + i # 1
      BY <1>1, <3>1
    <3>4. QED
      BY <2>1, <3>2, <3>3
  <2>6. ASSUME entries # <<>>
        PROVE  \E before \in Predicted : /\ Close(held.player, before)
                                         /\ entries[1].predicted = StepPlayer(before, entries[1].command)
    <3>1. 1 \in 1 .. Len(entries)
      BY <1>1, <2>6
    <3>2. entries[1] = history[n + 1] /\ n + 1 \in 1 .. N /\ n + 1 # 1 /\ (n + 1) - 1 = n
      <4>1. entries[1] = history[n + 1] /\ n + 1 \in DOMAIN history
        BY <1>1, <3>1
      <4>2. n \in 1 .. N /\ DOMAIN history = 1 .. N /\ N \in Nat
        BY <1>1
      <4>3. QED
        BY <4>1, <4>2
    <3>3. entries[1].predicted = StepPlayer(history[n].predicted, entries[1].command)
      BY <2>1, <3>2
    <3>4. history[n].predicted \in Predicted
      <4>1. history \in Seq(Entries)
        BY DEF PredictionTypeOK
      <4>2. QED
        BY <1>1, <4>1, EntriesAre
    <3>5. QED
      BY <3>3, <3>4 DEF n
  <2>7. ASSUME entries = <<>> PROVE held.sequence = Len(issued) /\ Close(held.player, predicting.player)
    <3>1. Len(entries) = 0
      BY <2>7
    <3>2. n = N
      BY <1>1, <3>1
    <3>3. QED
      BY <1>1, <1>2, <2>2, <3>1, <3>2 DEF n
  <2>8. after.basis.sequence = held.sequence /\ after.basis.player = held.player
    OBVIOUS
  <2>9. QED
    BY <2>4, <2>5, <2>6, <2>7, <2>8 DEF ChainOf
<1>5. \A i \in DOMAIN entries : \E j \in DOMAIN history : entries[i] = history[j]
  BY <1>1, EntriesAre
<1>6. after.history = entries
  BY DEF entries
<1>7. Len(entries) <= N
  BY <1>1
<1>8. QED
  BY <1>1, <1>2, <1>3, <1>4, <1>5, <1>6, <1>7 DEF Sound, Explains

(* One that was not restarts the player from it and from its commands.     *)
LEMMA CorrectedIsSound ==
  ASSUME PredictionTypeOK, HistoryOK, ChainOK, IsHeld(held.sequence), apart,
         NEW differs \in {0, 1},
         NEW after, after.player = Stepped(held.player, Unanswered(held.sequence))[Len(Unanswered(held.sequence))],
         after.totals = [correction |-> predicting.totals.correction + after.player.body - predicting.player.body,
                         rifles |-> predicting.totals.rifles + differs, rounds |-> predicting.totals.rounds],
         after.history = Replayed(held.player, Unanswered(held.sequence)),
         after.basis = [sequence |-> held.sequence, player |-> held.player]
  PROVE  Sound(after)
<1>. DEFINE entries == Unanswered(held.sequence)
            S == Stepped(held.player, entries)
            K == Len(entries)
<1>1. /\ entries \in Seq(Entries) /\ K \in Nat /\ DOMAIN entries = 1 .. K /\ K <= Len(history)
      /\ held.sequence = Len(issued) - K /\ HistoryOf(entries, held)
  <2>1. history \in Seq(Entries)
    BY DEF PredictionTypeOK
  <2>2. QED
    BY <2>1, AnsweredLeaves, EntriesAre
<1>2. /\ held.player \in Predicted /\ predicting.player \in Predicted /\ predicting.totals \in Totals
      /\ after.basis \in [sequence : SequenceNumbers, player : Predicted]
      /\ Len(issued) \in Nat /\ held.sequence \in Nat
  BY DEF PredictionTypeOK, Acknowledgements, SequenceNumbers
<1>. HIDE DEF entries
<1>3. \A i \in 1 .. K : /\ entries[i] \in Entries /\ entries[i].command \in Commands
                        /\ entries[i].predicted \in Predicted
  BY <1>1, EntriesAre
<1>4. /\ S \in [0 .. K -> Predicted] /\ S[0] = held.player
      /\ \A i \in 1 .. K : S[i] = StepPlayer(S[i - 1], entries[i].command)
  <2>1. AreEntries(entries)
    BY <1>1, <1>3 DEF AreEntries
  <2>2. held.player \in Predicted
    BY <1>2
  <2>3. /\ Stepped(held.player, entries) \in [0 .. Len(entries) -> Predicted]
        /\ Stepped(held.player, entries)[0] = held.player
    BY <2>1, <2>2, SteppedIs
  <2>4. \A i \in 1 .. Len(entries) :
          Stepped(held.player, entries)[i]
            = StepPlayer(Stepped(held.player, entries)[i - 1], entries[i].command)
    BY <2>1, <2>2, SteppedIs
  <2>5. QED
    BY <2>3, <2>4
<1>5. after.player = S[K] /\ after.player \in Predicted
  <2>1. after.player = S[K]
    BY DEF entries
  <2>2. K \in 0 .. K
    BY <1>1
  <2>3. QED
    BY <1>4, <2>1, <2>2
<1>. DEFINE replayed == Replayed(held.player, entries)
<1>6. after.history = replayed
  BY DEF entries
<1>. HIDE DEF S
<1>7. replayed = [i \in 1 .. K |-> [entries[i] EXCEPT !.predicted = S[i]]]
  BY DEF Replayed, S
<1>. HIDE DEF replayed
<1>8. \A i \in 1 .. K : /\ replayed[i] \in Entries /\ replayed[i].sequence = entries[i].sequence
                        /\ replayed[i].command = entries[i].command /\ replayed[i].predicted = S[i]
  <2>1. SUFFICES ASSUME NEW i \in 1 .. K
                 PROVE  /\ replayed[i] \in Entries /\ replayed[i].sequence = entries[i].sequence
                        /\ replayed[i].command = entries[i].command /\ replayed[i].predicted = S[i]
    OBVIOUS
  <2>2. replayed[i] = [entries[i] EXCEPT !.predicted = S[i]]
    BY <1>7
  <2>3. S[i] \in Predicted /\ entries[i] \in Entries
    BY <1>1, <1>3, <1>4
  <2>4. /\ entries[i].sequence \in 1 .. LastSequence /\ entries[i].command \in Commands
        /\ entries[i] = [sequence |-> entries[i].sequence, command |-> entries[i].command,
                         predicted |-> entries[i].predicted]
    BY <2>3 DEF Entries
  <2>5. replayed[i] = [sequence |-> entries[i].sequence, command |-> entries[i].command, predicted |-> S[i]]
    BY <2>2, <2>4
  <2>6. replayed[i] \in Entries
    BY <2>3, <2>4, <2>5 DEF Entries
  <2>7. QED
    BY <2>5, <2>6
<1>9. replayed \in Seq(Entries) /\ Len(replayed) = K /\ DOMAIN replayed = 1 .. K
  <2>1. replayed \in [1 .. K -> Entries]
    BY <1>7, <1>8
  <2>2. QED
    BY <1>1, <2>1
<1>10. HistoryOf(replayed, after.basis)
  <2>1. after.basis.sequence = held.sequence
    OBVIOUS
  <2>2. /\ K + began.sequence <= Len(issued) /\ K + held.sequence <= Len(issued)
        /\ \A i \in 1 .. K : /\ entries[i].sequence = Len(issued) - K + i
                             /\ entries[i].command = issued[Len(issued) - K + i]
    BY <1>1 DEF HistoryOf
  <2>3. \A i \in 1 .. K : /\ replayed[i].sequence = Len(issued) - K + i
                          /\ replayed[i].command = issued[Len(issued) - K + i]
    BY <1>8, <2>2
  <2>4. QED
    BY <1>9, <2>1, <2>2, <2>3 DEF HistoryOf
<1>11. ChainOf(S[K], replayed, after.basis)
  <2>1. replayed # <<>> => K \in 1 .. K
    BY <1>1, <1>9
  <2>2. replayed # <<>> => S[K] = replayed[K].predicted
    BY <1>8, <2>1
  <2>3. ASSUME NEW i \in 1 .. K, i # 1
        PROVE  replayed[i].predicted = StepPlayer(replayed[i - 1].predicted, replayed[i].command)
    <3>1. i - 1 \in 1 .. K
      BY <1>1, <2>3
    <3>2. QED
      BY <1>4, <1>8, <2>3, <3>1
  <2>4. ASSUME replayed # <<>>
        PROVE  replayed[1].predicted = StepPlayer(held.player, replayed[1].command)
    <3>1. 1 \in 1 .. K
      BY <1>1, <1>9, <2>4
    <3>2. S[1] = StepPlayer(S[1 - 1], entries[1].command)
      BY <1>4, <3>1
    <3>3. QED
      BY <1>4, <1>8, <3>1, <3>2
  <2>5. replayed = <<>> => held.sequence = Len(issued) /\ S[K] = held.player
    BY <1>1, <1>2, <1>4, <1>9
  <2>6. Close(held.player, held.player)
    BY <1>2, CloseToItself
  <2>7. after.basis.sequence = held.sequence /\ after.basis.player = held.player
    OBVIOUS
  <2>8. QED
    BY <1>2, <1>9, <2>2, <2>3, <2>4, <2>5, <2>6, <2>7 DEF ChainOf
<1>12. after.totals \in Totals /\ Explains(after)
  <2>1. after.player.body \in Int /\ predicting.player.body \in Int
    BY <1>2, <1>5 DEF Predicted
  <2>2. predicting.totals.correction \in Int /\ predicting.totals.rifles \in Nat /\ predicting.totals.rounds \in Nat
    BY <1>2 DEF Totals
  <2>3. QED
    BY SMTT(30), <2>1, <2>2 DEF Totals, Explains
<1>13. QED
  BY <1>1, <1>2, <1>5, <1>6, <1>9, <1>10, <1>11, <1>12 DEF Sound

(* While the server took the commands in order, it answers as predicted.   *)
LEMMA PredictedRight ==
  ASSUME PredictionTypeOK, HistoryOK, ChainOK, PathOK, ~apart, IsHeld(held.sequence)
  PROVE  held.player = history[FirstNotOlder(held.sequence)].predicted
<1>. DEFINE n == FirstNotOlder(held.sequence)
<1>1. n \in DOMAIN history /\ n \in 1 .. Len(history) /\ history[n].sequence = held.sequence
  BY AnsweredLeaves
<1>2. PICK path : OnPath(path)
  BY DEF PathOK
<1>3. held.sequence > began.sequence
  <2>1. Len(history) \in Nat /\ Len(issued) \in Nat /\ began.sequence \in Nat
    BY DEF PredictionTypeOK, SequenceNumbers
  <2>2. held.sequence = Len(issued) - Len(history) + n /\ Len(history) + began.sequence <= Len(issued)
    BY <1>1 DEF HistoryOK, HistoryOf
  <2>. HIDE DEF n
  <2>3. QED
    BY <1>1, <2>1, <2>2
<1>4. QED
  BY <1>1, <1>2, <1>3 DEF OnPath

LEMMA ReconciledIsSound ==
  ASSUME PredictionTypeOK, HistoryOK, ChainOK, PathOK
  PROVE  Sound(Reconciled)
<1>. DEFINE entries   == Unanswered(held.sequence)
            predicted == history[FirstNotOlder(held.sequence)].predicted
            differs   == held.player.rifle # predicted.rifle
            replayed  == Stepped(held.player, entries)[Len(entries)]
            nowOn     == IF IsHeld(held.sequence) THEN [sequence |-> held.sequence, player |-> held.player] ELSE basis
            untouched == [player |-> predicting.player, totals |-> predicting.totals, history |-> entries,
                          basis |-> nowOn]
            corrected == [untouched EXCEPT
                            !.player = replayed,
                            !.totals.correction = @ + replayed.body - predicting.player.body,
                            !.totals.rifles = @ + (IF differs THEN 1 ELSE 0),
                            !.history = Replayed(held.player, entries)]
<1>1. Reconciled = IF held = NoState THEN [untouched EXCEPT !.history = history]
                   ELSE IF ~IsHeld(held.sequence) THEN untouched
                   ELSE IF ~(BodyNeedsCorrection(held.player, predicted) \/ differs) THEN untouched
                   ELSE corrected
  BY DEF Reconciled
<1>2. history \in Seq(Entries) /\ held.sequence \in SequenceNumbers /\ held.sequence <= Len(issued)
  <2>1. history \in Seq(Entries) /\ held \in Acknowledgements
    BY DEF PredictionTypeOK
  <2>2. held.sequence \in SequenceNumbers
    BY <2>1 DEF Acknowledgements, SequenceNumbers
  <2>3. QED
    BY <2>1, <2>2 DEF HistoryOK
<1>3. CASE held = NoState
  <2>1. ~IsHeld(held.sequence)
    <3>1. held.sequence = 0
      BY <1>3 DEF NoState
    <3>2. Len(issued) \in Nat /\ Len(history) \in Nat /\ Len(history) <= Len(issued) /\ DOMAIN history = 1 .. Len(history)
      BY <1>2, EntriesAre DEF PredictionTypeOK, HistoryOK, HistoryOf, SequenceNumbers
    <3>3. held.sequence - (Len(issued) - Len(history)) \notin DOMAIN history
      BY <3>1, <3>2
    <3>4. QED
      BY <1>2, <3>3, Discards
  <2>2. Reconciled = [untouched EXCEPT !.history = history] /\ nowOn = basis
    BY <1>1, <1>3, <2>1
  <2>3. /\ Reconciled.player = predicting.player /\ Reconciled.totals = predicting.totals
        /\ Reconciled.history = history /\ Reconciled.basis = basis
    BY <2>2
  <2>4. QED
    BY <2>3, NothingHeardIsSound
<1>4. CASE held # NoState /\ ~IsHeld(held.sequence)
  <2>1. Reconciled = untouched /\ nowOn = basis
    BY <1>1, <1>4
  <2>2. entries = history
    <3>1. entries = SubSeq(history, 1, Len(history))
      BY <1>2, <1>4, Discards
    <3>2. QED
      BY <1>2, <3>1, SubSeqFull
  <2>3. /\ Reconciled.player = predicting.player /\ Reconciled.totals = predicting.totals
        /\ Reconciled.history = history /\ Reconciled.basis = basis
    BY <2>1, <2>2
  <2>4. QED
    BY <2>3, NothingHeardIsSound
<1>5. CASE held # NoState /\ IsHeld(held.sequence) /\ Close(held.player, predicted)
  <2>1. Reconciled = untouched /\ nowOn = [sequence |-> held.sequence, player |-> held.player]
    BY <1>1, <1>5 DEF Close
  <2>2. /\ Reconciled.player = predicting.player /\ Reconciled.totals = predicting.totals
        /\ Reconciled.history = entries /\ Reconciled.basis = [sequence |-> held.sequence, player |-> held.player]
    BY <2>1
  <2>3. QED
    BY <1>5, <2>2, PredictedRightIsSound
<1>6. CASE held # NoState /\ IsHeld(held.sequence) /\ ~Close(held.player, predicted)
  <2>1. Reconciled = corrected /\ nowOn = [sequence |-> held.sequence, player |-> held.player]
    BY <1>1, <1>6 DEF Close
  <2>2. apart
    <3>1. ASSUME ~apart PROVE FALSE
      <4>1. held.player = predicted
        BY <1>6, <3>1, PredictedRight
      <4>2. held.player \in Predicted
        BY DEF PredictionTypeOK, Acknowledgements
      <4>. HIDE DEF predicted
      <4>3. QED
        BY <1>6, <4>1, <4>2, CloseToItself
    <3>2. QED
      BY <3>1
  <2>. DEFINE counted == IF differs THEN 1 ELSE 0
  <2>3. counted \in {0, 1}
    OBVIOUS
  <2>. HIDE DEF differs, replayed, entries
  <2>4. predicting.totals = [correction |-> predicting.totals.correction, rifles |-> predicting.totals.rifles,
                             rounds |-> predicting.totals.rounds]
    BY DEF PredictionTypeOK, Totals
  <2>5. /\ Reconciled.player = replayed /\ Reconciled.history = Replayed(held.player, entries)
        /\ Reconciled.basis = [sequence |-> held.sequence, player |-> held.player]
        /\ Reconciled.totals = [predicting.totals EXCEPT
                                  !.correction = @ + replayed.body - predicting.player.body,
                                  !.rifles = @ + counted]
    BY <2>1
  <2>6. Reconciled.totals = [correction |-> predicting.totals.correction + replayed.body - predicting.player.body,
                             rifles |-> predicting.totals.rifles + counted, rounds |-> predicting.totals.rounds]
    BY <2>4, <2>5
  <2>. HIDE DEF counted
  <2>7. QED
    BY <1>6, <2>2, <2>3, <2>5, <2>6, CorrectedIsSound DEF replayed, entries
<1>7. QED
  BY <1>3, <1>4, <1>5, <1>6

-----------------------------------------------------------------------------
(***************************************************************************)
(* A tick of the client.                                                   *)
(***************************************************************************)
LEMMA RecordedIs ==
  ASSUME NEW entries \in Seq(Entries), NEW entry \in Entries, Len(entries) <= MaxHistory
  PROVE  \E dropped \in {0, 1} :
           /\ Recorded(entries, entry) \in Seq(Entries)
           /\ Len(Recorded(entries, entry)) = Len(entries) + 1 - dropped
           /\ Len(Recorded(entries, entry)) \in 1 .. MaxHistory
           /\ \A i \in 1 .. Len(entries) + 1 - dropped :
                Recorded(entries, entry)[i] = IF i + dropped <= Len(entries) THEN entries[i + dropped] ELSE entry
<1>. DEFINE all == Append(entries, entry)
            N == Len(entries)
<1>1. /\ N \in Nat /\ all \in Seq(Entries) /\ Len(all) = N + 1
      /\ \A i \in 1 .. N + 1 : all[i] = IF i <= N THEN entries[i] ELSE entry
  BY AppendProperties
<1>. HIDE DEF all
<1>2. CASE N + 1 > MaxHistory
  <2>1. Recorded(entries, entry) = Tail(all)
    BY <1>1, <1>2 DEF Recorded, all
  <2>2. all # <<>>
    BY <1>1
  <2>3. Tail(all) \in Seq(Entries) /\ Len(Tail(all)) = N /\ \A i \in 1 .. N : Tail(all)[i] = all[i + 1]
    BY <1>1, <2>2, HeadTailProperties
  <2>4. N \in 1 .. MaxHistory
    BY <1>1, <1>2, PredictionConstants
  <2>5. \A i \in 1 .. N : Tail(all)[i] = IF i + 1 <= N THEN entries[i + 1] ELSE entry
    BY <1>1, <2>3
  <2>6. N + 1 - 1 = N
    BY <1>1
  <2>7. QED
    BY <2>1, <2>3, <2>4, <2>5, <2>6
<1>3. CASE ~(N + 1 > MaxHistory)
  <2>1. Recorded(entries, entry) = all
    BY <1>1, <1>3 DEF Recorded, all
  <2>2. N + 1 \in 1 .. MaxHistory /\ N + 1 - 0 = N + 1
    BY <1>1, <1>3, PredictionConstants
  <2>3. \A i \in 1 .. N + 1 : all[i] = IF i + 0 <= N THEN entries[i + 0] ELSE entry
    BY <1>1
  <2>4. QED
    BY <1>1, <2>1, <2>2, <2>3
<1>4. QED
  BY <1>2, <1>3

LEMMA MoreTimesMore ==
  ASSUME NEW count \in Nat, NEW some \in Nat, NEW more \in Nat, some <= more
  PROVE  count * some <= count * more
<1>. DEFINE Less == {n \in Nat : ~(n * some <= n * more)}
<1>1. SUFFICES ASSUME Less # {} PROVE FALSE
  OBVIOUS
<1>2. PICK n \in Less : \A k \in Less : n <= k
  <2>. HIDE DEF Less
  <2>1. Less \in SUBSET Nat
    BY DEF Less
  <2>2. QED
    BY <1>1, <2>1, LeastNat
<1>3. n \in Nat /\ ~(n * some <= n * more)
  OBVIOUS
<1>4. n # 0
  BY <1>3
<1>5. n - 1 \in Nat /\ ~(n <= n - 1)
  BY <1>3, <1>4
<1>6. (n - 1) * some <= (n - 1) * more
  BY <1>2, <1>5
<1>7. (n - 1) * some = n * some - some /\ (n - 1) * more = n * more - more
  BY <1>3
<1>8. n * some \in Int /\ n * more \in Int
  BY <1>3
<1>9. QED
  BY <1>3, <1>6, <1>7, <1>8

(* The largest jump, as often as one was counted, is as far as they lead.  *)
LEMMA JumpsLeadNoFarther ==
  ASSUME NEW old \in Int, NEW new \in Int, NEW count \in Nat, NEW largest \in Nat,
         Distance(old, 0) <= count * largest
  PROVE  LET jump == Distance(new, old)
             farther == IF jump > largest THEN jump ELSE largest
         IN  Distance(new, 0) <= (count + (IF jump > 0 THEN 1 ELSE 0)) * farther
<1>. DEFINE jump == Distance(new, old)
            farther == IF jump > largest THEN jump ELSE largest
<1>1. jump \in Nat /\ farther \in Nat /\ largest <= farther /\ jump <= farther
  BY DEF Distance
<1>2. Distance(new, 0) <= Distance(old, 0) + jump /\ Distance(new, 0) \in Nat /\ Distance(old, 0) \in Nat
  BY DEF Distance
<1>3. count * largest <= count * farther
  BY <1>1, MoreTimesMore
<1>4. count * largest \in Nat /\ count * farther \in Nat
  BY <1>1
<1>5. CASE jump > 0
  <2>1. (count + 1) * farther = count * farther + farther
    <3>. HIDE DEF jump, farther
    <3>1. QED
      BY <1>1
  <2>2. Distance(new, 0) <= (count + 1) * farther
    <3>. HIDE DEF jump, farther
    <3>1. QED
      BY <1>1, <1>2, <1>3, <1>4, <2>1
  <2>3. QED
    BY <1>5, <2>2
<1>6. CASE ~(jump > 0)
  <2>1. jump = 0 /\ count + 0 = count
    BY <1>1, <1>6
  <2>2. Distance(new, 0) <= count * farther
    <3>. HIDE DEF jump, farther
    <3>1. QED
      BY <1>2, <1>3, <1>4, <2>1
  <2>3. QED
    BY <1>6, <2>1, <2>2
<1>7. QED
  BY <1>5, <1>6

LEMMA TickStep ==
  ASSUME PredictionIInv, NEW command \in Commands, PredictTick(command)
  PROVE  PredictionIInv'
<1>. DEFINE after  == Reconciled
            player == StepPlayer(after.player, command)
            rounds == IF Fires(after.player.rifle, command) THEN 1 ELSE 0
            totals == [after.totals EXCEPT !.rounds = @ + rounds]
            entry  == [sequence |-> Len(issued) + 1, command |-> command, predicted |-> player]
            L == Len(issued)
            N == Len(after.history)
<1>1. PredictionTypeOK /\ HistoryOK /\ ChainOK /\ PathOK /\ TotalsOK
  BY DEF PredictionIInv
<1>2. Sound(after)
  BY <1>1, ReconciledIsSound
<1>3. /\ starts > 0 /\ L < LastSequence
      /\ predicting' = [player |-> player, totals |-> totals]
      /\ history' = Recorded(after.history, entry)
      /\ basis' = after.basis
      /\ walked' = walked + player.body - after.player.body
      /\ tally' = Tallied(totals, TRUE)
      /\ issued' = Append(issued, command)
      /\ UNCHANGED <<held, server, answers, starts, began, apart>>
  BY DEF PredictTick
<1>. HIDE DEF after
<1>4. /\ after.player \in Predicted /\ after.totals \in Totals
      /\ after.history \in Seq(Entries) /\ N <= MaxHistory /\ N \in Nat /\ DOMAIN after.history = 1 .. N
      /\ after.basis \in [sequence : SequenceNumbers, player : Predicted]
  <2>1. Len(history) <= MaxHistory /\ history \in Seq(Entries)
    BY <1>1 DEF PredictionTypeOK
  <2>2. Len(history) \in Nat
    BY <2>1
  <2>3. /\ after.player \in Predicted /\ after.totals \in Totals
        /\ after.history \in Seq(Entries) /\ Len(after.history) <= Len(history)
        /\ after.basis \in [sequence : SequenceNumbers, player : Predicted]
    BY <1>2 DEF Sound
  <2>4. N \in Nat /\ DOMAIN after.history = 1 .. N
    BY <2>3
  <2>5. QED
    BY <2>1, <2>2, <2>3, <2>4, PredictionConstants
<1>5. player \in Predicted
  BY <1>4, StepIsPredicted
<1>. HIDE DEF player
<1>6. L \in Nat /\ L + 1 \in 1 .. LastSequence /\ issued \in Seq(Commands)
  BY SMTT(30), <1>1, <1>3, PredictionConstants DEF PredictionTypeOK
<1>7. /\ issued' \in Seq(Commands) /\ Len(issued') = L + 1 /\ issued'[L + 1] = command
      /\ \A i \in 1 .. L : issued'[i] = issued[i]
  BY <1>3, <1>6, AppendProperties
<1>8. entry \in Entries
  BY <1>5, <1>6 DEF Entries
<1>9. PICK d \in {0, 1} :
        /\ history' \in Seq(Entries) /\ Len(history') = N + 1 - d /\ Len(history') \in 1 .. MaxHistory
        /\ \A i \in 1 .. N + 1 - d :
             history'[i] = IF i + d <= N THEN after.history[i + d] ELSE entry
  <2>. HIDE DEF entry, N
  <2>1. /\ after.history \in Seq(Entries) /\ Len(after.history) <= MaxHistory /\ N = Len(after.history)
        /\ history' = Recorded(after.history, entry)
    BY <1>3, <1>4 DEF N
  <2>2. \E d \in {0, 1} :
          /\ Recorded(after.history, entry) \in Seq(Entries)
          /\ Len(Recorded(after.history, entry)) = Len(after.history) + 1 - d
          /\ Len(Recorded(after.history, entry)) \in 1 .. MaxHistory
          /\ \A i \in 1 .. Len(after.history) + 1 - d :
               Recorded(after.history, entry)[i]
                 = IF i + d <= Len(after.history) THEN after.history[i + d] ELSE entry
    BY <1>8, <2>1, RecordedIs, Zenon
  <2>3. QED
    BY <2>1, <2>2, Zenon
<1>10. totals \in Totals /\ totals.correction = after.totals.correction /\ totals.rifles = after.totals.rifles
  <2>1. rounds \in {0, 1}
    OBVIOUS
  <2>. HIDE DEF rounds
  <2>2. QED
    BY <1>4, <2>1 DEF Totals
<1>. HIDE DEF totals, rounds
<1>e. entry.sequence = L + 1 /\ entry.command = command /\ entry.predicted = player
  OBVIOUS
<1>. HIDE DEF entry, L, N
<1>11. /\ predicting.totals \in Totals /\ predicting.player \in Predicted /\ began.totals \in Totals
       /\ began.sequence \in Nat /\ after.basis.sequence \in Nat
       /\ tally \in [seen : Totals, count : Nat, largest : Nat, rifles : Int, rounds : Int]
       /\ walked \in Int /\ after.player.body \in Int /\ predicting.player.body \in Int /\ player.body \in Int
  <2>1. /\ predicting.totals \in Totals /\ predicting.player \in Predicted /\ began.totals \in Totals
        /\ began.sequence \in 0 .. LastSequence /\ walked \in Int
        /\ tally \in [seen : Totals, count : Nat, largest : Nat, rifles : Int, rounds : Int]
    BY <1>1 DEF PredictionTypeOK, SequenceNumbers
  <2>2. after.basis.sequence \in 0 .. LastSequence
    BY <1>4 DEF SequenceNumbers
  <2>3. after.player.body \in Int /\ predicting.player.body \in Int /\ player.body \in Int
    BY <1>4, <1>5, <2>1 DEF Predicted
  <2>4. QED
    BY <2>1, <2>2, <2>3
<1>. DEFINE jump == Distance(totals.correction, tally.seen.correction)
<1>12. /\ jump \in Nat /\ tally'.seen = totals
       /\ tally'.count = tally.count + (IF jump > 0 THEN 1 ELSE 0)
       /\ tally'.largest = IF jump > tally.largest THEN jump ELSE tally.largest
       /\ tally'.rifles = tally.rifles + (totals.rifles - tally.seen.rifles)
       /\ tally'.rounds = tally.rounds + (totals.rounds - tally.seen.rounds)
       /\ tally' \in [seen : Totals, count : Nat, largest : Nat, rifles : Int, rounds : Int]
  <2>1. jump \in Nat
    BY <1>10, <1>11 DEF Totals, Distance
  <2>2. /\ totals.rifles \in Int /\ totals.rounds \in Int /\ tally.seen.rifles \in Int /\ tally.seen.rounds \in Int
        /\ tally.count \in Nat /\ tally.largest \in Nat /\ tally.rifles \in Int /\ tally.rounds \in Int
    BY <1>10, <1>11 DEF Totals
  <2>3. tally' = [seen    |-> totals,
                  count   |-> tally.count + (IF jump > 0 THEN 1 ELSE 0),
                  largest |-> IF jump > tally.largest THEN jump ELSE tally.largest,
                  rifles  |-> tally.rifles + (totals.rifles - tally.seen.rifles),
                  rounds  |-> tally.rounds + (totals.rounds - tally.seen.rounds)]
    BY <1>3 DEF Tallied
  <2>. HIDE DEF jump
  <2>4. QED
    BY <1>10, <2>1, <2>2, <2>3
<1>13. PredictionTypeOK'
  <2>1. predicting' \in [player : Predicted, totals : Totals]
    BY <1>3, <1>5, <1>10
  <2>2. Len(issued') <= LastSequence
    BY <1>6, <1>7
  <2>3. walked' \in Int
    BY <1>3, <1>11
  <2>4. Len(history') <= MaxHistory
    BY <1>9
  <2>5. QED
    BY <1>1, <1>3, <1>4, <1>7, <1>9, <1>12, <2>1, <2>2, <2>3, <2>4 DEF PredictionTypeOK
<1>14. /\ N + began.sequence <= L /\ N + after.basis.sequence <= L
       /\ \A i \in 1 .. N : /\ after.history[i].sequence = L - N + i
                            /\ after.history[i].command = issued[L - N + i]
  BY <1>2, <1>4 DEF Sound, HistoryOf, L, N
<1>15. \A i \in 1 .. N + 1 - d : /\ history'[i].sequence = L + 1 - (N + 1 - d) + i
                                 /\ history'[i].command = issued'[L + 1 - (N + 1 - d) + i]
  <2>1. SUFFICES ASSUME NEW i \in 1 .. N + 1 - d
                 PROVE  /\ history'[i].sequence = L + 1 - (N + 1 - d) + i
                        /\ history'[i].command = issued'[L + 1 - (N + 1 - d) + i]
    OBVIOUS
  <2>2. CASE i + d <= N
    <3>1. history'[i] = after.history[i + d] /\ i + d \in 1 .. N
      BY <1>4, <1>9, <2>2
    <3>2. L - N + (i + d) = L + 1 - (N + 1 - d) + i /\ L - N + (i + d) \in 1 .. L
      BY SMTT(30), <1>4, <1>6, <1>11, <1>14, <2>2
    <3>3. QED
      BY <1>7, <1>14, <3>1, <3>2
  <2>3. CASE ~(i + d <= N)
    <3>1. history'[i] = entry
      BY <1>9, <2>3
    <3>2. L + 1 - (N + 1 - d) + i = L + 1
      BY <1>4, <1>6, <2>3
    <3>3. QED
      BY <1>7, <1>e, <3>1, <3>2
  <2>4. QED
    BY <2>2, <2>3
<1>16. HistoryOK'
  <2>1. Len(history') + began.sequence <= L + 1 /\ Len(history') + after.basis.sequence <= L + 1
    <3>1. Len(history') = N + 1 - d
      BY <1>9
    <3>2. N + began.sequence <= L /\ N + after.basis.sequence <= L
      BY <1>14
    <3>3. N \in Nat /\ L \in Nat /\ began.sequence \in Nat /\ after.basis.sequence \in Nat /\ N + 1 - d <= N + 1
      BY <1>4, <1>6, <1>11
    <3>4. QED
      BY SMTT(30), <3>1, <3>2, <3>3
  <2>2. DOMAIN history' = 1 .. N + 1 - d
    BY <1>9, EntriesAre
  <2>3. HistoryOf(history, basis)'
    <3>1. \A i \in DOMAIN history' :
            /\ history'[i].sequence = Len(issued') - Len(history') + i
            /\ history'[i].command = issued'[Len(issued') - Len(history') + i]
      <4>1. Len(history') = N + 1 - d /\ Len(issued') = L + 1
        BY <1>7, <1>9
      <4>2. ASSUME NEW i \in DOMAIN history'
            PROVE  /\ history'[i].sequence = Len(issued') - Len(history') + i
                   /\ history'[i].command = issued'[Len(issued') - Len(history') + i]
        <5>2. i \in 1 .. N + 1 - d
          BY <2>2
        <5>1. Len(issued') - Len(history') + i = L + 1 - (N + 1 - d) + i
          BY <1>4, <1>6, <4>1, <5>2
        <5>3. QED
          BY <1>15, <5>1, <5>2
      <4>3. QED
        BY <4>2
    <3>2. basis' = after.basis /\ began' = began
      BY <1>3
    <3>3. QED
      BY <1>7, <2>1, <3>1, <3>2 DEF HistoryOf
  <2>4. server.taken <= L + 1 /\ held.sequence <= L + 1 /\ \A answer \in answers : answer.sequence <= L + 1
    <3>1. server.taken \in Nat /\ held.sequence \in Nat /\ \A answer \in answers : answer.sequence \in Nat
      BY <1>1 DEF PredictionTypeOK, SequenceNumbers, Acknowledgements
    <3>2. server.taken <= L /\ held.sequence <= L /\ \A answer \in answers : answer.sequence <= L
      BY <1>1 DEF HistoryOK, L
    <3>3. QED
      BY <1>6, <3>1, <3>2
  <2>5. QED
    BY <1>3, <1>7, <2>3, <2>4 DEF HistoryOK
<1>17. ChainOK'
  <2>1. /\ N # 0 => after.player = after.history[N].predicted
        /\ \A i \in 1 .. N :
             i # 1 => after.history[i].predicted = StepPlayer(after.history[i - 1].predicted, after.history[i].command)
        /\ N # 0 /\ after.history[1].sequence = after.basis.sequence + 1 =>
             \E before \in Predicted :
               /\ Close(after.basis.player, before)
               /\ after.history[1].predicted = StepPlayer(before, after.history[1].command)
        /\ N = 0 => after.basis.sequence = L /\ Close(after.basis.player, after.player)
    <3>1. N = 0 <=> after.history = <<>>
      BY <1>4 DEF N
    <3>2. QED
      BY <1>2, <1>4, <3>1 DEF Sound, ChainOf, L, N
  <2>2. history'[N + 1 - d] = entry /\ N + 1 - d \in 1 .. N + 1 - d /\ N + 1 - d \in Nat
    <3>1. N + 1 - d \in 1 .. N + 1 - d /\ ~(N + 1 - d + d <= N)
      BY <1>4, <1>9
    <3>2. QED
      BY <1>9, <3>1
  <2>3. ASSUME NEW i \in 1 .. N + 1 - d, i # 1
        PROVE  history'[i].predicted = StepPlayer(history'[i - 1].predicted, history'[i].command)
    <3>1. i - 1 \in 1 .. N + 1 - d /\ i - 1 + d <= N /\ i - 1 + d \in 1 .. N
      BY <1>4, <2>3
    <3>2. history'[i - 1] = after.history[i - 1 + d]
      BY <1>9, <3>1
    <3>3. CASE i + d <= N
      <4>1. history'[i] = after.history[i + d] /\ i + d \in 1 .. N /\ i + d # 1 /\ i + d - 1 = i - 1 + d
        BY <1>4, <1>9, <2>3, <3>3
      <4>2. QED
        BY <2>1, <3>2, <4>1
    <3>4. CASE ~(i + d <= N)
      <4>1. history'[i] = entry /\ i - 1 + d = N /\ N # 0
        BY <1>4, <1>9, <2>3, <3>1, <3>4
      <4>2. QED
        BY <1>e, <2>1, <3>2, <4>1 DEF player
    <3>5. QED
      BY <3>3, <3>4
  <2>4. ASSUME history'[1].sequence = after.basis.sequence + 1
        PROVE  \E before \in Predicted : /\ Close(after.basis.player, before)
                                         /\ history'[1].predicted = StepPlayer(before, history'[1].command)
    <3>1. 1 \in 1 .. N + 1 - d
      BY <1>9
    <3>2. history'[1].sequence = L + 1 - (N + 1 - d) + 1
      BY <1>15, <3>1
    <3>3. d = 0
      <4>1. N + after.basis.sequence <= L /\ L + 1 - (N + 1 - d) + 1 = after.basis.sequence + 1
        BY <1>14, <2>4, <3>2
      <4>2. QED
        BY <1>4, <1>6, <1>11, <4>1
    <3>4. CASE N = 0
      <4>1. history'[1] = entry
        BY <1>9, <3>1, <3>3, <3>4
      <4>2. Close(after.basis.player, after.player)
        BY <2>1, <3>4
      <4>3. entry.predicted = StepPlayer(after.player, entry.command)
        BY <1>e DEF player
      <4>4. QED
        BY <1>4, <4>1, <4>2, <4>3
    <3>5. CASE N # 0
      <4>1. history'[1] = after.history[1]
        BY <1>4, <1>9, <3>1, <3>3, <3>5
      <4>2. QED
        BY <2>1, <2>4, <3>5, <4>1
    <3>6. QED
      BY <3>4, <3>5
  <2>5. history' # <<>> /\ DOMAIN history' = 1 .. N + 1 - d
    BY <1>9, EntriesAre
  <2>6. predicting'.player = player
    BY <1>3
  <2>7. QED
    BY <1>3, <1>9, <1>e, <2>2, <2>3, <2>4, <2>5, <2>6 DEF ChainOK, ChainOf
<1>18. PathOK'
  <2>1. PICK path : IsOwnPath(path) /\ (~apart => OnPath(path))
    BY <1>1 DEF PathOK
  <2>. DEFINE longer == [s \in began.sequence .. L + 1 |-> IF s = L + 1 THEN StepPlayer(path[L], command) ELSE path[s]]
  <2>2. /\ path \in [began.sequence .. L -> Predicted] /\ path[began.sequence] = Spawned
        /\ \A s \in began.sequence + 1 .. L : path[s] = StepPlayer(path[s - 1], issued[s])
    BY <2>1 DEF IsOwnPath, L
  <2>3. began.sequence <= L /\ L \in began.sequence .. L
    BY <1>4, <1>6, <1>11, <1>14
  <2>4. path[L] \in Predicted
    BY <2>2, <2>3
  <2>5. StepPlayer(path[L], command) \in Predicted
    BY <2>4, StepIsPredicted
  <2>6. \A s \in began.sequence .. L : longer[s] = path[s]
    BY <1>6, <1>11, <2>3
  <2>7. longer[L + 1] = StepPlayer(path[L], command)
    BY <1>6, <1>11, <2>3
  <2>8. longer \in [began.sequence .. L + 1 -> Predicted]
    <3>1. \A s \in began.sequence .. L + 1 : s = L + 1 \/ s \in began.sequence .. L
      BY <1>6, <1>11
    <3>2. QED
      BY <2>2, <2>5, <3>1
  <2>. HIDE DEF longer
  <2>9. \A s \in began.sequence + 1 .. L + 1 : longer[s] = StepPlayer(longer[s - 1], issued'[s])
    <3>1. SUFFICES ASSUME NEW s \in began.sequence + 1 .. L + 1
                   PROVE  longer[s] = StepPlayer(longer[s - 1], issued'[s])
      OBVIOUS
    <3>2. s - 1 \in began.sequence .. L
      BY <1>6, <1>11
    <3>3. CASE s = L + 1
      <4>1. s - 1 = L
        BY <1>6, <3>3
      <4>2. QED
        BY <1>7, <2>6, <2>7, <3>2, <3>3, <4>1
    <3>4. CASE s # L + 1
      <4>1. s \in began.sequence + 1 .. L /\ s \in began.sequence .. L /\ s \in 1 .. L
        BY SMTT(30), <1>6, <1>11, <3>4
      <4>2. QED
        BY <1>7, <2>2, <2>6, <3>2, <4>1
    <3>5. QED
      BY <3>3, <3>4
  <2>r. PICK road : road = longer
    OBVIOUS
  <2>10. IsOwnPath(road)'
    <3>1. began.sequence \in began.sequence .. L
      BY <1>11, <2>3
    <3>2. road[began.sequence] = Spawned
      BY <2>2, <2>6, <2>r, <3>1
    <3>3. QED
      <4>1. began' = began
        BY <1>3
      <4>2. QED
        BY <1>7, <2>8, <2>9, <2>r, <3>2, <4>1 DEF IsOwnPath
  <2>11. ASSUME ~apart PROVE OnPath(road)'
    <3>1. /\ predicting.player = path[L]
          /\ \A i \in DOMAIN history : history[i].predicted = path[history[i].sequence]
          /\ server.taken = 0 \/ server.taken > began.sequence
          /\ server.player = path[IF server.taken = 0 THEN began.sequence ELSE server.taken]
          /\ \A answer \in answers \cup {held} :
               answer.sequence > began.sequence => answer.player = path[answer.sequence]
      BY <2>1, <2>11 DEF OnPath, L
    <3>2. /\ after.player = predicting.player
          /\ \A i \in 1 .. N : \E j \in DOMAIN history : after.history[i] = history[j]
      BY <1>2, <1>4, <2>11 DEF Sound
    <3>3. player = road[L + 1]
      BY <2>7, <2>r, <3>1, <3>2 DEF player
    <3>4. \A i \in 1 .. N : after.history[i].predicted = road[after.history[i].sequence]
      <4>1. SUFFICES ASSUME NEW i \in 1 .. N PROVE after.history[i].predicted = road[after.history[i].sequence]
        OBVIOUS
      <4>2. after.history[i].predicted = path[after.history[i].sequence]
        BY <3>1, <3>2
      <4>3. L - N + i \in began.sequence .. L
        <5>1. N + began.sequence <= L
          BY <1>14
        <5>2. QED
          BY <1>4, <1>6, <1>11, <4>1, <5>1
      <4>4. QED
        BY <1>14, <2>6, <2>r, <4>2, <4>3
    <3>5. entry.predicted = road[entry.sequence]
      BY <1>e, <3>3
    <3>6. \A i \in DOMAIN history' : history'[i].predicted = road[history'[i].sequence]
      <4>1. SUFFICES ASSUME NEW i \in 1 .. N + 1 - d PROVE history'[i].predicted = road[history'[i].sequence]
        BY <1>9, EntriesAre
      <4>2. CASE i + d <= N
        <5>1. i + d \in 1 .. N /\ history'[i] = after.history[i + d]
          BY <1>4, <1>9, <4>2
        <5>2. QED
          BY <3>4, <5>1
      <4>3. CASE ~(i + d <= N)
        <5>1. history'[i] = entry
          BY <1>9, <4>3
        <5>2. QED
          BY <3>5, <5>1
      <4>4. QED
        BY <4>2, <4>3
    <3>7. /\ server.taken \in Nat /\ server.taken <= L
          /\ \A answer \in answers \cup {held} : answer.sequence \in Nat /\ answer.sequence <= L
      <4>1. /\ server.taken \in 0 .. LastSequence /\ held \in Acknowledgements
            /\ \A answer \in answers : answer \in Acknowledgements
        BY <1>1 DEF PredictionTypeOK, SequenceNumbers
      <4>2. \A answer \in Acknowledgements : answer.sequence \in Nat
        BY PredictionConstants DEF Acknowledgements
      <4>3. /\ server.taken <= L /\ held.sequence <= L
            /\ \A answer \in answers : answer.sequence <= L
        BY <1>1 DEF HistoryOK, L
      <4>4. QED
        BY <4>1, <4>2, <4>3, PredictionConstants
    <3>8. server.player = road[IF server.taken = 0 THEN began.sequence ELSE server.taken]
      <4>1. (IF server.taken = 0 THEN began.sequence ELSE server.taken) \in began.sequence .. L
        BY <1>6, <1>11, <2>3, <3>1, <3>7
      <4>2. QED
        BY <2>6, <2>r, <3>1, <4>1
    <3>9. \A answer \in answers \cup {held} :
            answer.sequence > began.sequence => answer.player = road[answer.sequence]
      <4>1. SUFFICES ASSUME NEW answer \in answers \cup {held}, answer.sequence > began.sequence
                     PROVE  answer.player = road[answer.sequence]
        OBVIOUS
      <4>2. answer.sequence \in began.sequence .. L
        BY <1>6, <1>11, <3>7, <4>1
      <4>3. QED
        BY <2>6, <2>r, <3>1, <4>1, <4>2
    <3>10. predicting'.player = player
      BY <1>3
    <3>11. QED
      <4>1. server' = server /\ began' = began /\ answers' = answers /\ held' = held
        BY <1>3
      <4>2. road[Len(issued')] = road[L + 1]
        BY <1>7
      <4>3. QED
        BY <3>1, <3>3, <3>6, <3>8, <3>9, <3>10, <4>1, <4>2 DEF OnPath
  <2>12. IsOwnPath(road)' /\ (~apart' => OnPath(road)')
    BY <1>3, <2>10, <2>11
  <2>13. QED
    BY <2>12 DEF PathOK
<1>19. TotalsOK'
  <2>1. /\ tally.seen = predicting.totals
        /\ predicting.player.body = walked + predicting.totals.correction - began.totals.correction
        /\ tally.rounds = predicting.totals.rounds /\ tally.rifles = predicting.totals.rifles
        /\ Distance(predicting.totals.correction, 0) <= tally.count * tally.largest
        /\ ~apart => /\ predicting.totals.correction = began.totals.correction
                     /\ predicting.totals.rifles = began.totals.rifles
    BY <1>1 DEF TotalsOK, TotalsExplain
  <2>2. predicting'.totals = totals /\ predicting'.player = player /\ began' = began /\ apart' = apart
    BY <1>3
  <2>3. /\ predicting.totals.correction \in Int /\ began.totals.correction \in Int /\ after.totals.correction \in Int
        /\ predicting.totals.rounds \in Int /\ predicting.totals.rifles \in Int
        /\ totals.rounds \in Int /\ totals.rifles \in Int /\ totals.correction \in Int
        /\ tally.count \in Nat /\ tally.largest \in Nat
    <3>1. \A t \in Totals : t.correction \in Int /\ t.rifles \in Int /\ t.rounds \in Int
      BY DEF Totals
    <3>2. tally.count \in Nat /\ tally.largest \in Nat
      BY <1>11
    <3>3. QED
      BY <1>4, <1>10, <1>11, <3>1, <3>2
  <2>4. player.body = walked' + totals.correction - began.totals.correction
    <3>1. after.player.body - after.totals.correction = predicting.player.body - predicting.totals.correction
      BY <1>2 DEF Sound, Explains
    <3>2. QED
      <4>1. walked' = walked + player.body - after.player.body /\ totals.correction = after.totals.correction
        BY <1>3, <1>10
      <4>2. predicting.player.body = walked + predicting.totals.correction - began.totals.correction
        BY <2>1
      <4>3. /\ player.body \in Int /\ after.player.body \in Int /\ predicting.player.body \in Int /\ walked \in Int
            /\ predicting.totals.correction \in Int /\ began.totals.correction \in Int
            /\ after.totals.correction \in Int
        BY <1>11, <2>3
      <4>. HIDE DEF jump
      <4>4. QED
        BY <3>1, <4>1, <4>2, <4>3
  <2>5. tally'.rounds = totals.rounds /\ tally'.rifles = totals.rifles
    BY <1>12, <2>1, <2>3
  <2>6. Distance(totals.correction, 0) <= tally'.count * tally'.largest
    <3>1. Distance(totals.correction, 0)
            <= (tally.count + (IF jump > 0 THEN 1 ELSE 0)) * (IF jump > tally.largest THEN jump ELSE tally.largest)
      BY <2>1, <2>3, JumpsLeadNoFarther
    <3>2. QED
      BY <1>12, <3>1
  <2>7. ~apart => totals.correction = began.totals.correction /\ totals.rifles = began.totals.rifles
    BY <1>2, <1>10, <2>1 DEF Sound
  <2>8. QED
    BY <1>12, <2>2, <2>4, <2>5, <2>6, <2>7 DEF TotalsOK, TotalsExplain
<1>20. QED
  BY <1>13, <1>16, <1>17, <1>18, <1>19 DEF PredictionIInv

-----------------------------------------------------------------------------
(***************************************************************************)
(* The other steps: a match starts, an answer is heard, the server ticks.  *)
(***************************************************************************)
LEMMA SpawnedIsPredicted ==
  /\ Spawned \in Predicted /\ Spawned.body = 0 /\ NoState \in Acknowledgements /\ NoState.sequence = 0
  /\ [move |-> 0, fire |-> FALSE] \in Commands
<1>1. Spawned \in Predicted /\ Spawned.body = 0
  BY PredictionConstants DEF Spawned, Predicted
<1>2. NoState \in Acknowledgements /\ NoState.sequence = 0
  BY <1>1, PredictionConstants DEF NoState, Acknowledgements
<1>3. QED
  BY <1>1, <1>2 DEF Commands

LEMMA PredictionStarts == PredictionInit => PredictionIInv
<1>. SUFFICES ASSUME PredictionInit PROVE PredictionIInv
  OBVIOUS
<1>. USE DEF PredictionInit
<1>1. NoTotals \in Totals /\ NoTotals.correction = 0 /\ NoTotals.rifles = 0 /\ NoTotals.rounds = 0
  BY DEF NoTotals, Totals
<1>2. issued \in Seq(Commands) /\ Len(issued) = 0 /\ history \in Seq(Entries) /\ Len(history) = 0 /\ DOMAIN history = {}
  OBVIOUS
<1>3. IsFiniteSet(answers) /\ Cardinality(answers) = 0 /\ answers = {}
  BY FS_EmptySet
<1>4. PredictionTypeOK
  <2>1. predicting \in [player : Predicted, totals : Totals]
    BY <1>1, SpawnedIsPredicted
  <2>2. server \in [player : Predicted, taken : SequenceNumbers, last : Commands]
    BY SpawnedIsPredicted, PredictionConstants DEF SequenceNumbers
  <2>3. tally \in [seen : Totals, count : Nat, largest : Nat, rifles : Int, rounds : Int]
    BY <1>1
  <2>4. /\ began \in [sequence : SequenceNumbers, totals : Totals]
        /\ basis \in [sequence : SequenceNumbers, player : Predicted]
    BY <1>1, SpawnedIsPredicted, PredictionConstants DEF SequenceNumbers
  <2>5. Len(history) <= MaxHistory /\ Len(issued) <= LastSequence /\ Cardinality(answers) <= MaxAnswers
    BY <1>2, <1>3, PredictionConstants
  <2>6. /\ held \in Acknowledgements /\ starts \in Nat /\ walked \in Int
        /\ apart \in BOOLEAN
    <3>1. apart = FALSE
      OBVIOUS
    <3>2. held \in Acknowledgements /\ starts = 0 /\ walked = 0
      BY SpawnedIsPredicted
    <3>3. apart \in BOOLEAN
      BY <3>1, Zenon
    <3>4. held \in Acknowledgements /\ starts \in Nat /\ walked \in Int
      BY <3>2
    <3>5. QED
      BY <3>3, <3>4, Zenon
  <2>7. QED
    BY <1>2, <1>3, <2>1, <2>2, <2>3, <2>4, <2>5, <2>6 DEF PredictionTypeOK
<1>5. HistoryOK
  <2>1. held.sequence = 0
    BY SpawnedIsPredicted
  <2>2. HistoryOf(history, basis)
    BY <1>2 DEF HistoryOf
  <2>3. QED
    BY <1>2, <1>3, <2>1, <2>2 DEF HistoryOK
<1>6. ChainOK
  BY <1>2, SpawnedIsPredicted, CloseToItself DEF ChainOK, ChainOf
<1>7. PathOK
  <2>. DEFINE path == [s \in 0 .. 0 |-> Spawned]
  <2>1. path \in [0 .. 0 -> Predicted] /\ path[0] = Spawned
    BY SpawnedIsPredicted
  <2>2. began.sequence = 0
    OBVIOUS
  <2>. HIDE DEF path
  <2>3. IsOwnPath(path)
    BY <1>2, <2>1, <2>2 DEF IsOwnPath
  <2>4. OnPath(path)
    BY <1>2, <1>3, <2>1, <2>2, SpawnedIsPredicted DEF OnPath
  <2>5. QED
    BY <2>3, <2>4 DEF PathOK
<1>8. TotalsOK
  BY <1>1, SpawnedIsPredicted DEF TotalsOK, TotalsExplain, Distance
<1>9. QED
  BY <1>4, <1>5, <1>6, <1>7, <1>8 DEF PredictionIInv

LEMMA NothingDone ==
  ASSUME PredictionIInv, UNCHANGED predictionVars
  PROVE  PredictionIInv'
<1>. USE DEF predictionVars
<1>1. PredictionTypeOK /\ HistoryOK /\ ChainOK /\ PathOK /\ TotalsOK
  BY DEF PredictionIInv
<1>2. PredictionTypeOK'
  BY <1>1 DEF PredictionTypeOK
<1>3. HistoryOK' /\ ChainOK'
  BY <1>1 DEF HistoryOK, HistoryOf, ChainOK, ChainOf
<1>4. PathOK'
  BY <1>1 DEF PathOK, IsOwnPath, OnPath
<1>5. TotalsOK'
  BY <1>1 DEF TotalsOK, TotalsExplain
<1>6. QED
  BY <1>2, <1>3, <1>4, <1>5 DEF PredictionIInv

LEMMA NoTickChangesNoTally ==
  ASSUME PredictionIInv, TickOutsideMatch
  PROVE  PredictionIInv'
<1>1. /\ PredictionTypeOK /\ HistoryOK /\ ChainOK /\ PathOK /\ TotalsOK
      /\ tally \in [seen : Totals, count : Nat, largest : Nat, rifles : Int, rounds : Int]
  BY DEF PredictionIInv, PredictionTypeOK
<1>2. tally' = Tallied(tally.seen, FALSE)
  BY <1>1 DEF TickOutsideMatch, TotalsOK
<1>3. tally' = tally
  <2>1. tally = [seen |-> tally.seen, count |-> tally.count, largest |-> tally.largest,
                 rifles |-> tally.rifles, rounds |-> tally.rounds]
    BY <1>1
  <2>2. tally' = [seen |-> tally.seen, count |-> tally.count + 0, largest |-> tally.largest,
                  rifles |-> tally.rifles + 0, rounds |-> tally.rounds + 0]
    BY <1>2 DEF Tallied
  <2>3. tally.count + 0 = tally.count /\ tally.rifles + 0 = tally.rifles /\ tally.rounds + 0 = tally.rounds
    BY <1>1
  <2>4. QED
    BY <2>1, <2>2, <2>3
<1>4. UNCHANGED predictionVars
  BY <1>3 DEF TickOutsideMatch, predictionVars
<1>5. QED
  BY <1>4, NothingDone

LEMMA StartStep ==
  ASSUME PredictionIInv, PredictionStart
  PROVE  PredictionIInv'
<1>. DEFINE L == Len(issued)
<1>1. PredictionTypeOK /\ HistoryOK /\ TotalsOK
  BY DEF PredictionIInv
<1>2. /\ starts' = starts + 1 /\ predicting' = [predicting EXCEPT !.player = Spawned]
      /\ history' = <<>> /\ held' = NoState
      /\ server' = [player |-> Spawned, taken |-> 0, last |-> [move |-> 0, fire |-> FALSE]]
      /\ began' = [sequence |-> L, totals |-> predicting.totals]
      /\ basis' = [sequence |-> L, player |-> Spawned]
      /\ walked' = 0 /\ apart' = FALSE /\ issued' = issued /\ answers' = answers /\ tally' = tally
  BY DEF PredictionStart
<1>3. L \in Nat /\ L \in SequenceNumbers /\ L <= LastSequence /\ starts \in Nat
  BY <1>1, PredictionConstants DEF PredictionTypeOK, SequenceNumbers
<1>4. /\ predicting'.player = Spawned /\ predicting'.totals = predicting.totals
      /\ predicting' \in [player : Predicted, totals : Totals] /\ predicting.totals \in Totals
  BY <1>1, <1>2, SpawnedIsPredicted DEF PredictionTypeOK
<1>5. history' \in Seq(Entries) /\ Len(history') = 0 /\ DOMAIN history' = {} /\ issued' = issued
  BY <1>2
<1>6. PredictionTypeOK'
  <2>1. /\ issued \in Seq(Commands) /\ Len(issued) <= LastSequence
        /\ answers \in SUBSET Acknowledgements /\ IsFiniteSet(answers) /\ Cardinality(answers) <= MaxAnswers
        /\ tally \in [seen : Totals, count : Nat, largest : Nat, rifles : Int, rounds : Int]
    BY <1>1 DEF PredictionTypeOK
  <2>2. server' \in [player : Predicted, taken : SequenceNumbers, last : Commands]
    BY <1>2, SpawnedIsPredicted, PredictionConstants DEF SequenceNumbers
  <2>3. began' \in [sequence : SequenceNumbers, totals : Totals] /\ basis' \in [sequence : SequenceNumbers, player : Predicted]
    BY <1>2, <1>3, <1>4, SpawnedIsPredicted
  <2>4. Len(history') <= MaxHistory
    BY <1>5, PredictionConstants
  <2>5. /\ held' \in Acknowledgements /\ starts' \in Nat /\ walked' \in Int
        /\ apart' \in BOOLEAN
    <3>1. apart' = FALSE
      BY <1>2
    <3>2. held' \in Acknowledgements /\ starts' = starts + 1 /\ walked' = 0
      BY <1>2, SpawnedIsPredicted
    <3>3. apart' \in BOOLEAN
      BY <3>1, Zenon
    <3>4. held' \in Acknowledgements /\ starts' \in Nat /\ walked' \in Int
      BY <1>3, <3>2
    <3>5. QED
      BY <3>3, <3>4, Zenon
  <2>6. QED
    BY <1>2, <1>4, <1>5, <2>1, <2>2, <2>3, <2>4, <2>5 DEF PredictionTypeOK
<1>7. \A answer \in answers : answer.sequence \in Nat /\ answer.sequence <= L
  BY <1>1, PredictionConstants DEF PredictionTypeOK, Acknowledgements, HistoryOK
<1>8. HistoryOK'
  <2>1. server'.taken = 0 /\ held'.sequence = 0 /\ began'.sequence = L /\ basis'.sequence = L
    BY <1>2, SpawnedIsPredicted
  <2>2. HistoryOf(history, basis)'
    BY <1>3, <1>5, <2>1 DEF HistoryOf
  <2>3. QED
    BY <1>2, <1>3, <1>7, <2>1, <2>2 DEF HistoryOK
<1>9. ChainOK'
  BY <1>2, <1>4, <1>5, SpawnedIsPredicted, CloseToItself DEF ChainOK, ChainOf
<1>10. PathOK'
  <2>1. PICK path : path = [s \in L .. L |-> Spawned]
    OBVIOUS
  <2>2. L \in L .. L /\ \A s \in L .. L : s = L
    BY <1>3
  <2>3. path \in [L .. L -> Predicted] /\ path[L] = Spawned
    BY <2>1, <2>2, SpawnedIsPredicted
  <2>4. began'.sequence = L /\ server'.taken = 0 /\ server'.player = Spawned /\ held'.sequence = 0
    BY <1>2, SpawnedIsPredicted
  <2>5. L + 1 .. L = {}
    BY <1>3
  <2>6. IsOwnPath(path)'
    BY <1>2, <2>3, <2>4, <2>5 DEF IsOwnPath
  <2>7. \A answer \in answers' \cup {held'} : ~(answer.sequence > L)
    BY <1>2, <1>3, <1>7, <2>4
  <2>8. OnPath(path)'
    BY <1>2, <1>4, <1>5, <2>3, <2>4, <2>7 DEF OnPath
  <2>9. QED
    BY <2>6, <2>8 DEF PathOK
<1>11. TotalsOK'
  <2>1. began'.totals = predicting.totals /\ walked' = 0 /\ tally' = tally
    BY <1>2
  <2>2. predicting.totals.correction \in Int
    BY <1>4 DEF Totals
  <2>3. predicting'.player.body = walked' + predicting'.totals.correction - began'.totals.correction
    BY <1>4, <2>1, <2>2, SpawnedIsPredicted
  <2>4. QED
    BY <1>1, <1>4, <2>1, <2>3 DEF TotalsOK, TotalsExplain
<1>12. QED
  BY <1>6, <1>8, <1>9, <1>10, <1>11 DEF PredictionIInv

LEMMA HearStep ==
  ASSUME PredictionIInv, NEW answer \in answers, Hear(answer)
  PROVE  PredictionIInv'
<1>1. PredictionTypeOK /\ HistoryOK /\ ChainOK /\ PathOK /\ TotalsOK
  BY DEF PredictionIInv
<1>2. /\ held' = answer
      /\ UNCHANGED <<predicting, history, issued, server, answers, tally, starts, began, basis, walked, apart>>
  BY DEF Hear
<1>3. PredictionTypeOK'
  BY <1>1, <1>2 DEF PredictionTypeOK
<1>4. HistoryOK'
  BY <1>1, <1>2 DEF HistoryOK, HistoryOf
<1>5. ChainOK'
  BY <1>1, <1>2 DEF ChainOK, ChainOf
<1>6. PathOK'
  <2>1. PICK path : IsOwnPath(path) /\ (~apart => OnPath(path))
    BY <1>1 DEF PathOK
  <2>2. IsOwnPath(path)'
    BY <1>2, <2>1 DEF IsOwnPath
  <2>3. ~apart' => OnPath(path)'
    BY <1>2, <2>1 DEF OnPath
  <2>4. QED
    BY <2>2, <2>3 DEF PathOK
<1>7. TotalsOK'
  BY <1>1, <1>2 DEF TotalsOK, TotalsExplain
<1>8. QED
  BY <1>3, <1>4, <1>5, <1>6, <1>7 DEF PredictionIInv

LEMMA AnswerStep ==
  ASSUME PredictionIInv, AnswerTick
  PROVE  PredictionIInv'
<1>. DEFINE L == Len(issued)
            current == IF server.taken = 0 THEN began.sequence ELSE server.taken
            answer == [tick |-> Cardinality(answers) + 1, sequence |-> server'.taken, player |-> server'.player]
<1>1. PredictionTypeOK /\ HistoryOK /\ ChainOK /\ PathOK /\ TotalsOK
  BY DEF PredictionIInv
<1>2. /\ Cardinality(answers) < MaxAnswers
      /\ answers' = answers \cup {answer}
      /\ UNCHANGED <<predicting, history, issued, held, tally, starts, began, basis, walked>>
  BY DEF AnswerTick
<1>3. /\ L \in Nat /\ L <= LastSequence /\ issued \in Seq(Commands) /\ \A s \in 1 .. L : issued[s] \in Commands
      /\ server.player \in Predicted /\ server.taken \in 0 .. LastSequence /\ server.last \in Commands
      /\ began.sequence \in 0 .. LastSequence /\ apart \in BOOLEAN
      /\ server \in [player : Predicted, taken : SequenceNumbers, last : Commands]
  BY <1>1 DEF PredictionTypeOK, SequenceNumbers
<1>4. server.taken <= L /\ began.sequence <= L
  <2>1. Len(history) \in Nat /\ Len(history) + began.sequence <= L
    BY <1>1 DEF PredictionTypeOK, HistoryOK, HistoryOf
  <2>2. QED
    BY <1>1, <1>3, <2>1 DEF HistoryOK
<1>5. PICK path : IsOwnPath(path) /\ (~apart => OnPath(path))
  BY <1>1 DEF PathOK
<1>6. /\ path \in [began.sequence .. L -> Predicted]
      /\ \A s \in began.sequence + 1 .. L : path[s] = StepPlayer(path[s - 1], issued[s])
  BY <1>5 DEF IsOwnPath
<1>7. ~apart => /\ server.taken = 0 \/ server.taken > began.sequence
                /\ server.player = path[current]
                /\ \A one \in answers \cup {held} : one.sequence > began.sequence => one.player = path[one.sequence]
  BY <1>5 DEF OnPath
<1>. DEFINE Leads == /\ server' \in [player : Predicted, taken : SequenceNumbers, last : Commands]
                     /\ server'.taken <= L /\ apart' \in BOOLEAN
                     /\ ~apart' => /\ ~apart
                                   /\ server'.taken = 0 \/ server'.taken > began.sequence
                                   /\ server'.player = path[IF server'.taken = 0 THEN began.sequence ELSE server'.taken]
<1>. HIDE DEF L
<1>8. Leads
  <2>1. CASE \E s \in server.taken + 1 .. L :
               /\ server' = [player |-> StepPlayer(server.player, issued[s]), taken |-> s, last |-> issued[s]]
               /\ apart' = (apart \/ s # current + 1)
    <3>1. PICK s \in server.taken + 1 .. L :
               /\ server' = [player |-> StepPlayer(server.player, issued[s]), taken |-> s, last |-> issued[s]]
               /\ apart' = (apart \/ s # current + 1)
      BY <2>1
    <3>2. s \in 1 .. L /\ s \in SequenceNumbers /\ s # 0 /\ s <= L
      BY <1>3, PredictionConstants DEF SequenceNumbers
    <3>3. issued[s] \in Commands /\ StepPlayer(server.player, issued[s]) \in Predicted
      BY <1>3, <3>2, StepIsPredicted
    <3>4. server' \in [player : Predicted, taken : SequenceNumbers, last : Commands] /\ server'.taken <= L
      BY <3>1, <3>2, <3>3
    <3>5. apart' \in BOOLEAN
      BY <3>1
    <3>6. ASSUME ~apart'
          PROVE  /\ ~apart /\ server'.taken > began.sequence /\ server'.taken # 0
                 /\ server'.player = path[server'.taken]
      <4>1. ~apart /\ s = current + 1
        BY <3>1, <3>6
      <4>2. current \in Nat /\ current >= began.sequence
        BY <1>3, <1>7, <4>1
      <4>3. s \in began.sequence + 1 .. L /\ s - 1 = current /\ s > began.sequence
        <5>. HIDE DEF current
        <5>1. QED
          BY <1>3, <3>2, <4>1, <4>2
      <4>4. path[s] = StepPlayer(server.player, issued[s])
        <5>. HIDE DEF current
        <5>1. QED
          BY <1>6, <1>7, <4>1, <4>3
      <4>5. QED
        BY <3>1, <3>2, <4>1, <4>3, <4>4
    <3>7. QED
      BY <3>4, <3>5, <3>6
  <2>2. CASE /\ server' = [server EXCEPT !.player = StepPlayer(@, [server.last EXCEPT !.fire = FALSE])]
             /\ apart' = (apart \/ server.last.move > 0)
    <3>. DEFINE again == [server.last EXCEPT !.fire = FALSE]
    <3>1. again \in Commands /\ again.fire = FALSE /\ again.move = server.last.move /\ server.last.move \in {0, 1}
      BY <1>3 DEF Commands
    <3>. HIDE DEF again
    <3>2. /\ server' \in [player : Predicted, taken : SequenceNumbers, last : Commands]
          /\ server'.player = StepPlayer(server.player, again) /\ server'.taken = server.taken
      <4>1. StepPlayer(server.player, again) \in Predicted
        BY <1>3, <3>1, StepIsPredicted
      <4>2. server' = [server EXCEPT !.player = StepPlayer(server.player, again)]
        BY <2>2 DEF again
      <4>3. QED
        BY <1>3, <4>1, <4>2
    <3>3. apart' \in BOOLEAN
      BY <2>2
    <3>4. ASSUME ~apart' PROVE ~apart /\ server'.player = path[current]
      <4>1. ~apart /\ ~(server.last.move > 0)
        BY <2>2, <3>4
      <4>2. again.move = 0
        BY <3>1, <4>1
      <4>3. StepPlayer(server.player, again) = server.player
        <5>1. /\ server.player.body \in 0 .. Wall
              /\ server.player = [body |-> server.player.body, rifle |-> server.player.rifle]
          BY <1>3 DEF Predicted
        <5>2. Move(server.player.body, again) = server.player.body
          BY <4>2, <5>1, PredictionConstants DEF Move
        <5>3. ~Fires(server.player.rifle, again)
          BY <3>1 DEF Fires
        <5>4. QED
          BY <5>1, <5>2, <5>3 DEF StepPlayer
      <4>4. QED
        BY <1>7, <3>2, <4>1, <4>3
    <3>5. QED
      BY <1>4, <1>7, <3>2, <3>3, <3>4
  <2>3. QED
    BY <2>1, <2>2 DEF AnswerTick, L
<1>9. /\ answer \in Acknowledgements /\ answer.sequence = server'.taken /\ answer.player = server'.player
      /\ IsFiniteSet(answers') /\ Cardinality(answers') <= MaxAnswers
  <2>1. IsFiniteSet(answers) /\ Cardinality(answers) \in Nat
    BY <1>1, FS_CardinalityType DEF PredictionTypeOK
  <2>2. Cardinality(answers) + 1 \in 0 .. MaxAnswers
    BY <1>2, <2>1, PredictionConstants
  <2>3. answer \in Acknowledgements
    BY <1>8, <2>2 DEF Acknowledgements, SequenceNumbers
  <2>4. /\ IsFiniteSet(answers')
        /\ Cardinality(answers') = Cardinality(answers) \/ Cardinality(answers') = Cardinality(answers) + 1
    <3>. HIDE DEF answer
    <3>1. QED
      BY <1>2, <2>1, FS_AddElement
  <2>5. QED
    BY <1>2, <2>1, <2>3, <2>4, PredictionConstants
<1>. HIDE DEF answer
<1>10. PredictionTypeOK'
  <2>1. answers' \in SUBSET Acknowledgements
    BY <1>1, <1>2, <1>9 DEF PredictionTypeOK
  <2>2. QED
    BY <1>1, <1>2, <1>8, <1>9, <2>1 DEF PredictionTypeOK
<1>11. HistoryOK'
  <2>1. HistoryOf(history, basis)'
    BY <1>1, <1>2 DEF HistoryOK, HistoryOf
  <2>2. QED
    BY <1>1, <1>2, <1>8, <1>9, <2>1 DEF HistoryOK, L
<1>12. ChainOK'
  BY <1>1, <1>2 DEF ChainOK, ChainOf
<1>13. PathOK'
  <2>1. IsOwnPath(path)'
    BY <1>2, <1>5 DEF IsOwnPath
  <2>2. ASSUME ~apart' PROVE OnPath(path)'
    <3>1. ~apart /\ OnPath(path)
      BY <1>5, <1>8, <2>2
    <3>2. answer.sequence > began.sequence => answer.player = path[answer.sequence]
      <4>1. answer.sequence > began.sequence => server'.taken # 0
        BY <1>3, <1>9
      <4>2. QED
        BY <1>8, <1>9, <2>2, <4>1
    <3>3. \A one \in answers' \cup {held'} : one.sequence > began'.sequence => one.player = path[one.sequence]
      BY <1>2, <1>7, <3>1, <3>2
    <3>4. predicting' = predicting /\ issued' = issued /\ history' = history /\ began' = began
      BY <1>2
    <3>5. QED
      BY <1>8, <2>2, <3>1, <3>3, <3>4 DEF OnPath
  <2>3. QED
    BY <2>1, <2>2 DEF PathOK
<1>14. TotalsOK'
  BY <1>1, <1>2, <1>8 DEF TotalsOK, TotalsExplain
<1>15. QED
  BY <1>10, <1>11, <1>12, <1>13, <1>14 DEF PredictionIInv

LEMMA PredictionStep ==
  ASSUME PredictionIInv, [PredictionNext]_predictionVars
  PROVE  PredictionIInv'
<1>1. CASE UNCHANGED predictionVars
  BY <1>1, NothingDone
<1>2. CASE PredictionNext
  BY <1>2, TickStep, NoTickChangesNoTally, StartStep, AnswerStep, HearStep DEF PredictionNext
<1>3. QED
  BY <1>1, <1>2

(***************************************************************************)
(* THEOREM.  What a client predicts of its own player is the server's last *)
(* answer acted on carried forward by the commands sent since, within the  *)
(* tolerance; its corrections explain where it is, the tallies count each  *)
(* of them, and a player predicted right is never corrected, whatever of   *)
(* the server's answers is lost, repeated or late (PredictionWorld's Tick  *)
(* and OnReconciliation).                                                  *)
(***************************************************************************)
THEOREM PredictionInvariant == PredictionSpec => []PredictionInv
<1>1. PredictionInit => PredictionIInv
  BY PredictionStarts
<1>2. PredictionIInv /\ [PredictionNext]_predictionVars => PredictionIInv'
  BY PredictionStep
<1>3. PredictionIInv => PredictionInv
  BY IsCarriedForward DEF PredictionIInv, TotalsOK, PredictionInv
<1>4. QED
  BY <1>1, <1>2, <1>3, PTL DEF PredictionSpec

=============================================================================
