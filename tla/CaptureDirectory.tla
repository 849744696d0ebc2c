-------------------------- MODULE CaptureDirectory ---------------------------
(***************************************************************************)
(* How a server keeps its capture directory within a count and a size      *)
(* (capture_retention.cpp), as the capture writer's thread asks it to      *)
(* (capture_writer.cpp, whose own steps CaptureWriter has).                *)
(*                                                                         *)
(* A file is named by when its Match started, so the names' order is the   *)
(* Matches'.  It is a capture, or not one: its name is no capture's, it is *)
(* a link, or it does not start with the magic, as one whose first write   *)
(* failed.  Between any two steps the process may stop and start again, a  *)
(* deletion may fail, and whoever runs the server may remove files.        *)
(***************************************************************************)
EXTENDS Integers, Sequences, FiniteSets, Functions

CONSTANTS
  OldFiles,   \* the directories there may be before the server starts
  FileLimits, \* what max_files may be set to, NoLimit or a number
  ByteLimits, \* what max_bytes may be
  NoLimit,    \* none set
  HeaderBytes, RecordBytes,  \* what a header and a record take
  MaxBytes,   \* how large a capture grows
  LastCaptureMatch   \* the last Match's start

ASSUME DirectoryAssumption ==
  /\ FileLimits \subseteq (Nat \ {0}) \cup {NoLimit} /\ ByteLimits \subseteq Nat \cup {NoLimit}
  /\ NoLimit \notin Nat
  /\ {HeaderBytes, RecordBytes, MaxBytes, LastCaptureMatch} \subseteq Nat
  /\ \A old \in OldFiles :
       /\ IsFiniteSet(DOMAIN old) /\ old \in [DOMAIN old -> [size : Nat, capture : BOOLEAN]]
       /\ DOMAIN old \subseteq Int /\ \A name \in DOMAIN old : name <= 0

VARIABLES
  files,      \* the directory: each file's size, and whether it is a capture
  limits,     \* the server's CaptureRetention
  completed,  \* the completed captures not yet deleted, oldest first
  total,      \* the bytes they and the capture open hold, as counted
  current,    \* the Match being captured, by its start
  room,       \* what room is being made for: nothing, or bytes of a capture
  capturing,  \* "closed", "open", "refused" for want of room, or "stopped"
  deleted,    \* those deleted since the Match's start
  failedToDelete  \* those whose deletion failed since

directoryVars ==
  <<files, limits, completed, total, current, room, capturing, deleted, failedToDelete>>

NoRoom == [bytes |-> 0, opening |-> FALSE]
CapturesThere == {name \in DOMAIN files : files[name].capture}

SizesOf(names) == [name \in names |-> files[name].size]

DirectoryInit ==
  /\ files \in OldFiles
  /\ limits \in [files : FileLimits, bytes : ByteLimits]
  /\ completed = <<>> /\ total = 0 /\ current = 0 /\ room = NoRoom /\ capturing = "closed"
  /\ deleted = {} /\ failedToDelete = {}

-----------------------------------------------------------------------------
(* How many of the oldest are deleted before more is written, and whether  *)
(* it then fits: fewer than max_files left of those completed when one     *)
(* more opens, then as many as the bytes take.                             *)
LeftAfter(deletions) ==
  LET left[n \in 0..deletions] ==
        IF n = 0 THEN total
        ELSE left[n - 1] - (IF left[n - 1] < completed[n].size THEN left[n - 1] ELSE completed[n].size)
  IN left[deletions]
FitsAfter(deletions) == limits.bytes # NoLimit => LeftAfter(deletions) + room.bytes <= limits.bytes
\* Mutant: as many completed captures as max_files are left beside the one opening.
MutEnoughGone(deletions) ==
  (room.opening /\ limits.files # NoLimit) => Len(completed) - deletions <= limits.files
EnoughGone(deletions) ==
  (room.opening /\ limits.files # NoLimit) => Len(completed) - deletions < limits.files
Deletions ==
  LET enough == {n \in 0..Len(completed) : EnoughGone(n) /\ FitsAfter(n)}
  IN IF enough = {} THEN Len(completed) ELSE CHOOSE n \in enough : \A m \in enough : n <= m

(* The directory's captures but the one to be written, oldest first.       *)
Scan(name) ==
  LET found == CapturesThere \ {name}
      Oldest(n) == CHOOSE f \in found : Cardinality({g \in found : g < f}) = n - 1
  IN [n \in 1..Cardinality(found) |-> [name |-> Oldest(n), size |-> files[Oldest(n)].size]]

(* A Match starts: the directory is scanned, and room made for its header. *)
OpenDirectory ==
  /\ capturing # "open" /\ room = NoRoom /\ current < LastCaptureMatch
  /\ current' = current + 1
  /\ completed' = Scan(current + 1)
  /\ total' = SumFunction(SizesOf(CapturesThere \ {current + 1}))
  /\ room' = [bytes |-> HeaderBytes, opening |-> TRUE]
  /\ capturing' = "open" /\ deleted' = {} /\ failedToDelete' = {}
  /\ UNCHANGED <<files, limits>>

(* A record comes to be written.                                           *)
Reserve ==
  /\ capturing = "open" /\ room = NoRoom /\ files[current].size < MaxBytes
  /\ room' = [bytes |-> RecordBytes, opening |-> FALSE]
  /\ UNCHANGED <<files, limits, completed, total, current, capturing, deleted, failedToDelete>>

(* The oldest is deleted, or could not be; either way it is counted no     *)
(* more.  One that is gone already was deleted.                            *)
DeleteOldest ==
  /\ room # NoRoom /\ Deletions > 0
  /\ total' = total - (IF total < completed[1].size THEN total ELSE completed[1].size)
  /\ completed' = Tail(completed)
  /\ LET oldest == completed[1].name
     IN \/ /\ files' = [name \in DOMAIN files \ {oldest} |-> files[name]]
           /\ deleted' = deleted \cup {oldest}
           /\ UNCHANGED failedToDelete
        \/ /\ oldest \in DOMAIN files
           /\ failedToDelete' = failedToDelete \cup {oldest}
           /\ UNCHANGED <<files, deleted>>
  /\ UNCHANGED <<limits, current, room, capturing>>

(* It fits: the file is created if it opens, and the bytes are written to  *)
(* it, as far as the disk lets them.                                       *)
WriteWhatFits ==
  /\ room # NoRoom /\ Deletions = 0 /\ FitsAfter(0)
  /\ total' = total + room.bytes
  /\ LET before == IF room.opening THEN 0 ELSE files[current].size
     IN \E reached \in 0..room.bytes :
          /\ files' = [name \in DOMAIN files \cup {current} |->
                        IF name = current
                        THEN [size |-> before + reached, capture |-> before + reached > 0]
                        ELSE files[name]]
          /\ capturing' = IF reached = room.bytes THEN "open" ELSE "stopped"
  /\ room' = NoRoom
  /\ UNCHANGED <<limits, completed, current, deleted, failedToDelete>>

CannotCreate ==
  /\ room # NoRoom /\ Deletions = 0 /\ FitsAfter(0) /\ room.opening
  /\ total' = total + room.bytes /\ capturing' = "stopped" /\ room' = NoRoom
  /\ UNCHANGED <<files, limits, completed, current, deleted, failedToDelete>>

(* It does not even with none left: the Match is captured no further.      *)
NoneFits ==
  /\ room # NoRoom /\ Deletions = 0 /\ ~FitsAfter(0)
  /\ capturing' = "refused"
  /\ UNCHANGED <<files, limits, completed, total, current, room, deleted, failedToDelete>>

CloseMatch ==
  /\ capturing \in {"open", "refused", "stopped"} /\ (capturing = "open" => room = NoRoom)
  /\ capturing' = "closed" /\ room' = NoRoom
  /\ UNCHANGED <<files, limits, completed, total, current, deleted, failedToDelete>>

(* The process stops, and another takes over the directory.                *)
RestartServer ==
  /\ current > 0
  /\ completed' = <<>> /\ total' = 0 /\ room' = NoRoom /\ capturing' = "closed"
  /\ deleted' = {} /\ failedToDelete' = {}
  /\ UNCHANGED <<files, limits, current>>

OperatorRemoves ==
  /\ \E name \in CapturesThere \ {current} :
       files' = [other \in DOMAIN files \ {name} |-> files[other]]
  /\ UNCHANGED <<limits, completed, total, current, room, capturing, deleted, failedToDelete>>

DirectoryNext ==
  \/ OpenDirectory \/ Reserve \/ DeleteOldest \/ WriteWhatFits \/ CannotCreate \/ NoneFits
  \/ CloseMatch \/ RestartServer \/ OperatorRemoves

DirectorySpec == DirectoryInit /\ [][DirectoryNext]_directoryVars

-----------------------------------------------------------------------------
(* Properties.                                                             *)

(* While a capture is open and no room is being made, the directory holds  *)
(* no more captures and no more bytes of them than the limits, but for     *)
(* those that could not be deleted since its Match started (PlanRetention, *)
(* CaptureDirectory::MakeRoom).                                            *)
WithinLimits ==
  LET counted == CapturesThere \ failedToDelete
  IN (capturing = "open" /\ room = NoRoom) =>
       /\ limits.files # NoLimit => Cardinality(counted) <= limits.files
       /\ limits.bytes # NoLimit => SumFunction(SizesOf(counted)) <= limits.bytes

(* A capture older than one deleted is left only if it could not be        *)
(* deleted, and the one being written never is (CaptureDirectory::Scan,    *)
(* DeleteOldest).                                                          *)
OldestGoFirst ==
  /\ \A gone \in deleted, left \in CapturesThere : left < gone => left \in failedToDelete
  /\ current \notin deleted

(* A capture is refused room only when it alone takes more than the bytes  *)
(* allowed, and none that could be deleted is left: a deletion that fails  *)
(* never stops a capture (capture_retention.h).                            *)
RefusedForItsOwnSize ==
  capturing = "refused" =>
    /\ room.bytes + (IF room.opening THEN 0 ELSE files[current].size) > limits.bytes
    /\ CapturesThere \ failedToDelete \subseteq {current}

(* The directory's invariant: all of the above.                            *)
RetentionInv == WithinLimits /\ OldestGoFirst /\ RefusedForItsOwnSize
=============================================================================
