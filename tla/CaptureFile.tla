----------------------------- MODULE CaptureFile -----------------------------
(***************************************************************************)
(* A Match capture's file (capture.cpp): how its pieces are written, and   *)
(* how a file is read back and held to the format's order.                 *)
(*                                                                         *)
(* A byte is what it is a byte of and its value: of a number, a record's   *)
(* length or the format version, that number; of the magic or a record's   *)
(* payload, its place in it.  A payload decodes if all of it is there, as  *)
(* Wire has it.  Whoever writes a capture is held to no order; its file    *)
(* may be cut short anywhere, be of another format, or fail when it is     *)
(* read to its end.                                                        *)
(***************************************************************************)
EXTENDS Integers, Sequences

CONSTANTS
  Writable,         \* the records a writer may write after the header
  PayloadSize(_),   \* how many bytes a record's payload takes
  MaxFramePayload,  \* how many a frame holds at most
  MaxWritten        \* how many records are written at most

VARIABLES
  written,   \* the records of the capture written so far
  file,      \* the bytes of its file
  failing,   \* whether reading the file fails at its end
  readBack,  \* what ReadCapture made of it
  fileStage  \* "writing", "written" or "read"

fileVars == <<written, file, failing, readBack, fileStage>>

MagicSize == 2
FormatVersion == 4
Header == [kind |-> "header", offset |-> 0, players |-> <<>>, winner |-> 0]

FileAssumption ==
  /\ MaxFramePayload \in Nat \ {0} /\ MaxWritten \in Nat
  /\ \A record \in Writable \cup {Header} : PayloadSize(record) \in Nat \ {0}
  /\ PayloadSize(Header) <= MaxFramePayload /\ PayloadSize(Header) # FormatVersion

-----------------------------------------------------------------------------
(* Writing: a record is its length, then its payload.                      *)
NumberByte(n) == [of |-> [kind |-> "number"], value |-> n]
BytesOf(what, size) == [i \in 1..size |-> [of |-> what, value |-> i]]
Magic == BytesOf([kind |-> "magic"], MagicSize)

Framed(record) == <<NumberByte(PayloadSize(record))>> \o BytesOf(record, PayloadSize(record))
CaptureHeader(version) == Magic \o version \o Framed(Header)

-----------------------------------------------------------------------------
(* Reading.  What a file's bytes hold from a place on: a frame, the        *)
(* beginning of one, or no more.                                           *)
FrameAt(at) ==
  LET short == IF failing THEN "unreadable" ELSE IF at > Len(file) THEN "end" ELSE "torn"
  IN IF at > Len(file) \/ at + file[at].value > Len(file) THEN [is |-> short, at |-> at]
     ELSE [is |-> "read", at |-> at + file[at].value + 1,
           payload |-> SubSeq(file, at + 1, at + file[at].value)]

Decodes(payload) ==
  /\ payload # <<>>
  /\ payload[1].of \in Writable \cup {Header}
  /\ payload = BytesOf(payload[1].of, PayloadSize(payload[1].of))

(* Whether each record may follow those before it (RecordOrder).           *)
FreshOrder == [joins |-> 0, events |-> FALSE, last_offset |-> 0, ended |-> FALSE]
Known(order, player) == player >= 1 /\ player <= order.joins
\* Mutant: records after the Match end are admitted.
MutFollows(order, offset, players) ==
  offset >= order.last_offset /\ \A i \in DOMAIN players : Known(order, players[i])
Follows(order, offset, players) ==
  /\ ~order.ended /\ offset >= order.last_offset
  /\ \A i \in DOMAIN players : Known(order, players[i])
Admits(order, record) ==
  CASE record.kind = "header" -> FALSE
    [] record.kind = "join" ->
         ~order.events /\ record.offset = 0 /\ record.players = <<order.joins + 1>>
    [] record.kind = "end" ->
         (record.winner # 0 => Known(order, record.winner)) /\ Follows(order, record.offset, <<>>)
    [] OTHER -> Follows(order, record.offset, record.players)
OrderAfter(order, record) ==
  IF record.kind = "join" THEN [order EXCEPT !.joins = @ + 1]
  ELSE [order EXCEPT !.events = TRUE, !.last_offset = record.offset,
                     !.ended = record.kind = "end"]

Refuse(code) == [error |-> code, records |-> <<>>, torn |-> FALSE]

(* The records from a place on, in order; progress[n] is how reading them  *)
(* stands after at most n frames.                                          *)
ReadRecords(first) ==
  LET progress[n \in 0..Len(file) + 1] ==
        IF n = 0
        THEN [frame |-> FrameAt(first), order |-> FreshOrder, admits |-> TRUE, records |-> <<>>]
        ELSE LET was == progress[n - 1]
                 record == was.frame.payload[1].of
             IN IF ~was.admits \/ was.frame.is # "read" THEN was
                ELSE IF ~Decodes(was.frame.payload) \/ ~Admits(was.order, record)
                THEN [was EXCEPT !.admits = FALSE]
                ELSE [frame |-> FrameAt(was.frame.at), order |-> OrderAfter(was.order, record),
                      admits |-> TRUE, records |-> Append(was.records, record)]
      last == progress[Len(file) + 1]
  IN IF ~last.admits THEN Refuse("malformed")
     ELSE IF last.frame.is = "unreadable" THEN Refuse("unreadable")
     ELSE [error |-> "none", records |-> last.records, torn |-> last.frame.is = "torn"]

(* The magic, the format version, the header, then the records.            *)
ReadCapture ==
  LET header == FrameAt(MagicSize + 2)
      cut == IF failing THEN "unreadable" ELSE "unsupported"
  IN IF Len(file) < MagicSize /\ failing THEN Refuse("unreadable")
     ELSE IF Len(file) < MagicSize \/ SubSeq(file, 1, MagicSize) # Magic THEN Refuse("not a capture")
     ELSE IF Len(file) = MagicSize THEN Refuse(cut)
     ELSE IF file[MagicSize + 1].value # FormatVersion THEN Refuse("unsupported")
     ELSE IF header.is = "unreadable" THEN Refuse("unreadable")
     ELSE IF header.is # "read" \/ ~Decodes(header.payload) \/ header.payload[1].of # Header
     THEN Refuse("unsupported")
     ELSE ReadRecords(header.at)

-----------------------------------------------------------------------------
(* A capture of this format, of one whose version is another, and of one   *)
(* before there was any.                                                   *)
Versions == {<<NumberByte(FormatVersion)>>, <<NumberByte(FormatVersion - 1)>>, <<>>}
Unread == Refuse("unread")

CaptureFileInit ==
  /\ written = <<>> /\ failing = FALSE /\ readBack = Unread /\ fileStage = "writing"
  /\ file \in {CaptureHeader(version) : version \in Versions}

OfThisFormat ==
  Len(file) > MagicSize /\ file[MagicSize + 1] = NumberByte(FormatVersion)

LegalSoFar(records) ==
  \A n \in DOMAIN records :
    LET before == SubSeq(records, 1, n - 1)
        joins == {i \in 1..n - 1 : before[i].kind = "join"}
    IN IF records[n].kind = "join"
       THEN /\ joins = 1..n - 1
            /\ records[n].players = <<n>> /\ records[n].offset = 0
       ELSE /\ \A i \in 1..n - 1 \ joins :
                 before[i].kind # "end" /\ before[i].offset <= records[n].offset
            /\ \A i \in DOMAIN records[n].players : records[n].players[i] \in joins
            /\ records[n].winner \in joins \cup {0}
            /\ records[n].kind # "header"

(* A record is written, unless it is too long for a frame: then nothing of *)
(* it is, nor of what would follow.  Past the first that is out of order   *)
(* nothing more is told apart, so no more is written.                      *)
WriteRecord ==
  /\ fileStage = "writing" /\ Len(written) < MaxWritten /\ LegalSoFar(written)
  /\ \E record \in Writable :
       IF PayloadSize(record) <= MaxFramePayload
       THEN /\ written' = Append(written, record) /\ file' = file \o Framed(record)
            /\ UNCHANGED fileStage
       ELSE fileStage' = "written" /\ UNCHANGED <<written, file>>
  /\ UNCHANGED <<failing, readBack>>

(* The writer stops, its file complete or cut short.                       *)
StopWriting ==
  /\ fileStage = "writing"
  /\ \E size \in 0..Len(file), fails \in BOOLEAN :
       file' = SubSeq(file, 1, size) /\ failing' = fails
  /\ fileStage' = "written"
  /\ UNCHANGED <<written, readBack>>

ReadIt ==
  /\ fileStage = "written"
  /\ readBack' = ReadCapture
  /\ fileStage' = "read"
  /\ UNCHANGED <<written, file, failing>>

CaptureFileNext == WriteRecord \/ StopWriting \/ ReadIt

CaptureFileSpec == CaptureFileInit /\ [][CaptureFileNext]_fileVars

-----------------------------------------------------------------------------
(* Properties.                                                             *)

(* Wherever its writing stopped, a capture reads back as the records whose *)
(* last byte was written, torn exactly if the next one's first was, when   *)
(* they are in the format's order, and as malformed when they are not; a   *)
(* file that ends before its records is refused as what it lacks, and one  *)
(* that fails before its end is never a whole or torn capture              *)
(* (ReadCaptureFile, RecordOrder).                                         *)
EndOfHeader == MagicSize + 2 + PayloadSize(Header)
EndOfRecord(n) ==
  LET ends[k \in 0..n] ==
        IF k = 0 THEN EndOfHeader ELSE ends[k - 1] + 1 + PayloadSize(written[k])
  IN ends[n]
WholeRecords ==
  CHOOSE n \in 0..Len(written) :
    /\ EndOfRecord(n) <= Len(file)
    /\ n < Len(written) => EndOfRecord(n + 1) > Len(file)
ReadsWhatWasWritten ==
  fileStage = "read" =>
    IF Len(file) < MagicSize
    THEN readBack = Refuse(IF failing THEN "unreadable" ELSE "not a capture")
    ELSE IF Len(file) < EndOfHeader \/ ~OfThisFormat
    THEN readBack = Refuse(IF failing /\ (Len(file) = MagicSize \/ OfThisFormat)
                           THEN "unreadable" ELSE "unsupported")
    ELSE LET whole == SubSeq(written, 1, WholeRecords)
         IN readBack =
              IF ~LegalSoFar(whole) THEN Refuse("malformed")
              ELSE IF failing THEN Refuse("unreadable")
              ELSE [error |-> "none", records |-> whole, torn |-> Len(file) > EndOfRecord(WholeRecords)]
=============================================================================
