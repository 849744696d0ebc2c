-------------------------------- MODULE Pack --------------------------------
(***************************************************************************)
(* The pack around the blobs: how the cooker assembles, signs and writes   *)
(* one over the pack that is there (pack_writer.cpp), and how a process    *)
(* that may run meanwhile maps, verifies and reads it (pack_reader.cpp).   *)
(*                                                                         *)
(* A file is its size, the bytes before its trailer and the trailer.  A    *)
(* hash is what was hashed, a signature the hash and the key that signed   *)
(* it: neither matches by chance.  Where a file is too short to hold what  *)
(* a pack must, its bytes are left out; where its trailer should be but is *)
(* not, it has none.  The limits and the sizes of a hash and a signature   *)
(* are constants.                                                          *)
(***************************************************************************)
EXTENDS Blobs

CONSTANTS
  Packs,          \* what the cooker may be asked to write: [entries, client_pack, key] records
  Keys,           \* the keys packs are signed with and verified against
  HashSize, SignatureSize, MaxEntries, MaxPackSize,
  MaxDamages,     \* how often a file is damaged at most
  MaxCooks       \* how many packs are written at most

VARIABLES
  at,          \* the file at output_path
  tmp,         \* the one at the temporary path
  writer,      \* where WritePack is: [stage, of]
  returned,    \* what the last WritePack returned
  cooks,       \* how many have ended
  installed,   \* the packs renamed into place, in order
  damages,     \* how often the file has been damaged since
  lostAtClose, \* whether closing the last file renamed lost its end
  load         \* the one LoadVerifiedPack or ReadPackLayout: [stage, by, key, got, file]

packVars == <<at, tmp, writer, returned, cooks, installed, damages, lostAtClose, load>>

AssetTypes == <<"mesh", "texture", "audio", "collision", "spawn point", "hitbox", "scene",
  "script", "characters", "eye", "cue sound", "skeleton", "animation skeleton", "clip",
  "stance transitions", "rifle", "weapon socket">>
TypeNumber(type) == (CHOOSE i \in DOMAIN AssetTypes : AssetTypes[i] = type) - 1

PackMagic == <<65, 85, 71, 80>>
PackVersion == 7
HeaderSize == Len(PackMagic) + 4 + 8 + 8 + 4 + 1 + HashSize
TrailerSize == HashSize + SignatureSize
NoHash == [i \in 1..HashSize |-> 0]

NoFile == [size |-> -1, bytes |-> <<>>, trailer |-> [hash |-> <<>>, key |-> "none"]]
NoTrailer == NoFile.trailer

-----------------------------------------------------------------------------
(* WritePack: the entries are validated, laid out and signed.              *)
U64(n) == Word(n) \o Word(0)

TooManyOrTooLong(entries) ==
  Len(entries) > MaxEntries \/ \E e \in ToSet(entries) : IsTooLong(e.path)
SharesAPath(list) == \E i, j \in DOMAIN list : i # j /\ list[i].path = list[j].path

OffsetOf(entries, n) == HeaderSize + Len(Each(SubSeq(entries, 1, n - 1), LAMBDA e : e.data))
DataSection(entries) == Each(entries, LAMBDA e : e.data)
IndexSection(entries) ==
  FlattenSeq([n \in DOMAIN entries |->
    <<TypeNumber(entries[n].type)>> \o Str(entries[n].path) \o U64(OffsetOf(entries, n))
    \o U64(Len(entries[n].data))])
HeaderSection(pack) ==
  PackMagic \o Word(PackVersion) \o U64(HeaderSize)
  \o U64(OffsetOf(pack.entries, Len(pack.entries) + 1)) \o Word(Len(pack.entries))
  \o <<IF pack.client_pack = <<>> THEN 0 ELSE 1>>
  \o (IF pack.client_pack = <<>> THEN NoHash ELSE pack.client_pack)
Sections(pack) == HeaderSection(pack) \o DataSection(pack.entries) \o IndexSection(pack.entries)

WriteRefusal(pack) ==
  IF TooManyOrTooLong(pack.entries) THEN "too large"
  ELSE IF SharesAPath(pack.entries) THEN "duplicate path"
  ELSE IF Len(Sections(pack)) + TrailerSize > MaxPackSize THEN "too large" ELSE "none"

HashContent(bytes) == bytes
SignPack(pack) ==
  LET bytes == Sections(pack)
  IN [size |-> Len(bytes) + TrailerSize, bytes |-> bytes,
      trailer |-> [hash |-> HashContent(bytes), key |-> pack.key]]

(* What a file of another size is: its beginning, or it and more.          *)
Resized(file, size) ==
  IF size < HeaderSize + TrailerSize THEN [NoFile EXCEPT !.size = size]
  ELSE [size |-> size, trailer |-> NoTrailer,
        bytes |-> [i \in 1..(size - TrailerSize) |->
                     IF i \in DOMAIN file.bytes THEN file.bytes[i] ELSE 0]]

-----------------------------------------------------------------------------
(* Reading one.  u64s above what any size here can be read negative.       *)
ReadU64(left) ==
  Shaped(Reads(left, 2, LAMBDA i, l : ReadU32(l)),
         LAMBDA words : IF words[2] = 0 THEN words[1] ELSE -1)

RefusePack(code) == [error |-> code]

ClientPackOf(flags, hash) == IF flags = 1 THEN hash ELSE <<>>

(* ParsePackHeader, its checks in order; hashed is the size before the     *)
(* trailer.  A file large enough to hold a pack has the whole of a header. *)
ReadHeaderField(field, left) ==
  CASE field = "magic" -> ReadBytes(left, Len(PackMagic))
    [] field \in {"version", "index_count"} -> ReadU32(left)
    [] field \in {"data_offset", "index_offset"} -> ReadU64(left)
    [] field = "flags" -> ReadU8(left)
    [] field = "hash" -> ReadBytes(left, HashSize)
HeaderFields ==
  <<"magic", "version", "data_offset", "index_offset", "index_count", "flags", "hash">>
ReadHeader(bytes) ==
  Shaped(Reads(bytes, Len(HeaderFields), LAMBDA i, l : ReadHeaderField(HeaderFields[i], l)),
         LAMBDA v : [magic |-> v[1], version |-> v[2], data_offset |-> v[3],
                     index_offset |-> v[4], index_count |-> v[5], flags |-> v[6], hash |-> v[7]])
CheckedHeader(header, hashed) ==
  IF header.magic # PackMagic THEN RefusePack("bad magic")
  ELSE IF header.version # PackVersion THEN RefusePack("unsupported version")
  ELSE IF \/ header.data_offset # HeaderSize
          \/ header.index_offset \notin HeaderSize..hashed
          \/ header.index_count \notin 0..MaxEntries
          \/ header.flags \notin {0, 1} \/ (header.flags = 0 /\ header.hash # NoHash)
  THEN RefusePack("truncated")
  ELSE [error |-> "none", index_offset |-> header.index_offset,
        index_count |-> header.index_count,
        client_pack |-> ClientPackOf(header.flags, header.hash)]
ParsePackHeader(bytes, hashed) == CheckedHeader(ReadHeader(bytes).value, hashed)

\* Mutant: an entry's blob is held to the file, not to the data section.
MutEntryFits(offset, size, limit) == offset >= HeaderSize /\ size \in 0..(limit + TrailerSize)
EntryFits(offset, size, limit) ==
  offset \in HeaderSize..limit /\ size \in 0..(limit - offset)

(* The index's entries one after the other, up to the first it refuses.    *)
EntryAdded(before, type, path, range, limit) ==
  IF before.error # "none" THEN before
  ELSE IF ~type.ok \/ type.value + 1 \notin DOMAIN AssetTypes
  THEN [before EXCEPT !.error = "invalid index"]
  ELSE IF ~path.ok \/ ~range.ok \/ ~EntryFits(range.value[1], range.value[2], limit)
  THEN [before EXCEPT !.error = "truncated"]
  ELSE IF \E e \in ToSet(before.entries) : e.path = path.value
  THEN [before EXCEPT !.error = "invalid index"]
  ELSE [error |-> "none", left |-> range.left,
        entries |-> Append(before.entries,
          [type |-> AssetTypes[type.value + 1], path |-> path.value,
           offset |-> range.value[1], size |-> range.value[2]])]
EntryWith(before, type, path, limit) ==
  EntryAdded(before, type, path, Reads(path.left, 2, LAMBDA i, l : ReadU64(l)), limit)
EntryAfter(before, type, limit) == EntryWith(before, type, ReadString(type.left), limit)
ParsePackIndex(bytes, limit, count) ==
  LET parsed[n \in 0..count] ==
        IF n = 0 THEN [error |-> "none", entries |-> <<>>, left |-> bytes]
        ELSE EntryAfter(parsed[n - 1], ReadU8(parsed[n - 1].left), limit)
  IN parsed[count]

(* The size of the file at the path, then of what was mapped of it.        *)
SizeRefusal(file) ==
  IF file = NoFile THEN "io error"
  ELSE IF file.size \in (HeaderSize + TrailerSize)..MaxPackSize THEN "none" ELSE "truncated"

OpenPack(file) ==
  IF SizeRefusal(file) # "none" THEN RefusePack(SizeRefusal(file))
  ELSE ParsePackHeader(SubSeq(file.bytes, 1, HeaderSize), file.size - TrailerSize)

Indexed(index, header) ==
  IF index.error # "none" THEN RefusePack(index.error)
  ELSE [error |-> "none", entries |-> index.entries, client_pack |-> header.client_pack]
ParsePackIndexOf(file, header) ==
  Indexed(ParsePackIndex(SubSeq(file.bytes, header.index_offset + 1, Len(file.bytes)),
                        header.index_offset, header.index_count), header)

(* ReadPackLayout verifies nothing; Pack::Load checks the hash, then the   *)
(* signature, before it looks at the index.                                *)
Untrusted(file, key) ==
  IF file.trailer.hash # HashContent(file.bytes) THEN "hash mismatch"
  ELSE IF file.trailer.key # key THEN "signature invalid" ELSE "none"
ReadAfter(header, refusal, file) ==
  IF header.error # "none" THEN header
  ELSE IF refusal # "none" THEN RefusePack(refusal) ELSE ParsePackIndexOf(file, header)
ReadPackLayout(file) == ReadAfter(OpenPack(file), "none", file)
Load(file, key) == ReadAfter(OpenPack(file), Untrusted(file, key), file)

BlobBytes(file, entry) == SubSeq(file.bytes, entry.offset + 1, entry.offset + entry.size)

-----------------------------------------------------------------------------
(* Resolving an asset of a pack that is read, and every hitbox of a        *)
(* character, in path order.                                               *)
FindIndexEntry(entries, path, type) ==
  LET found == SelectSeq(entries, LAMBDA e : e.path = path)
  IN IF found = <<>> THEN RefusePack("not found")
     ELSE IF found[1].type # type THEN RefusePack("type mismatch")
     ELSE [error |-> "none", entry |-> found[1]]

Decoded(read) == IF read.ok THEN [error |-> "none", asset |-> read.value] ELSE RefusePack("corrupt")
DecodedOf(found, file, type) ==
  IF found.error # "none" THEN found ELSE Decoded(Decode(type, BlobBytes(file, found.entry)))
Resolve(file, entries, path, type) ==
  DecodedOf(FindIndexEntry(entries, path, type), file, type)

(* Bytes in the order std::string compares them.                           *)
IsBefore(s, t) ==
  \/ IsStrictPrefix(s, t)
  \/ \E i \in DOMAIN s \cap DOMAIN t :
       SubSeq(s, 1, i - 1) = SubSeq(t, 1, i - 1) /\ s[i] < t[i]

AllDecoded(read) ==
  IF \E i \in DOMAIN read : ~read[i].ok THEN RefusePack("corrupt")
  ELSE [error |-> "none", hitboxes |-> [i \in DOMAIN read |-> read[i].value]]
ResolveHitboxes(file, entries, character) ==
  LET own == SelectSeq(entries, LAMBDA e : e.type = "hitbox" /\ IsPrefix(Append(character, 47), e.path))
      sorted == SortSeq(own, LAMBDA e, f : IsBefore(e.path, f.path))
  IN AllDecoded([i \in DOMAIN sorted |-> DecodeHitbox(BlobBytes(file, sorted[i]))])

-----------------------------------------------------------------------------
Idle == [stage |-> "idle", lost |-> FALSE]
NotLoaded == [stage |-> "none", by |-> "nobody", key |-> "none", file |-> NoFile,
              got |-> RefusePack("not loaded")]

PackInit ==
  /\ at = NoFile /\ tmp = NoFile
  /\ writer = Idle
  /\ returned = "nothing" /\ cooks = 0 /\ installed = <<>>
  /\ damages = 0 /\ lostAtClose = FALSE
  /\ load = NotLoaded

Returns(outcome) ==
  /\ writer' = Idle
  /\ returned' = outcome
  /\ cooks' = cooks + 1

(* WritePack refuses its entries, or opens the temporary file, which       *)
(* empties one an earlier cook left.  To bound the model, no cook starts   *)
(* over a file damaged or loaded.                                          *)
StartWrite(pack) ==
  /\ writer = Idle /\ cooks < MaxCooks
  /\ damages = 0 /\ load.stage # "done"
  /\ IF WriteRefusal(pack) # "none"
     THEN Returns(WriteRefusal(pack)) /\ UNCHANGED tmp
     ELSE \/ Returns("io error") /\ UNCHANGED tmp
          \/ /\ writer' = [stage |-> "opened", lost |-> FALSE, of |-> pack]
             /\ tmp' = [NoFile EXCEPT !.size = 0]
             /\ UNCHANGED <<returned, cooks>>
  /\ UNCHANGED <<at, installed, damages, lostAtClose, load>>

(* The five writes: one fails to be flushed, which is seen, or the stream  *)
(* has taken them all, however much of them it has flushed.                *)
SectionEnds(pack) ==
  LET data == HeaderSize + Len(DataSection(pack.entries))
      index == data + Len(IndexSection(pack.entries))
  IN {0, HeaderSize, data, index, index + HashSize, index + TrailerSize}

WriteSections ==
  /\ writer.stage = "opened"
  /\ \/ Returns("io error") /\ tmp' = NoFile
     \/ /\ \E size \in SectionEnds(writer.of) :
            tmp' = IF size = SignPack(writer.of).size THEN SignPack(writer.of)
                   ELSE Resized(SignPack(writer.of), size)
        /\ writer' = [writer EXCEPT !.stage = "written"]
        /\ UNCHANGED <<returned, cooks>>
  /\ UNCHANGED <<at, installed, damages, lostAtClose, load>>

(* The stream's destructor flushes what is left; nobody asks whether it    *)
(* could.                                                                  *)
CloseFile ==
  /\ writer.stage = "written"
  /\ tmp' \in {tmp, SignPack(writer.of)}
  /\ writer' = [writer EXCEPT !.stage = "closed", !.lost = tmp' # SignPack(writer.of)]
  /\ UNCHANGED <<at, returned, cooks, installed, damages, lostAtClose, load>>

RenameFile ==
  /\ writer.stage = "closed"
  /\ tmp' = NoFile
  /\ \/ Returns("io error") /\ UNCHANGED <<at, installed, damages, lostAtClose>>
     \/ /\ at' = tmp
        /\ installed' = Append(installed, writer.of)
        /\ lostAtClose' = writer.lost
        /\ damages' = 0
        /\ writer' = [writer EXCEPT !.stage = "renamed"]
        /\ UNCHANGED <<returned, cooks>>
  /\ UNCHANGED load

ReturnHash ==
  /\ writer.stage = "renamed"
  /\ Returns("written")
  /\ UNCHANGED <<at, tmp, installed, damages, lostAtClose, load>>

(* The cooker is killed; what it had written to the temporary file stays.  *)
CookerDies ==
  /\ writer # Idle
  /\ Returns("died")
  /\ UNCHANGED <<at, tmp, installed, damages, lostAtClose, load>>

(* The file at output_path is damaged: cut short, added to, or a byte of   *)
(* it changed; to bound the model, if it was whole, when no cook is        *)
(* writing or has left a temporary file, and before it is loaded.          *)
DamageFile ==
  /\ at # NoFile /\ damages < MaxDamages /\ ~lostAtClose
  /\ writer = Idle /\ tmp = NoFile /\ load = NotLoaded
  /\ \/ \E size \in 0..(at.size + 1) : size # at.size /\ at' = Resized(at, size)
     \/ \E i \in DOMAIN at.bytes : \E byte \in {255, at.bytes[i] + 1} :
          byte # at.bytes[i] /\ at' = [at EXCEPT !.bytes[i] = byte % 256]
     \/ at' = [at EXCEPT !.trailer.hash = <<>>]
     \/ at' = [at EXCEPT !.trailer.key = "none"]
  /\ damages' = damages + 1
  /\ UNCHANGED <<tmp, writer, returned, cooks, installed, lostAtClose, load>>

(* A process loads the pack under the key it trusts, which it may not be   *)
(* able to read, or a tool shows what it holds.  Either looks at the size  *)
(* of the file at the path first, and maps what is there then; what it     *)
(* mapped stays its own, whatever is renamed over it.                      *)
Opens(by, key) ==
  load' = [NotLoaded EXCEPT !.by = by, !.key = key, !.got = RefusePack(SizeRefusal(at)),
                            !.stage = IF SizeRefusal(at) = "none" THEN "sized" ELSE "done"]

LoadVerifiedPack ==
  /\ load = NotLoaded
  /\ \/ load' = [NotLoaded EXCEPT !.by = "load", !.stage = "done", !.got = RefusePack("no public key")]
     \/ \E key \in Keys : Opens("load", key)
  /\ UNCHANGED <<at, tmp, writer, returned, cooks, installed, damages, lostAtClose>>

ShowLayout ==
  /\ load = NotLoaded
  /\ Opens("layout", "none")
  /\ UNCHANGED <<at, tmp, writer, returned, cooks, installed, damages, lostAtClose>>

MapFile ==
  /\ load.stage = "sized"
  /\ load' = [load EXCEPT !.stage = "done", !.file = at,
                 !.got = IF load.by = "load" THEN Load(at, load.key) ELSE ReadPackLayout(at)]
  /\ UNCHANGED <<at, tmp, writer, returned, cooks, installed, damages, lostAtClose>>

PackNext ==
  \/ \E pack \in Packs : StartWrite(pack)
  \/ WriteSections \/ CloseFile \/ RenameFile \/ ReturnHash \/ CookerDies
  \/ DamageFile \/ LoadVerifiedPack \/ ShowLayout \/ MapFile
PackSpec == PackInit /\ [][PackNext]_packVars

-----------------------------------------------------------------------------
(* A cook that fails or dies leaves the pack that was there; nothing but a *)
(* whole pack is ever at its path, unless closing the file lost its end.   *)
OldPackOrNew ==
  /\ damages = 0 /\ ~lostAtClose =>
       at = IF installed = <<>> THEN NoFile ELSE SignPack(Last(installed))
  /\ returned = "written" /\ writer = Idle /\ damages = 0 /\ ~lostAtClose =>
       Load(at, Last(installed).key).error = "none"

IsLoaded == load.stage = "done" /\ load.got.error = "none"

(* What a process loads is a pack some cook wrote, under the key it trusts,*)
(* each asset of it where its blob is and resolved to what that decodes to.*)
IsAsWritten(pack, file, got) ==
  /\ got.client_pack = pack.client_pack
  /\ Len(got.entries) = Len(pack.entries)
  /\ \A i \in DOMAIN got.entries :
       Resolve(file, got.entries, pack.entries[i].path, pack.entries[i].type)
         = Decoded(Decode(pack.entries[i].type, pack.entries[i].data))

LoadsWhatWasCooked ==
  load.by = "load" /\ IsLoaded =>
    \E i \in DOMAIN installed :
      installed[i].key = load.key /\ IsAsWritten(installed[i], load.file, load.got)

(* A pack as it was cooked is never refused to who trusts its key.         *)
NothingWholeIsRefused ==
  load.by = "load" /\ load.stage = "done" =>
    \A i \in DOMAIN installed :
      installed[i].key = load.key /\ load.file = SignPack(installed[i]) => IsLoaded

(* Even unverified, an index leads to the data section and nowhere else.   *)
StaysInTheDataSection ==
  IsLoaded =>
    \E limit \in {OpenPack(load.file).index_offset} :
       /\ \A e \in ToSet(load.got.entries) :
            e.offset >= HeaderSize /\ e.offset + e.size <= limit
       /\ limit <= Len(load.file.bytes)
       /\ ~SharesAPath(load.got.entries)

(* A character's hitboxes are those under its name, in path order.         *)
AreInPathOrder(own, got) ==
  got.error = "none" =>
    /\ Len(got.hitboxes) = Cardinality(own)
    /\ \A e \in own :
         Resolve(load.file, load.got.entries, e.path, "hitbox")
           = [error |-> "none",
              asset |-> got.hitboxes[Cardinality({f \in own : IsBefore(f.path, e.path)}) + 1]]
HitboxesAreItsOwn ==
  load.by = "load" /\ IsLoaded =>
    \A character \in UNION {Prefixes(e.path) : e \in ToSet(load.got.entries)} :
      AreInPathOrder(
        {e \in ToSet(load.got.entries) : e.type = "hitbox" /\ IsPrefix(character \o <<47>>, e.path)},
        ResolveHitboxes(load.file, load.got.entries, character))

(***************************************************************************)
(* Whatever a cook does, fails at or dies in, and whatever becomes of the  *)
(* file, a process that loads it either refuses it or has what was cooked  *)
(* (WritePack, Pack::Load, ReadPackLayout, Pack's Resolve functions).       *)
(***************************************************************************)
PackInv ==
  /\ OldPackOrNew /\ LoadsWhatWasCooked /\ NothingWholeIsRefused
  /\ StaysInTheDataSection /\ HitboxesAreItsOwn

(***************************************************************************)
(* An asset, from the cooker's hands to the game's: its bytes and the pack *)
(* that carries them.                                                      *)
(***************************************************************************)
AssetsInv == BlobsInv /\ PackInv

(***************************************************************************)
(* "A failed write only ever leaves a stray .tmp file behind, never a      *)
(* truncated file at output_path" (pack_writer.cpp, on WritePackFile).     *)
(***************************************************************************)
NeverTruncated ==
  damages = 0 /\ at # NoFile => \E i \in DOMAIN installed : at.size = SignPack(installed[i]).size
=============================================================================
