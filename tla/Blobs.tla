-------------------------------- MODULE Blobs --------------------------------
(***************************************************************************)
(* The blobs of a pack: what the cooker's encoder (encoder.cpp) makes of   *)
(* each kind of asset, and what Pack's decoder (decoder.cpp) makes of the  *)
(* bytes.  The two are written apart, as they are in the code, so that     *)
(* they can disagree.                                                      *)
(*                                                                         *)
(* A blob is its bytes.  A string is a sequence of bytes, an optional one  *)
(* a sequence of at most one; a float is its four bytes, since only what   *)
(* its bits say of it is looked at.  A word read above 2^31 - 1 is         *)
(* negative here: as far outside every limit as it is in the code, and -1  *)
(* the one that names no parent.                                           *)
(***************************************************************************)
EXTENDS Integers, SequencesExt

CONSTANTS
  Cooked,            \* the assets of each type the cooker may encode
  MaxPathLength,     \* the limits of wire_format.h and assets.h
  MaxMeshPoints, MaxMeshIndices, MaxSceneNodes, MaxProperties, MaxTextureBytes,
  MaxScriptBytes, MaxAudioBytes, MaxCueVariants, MaxArchiveBytes, MaxJoints, MaxCharacters

VARIABLES
  cooked,     \* what was cooked
  blob,       \* its bytes, as they are now
  change,     \* what became of them: "none", "cut", "changed" or "longer"
  resolved    \* what the decoder made of them

blobVars == <<cooked, blob, change, resolved>>

MaxFootContacts == 255
PcmBitsPerSample == {8, 16, 24, 32}
BodyParts == 0..2
Feet == 0..1
NoParent == -1

(* The twelve bytes a KTX2 file starts with, and the VkFormats it may name.*)
Ktx2Identifier == <<171, 75, 84, 88, 32, 50, 48, 187, 13, 10, 26, 10>>
TextureFormats == {139, 141, 146}

-----------------------------------------------------------------------------
(* The floats the format is particular about.                              *)
IsZero(f) == f[1] = 0 /\ f[2] = 0 /\ f[3] = 0 /\ f[4] % 128 = 0
IsFinite(f) == ~(f[4] % 128 = 127 /\ f[3] >= 128)
IsNegative(f) == f[4] >= 128 /\ ~IsZero(f)
IsAtMostOne(f) ==
  \/ f[4] < 63 \/ f[4] >= 128
  \/ f[4] = 63 /\ (f[3] < 128 \/ (f[3] = 128 /\ f[2] = 0 /\ f[1] = 0))
IsValidStrideLength(f) == IsFinite(f) /\ ~IsNegative(f)
IsValidFootContactRatio(f) == IsFinite(f) /\ ~IsNegative(f) /\ IsAtMostOne(f)
IsValidTransitionDuration(f) == IsFinite(f) /\ ~IsNegative(f) /\ ~IsZero(f)

-----------------------------------------------------------------------------
(* Writing (ByteWriter).                                                   *)
Word(n) == [i \in 1..4 |-> (n \div 256^(i - 1)) % 256]
Str(s) == Word(Len(s)) \o s
Each(list, Write(_)) == FlattenSeq([i \in DOMAIN list |-> Write(list[i])])
CountedBytes(list, Write(_)) == Word(Len(list)) \o Each(list, Write)
IsTooLong(s) == Len(s) > MaxPathLength
Bits(flags) == (IF flags[1] THEN 1 ELSE 0) + (IF flags[2] THEN 2 ELSE 0)
               + (IF flags[3] THEN 4 ELSE 0) + (IF flags[4] THEN 8 ELSE 0)
               + (IF flags[5] THEN 16 ELSE 0)

Encoded(bytes) == [error |-> "none", blob |-> bytes]
RefusedAs(error) == [error |-> error, blob |-> <<>>]
Unless(refused, error, bytes) == IF refused THEN RefusedAs(error) ELSE Encoded(bytes)

TransformBytes(t) == FlattenSeq(t.translation) \o FlattenSeq(t.rotation) \o FlattenSeq(t.scale)
FrameBytes(f) == FlattenSeq(f.translation) \o FlattenSeq(f.rotation)

MeshTooLarge(mesh) == Len(mesh.points) > MaxMeshPoints \/ Len(mesh.indices) > MaxMeshIndices
MeshBytes(mesh) == CountedBytes(mesh.points, FlattenSeq) \o CountedBytes(mesh.indices, Word)

NodeTooLarge(node) ==
  \/ IsTooLong(node.name) \/ Len(node.properties) > MaxProperties
  \/ \E i \in DOMAIN node.paths : \E p \in ToSet(node.paths[i]) : IsTooLong(p)
  \/ \E pair \in ToSet(node.properties) : IsTooLong(pair[1]) \/ IsTooLong(pair[2])
NodeBytes(node) ==
  LET flags == [i \in 1..5 |-> IF i = 5 THEN node.is_spawn_point ELSE node.paths[i] # <<>>]
  IN Str(node.name) \o Word(node.parent) \o TransformBytes(node.transform) \o <<Bits(flags)>>
     \o Each(FlattenSeq(node.paths), Str)
     \o CountedBytes(node.properties, LAMBDA pair : Str(pair[1]) \o Str(pair[2]))

EncodeMesh(mesh) == Unless(MeshTooLarge(mesh), "too large", MeshBytes(mesh))
EncodeScene(nodes) ==
  Unless(Len(nodes) > MaxSceneNodes \/ \E node \in ToSet(nodes) : NodeTooLarge(node), "too large",
         CountedBytes(nodes, NodeBytes))
EncodeTexture(ktx2) ==
  Unless(Len(ktx2) > MaxTextureBytes, "too large", Word(Len(ktx2)) \o ktx2)
EncodeHitbox(hitbox) ==
  Unless(MeshTooLarge(hitbox.mesh) \/ IsTooLong(hitbox.joint), "too large",
         <<hitbox.part>> \o Str(hitbox.joint) \o MeshBytes(hitbox.mesh))
EncodeSkeleton(joints) ==
  Unless(Len(joints) > MaxJoints \/ \E j \in ToSet(joints) : IsTooLong(j.name), "too large",
         CountedBytes(joints, LAMBDA j : Str(j.name) \o Word(j.parent) \o TransformBytes(j.transform)))
EncodeScript(text) == Unless(Len(text) > MaxScriptBytes, "too large", text)
EncodeArchive(archive) == Unless(Len(archive) > MaxArchiveBytes, "too large", archive)
EncodeClip(clip) ==
  IF Len(clip.archive) > MaxArchiveBytes \/ Len(clip.contacts) > MaxFootContacts
  THEN RefusedAs("too large")
  ELSE Unless(\/ ~IsValidStrideLength(clip.stride)
              \/ \E c \in ToSet(clip.contacts) : ~IsValidFootContactRatio(c.ratio), "animation",
              clip.stride \o <<Len(clip.contacts)>>
              \o Each(clip.contacts, LAMBDA c : <<c.foot>> \o c.ratio) \o clip.archive)
EncodeStanceTransitions(durations) ==
  Unless(\E f \in ToSet(durations) : ~IsValidTransitionDuration(f), "animation",
         FlattenSeq(durations))
EncodeRifle(markers) == Encoded(Each(markers, FrameBytes))
EncodeWeaponSocket(socket) ==
  Unless(IsTooLong(socket.right) \/ IsTooLong(socket.left), "too large",
         Str(socket.right) \o FrameBytes(socket.frame) \o Str(socket.left))
EncodeCharacters(names) ==
  Unless(Len(names) > MaxCharacters \/ \E name \in ToSet(names) : IsTooLong(name), "too large",
         CountedBytes(names, Str))
EncodeAudio(sound) ==
  IF Len(sound.samples) > MaxAudioBytes THEN RefusedAs("too large")
  ELSE IF sound.bits \notin PcmBitsPerSample THEN RefusedAs("sample width")
  ELSE Unless(Len(sound.samples) % (sound.bits \div 8) # 0, "partial sample",
              Word(sound.rate) \o <<sound.bits>> \o Word(Len(sound.samples)) \o sound.samples)
EncodeCueSound(sound) ==
  IF sound.variants = <<>> \/ ~IsFinite(sound.gain) THEN RefusedAs("cue sound")
  ELSE Unless(Len(sound.variants) > MaxCueVariants \/ \E v \in ToSet(sound.variants) : IsTooLong(v),
              "too large", sound.gain \o CountedBytes(sound.variants, Str))

Encode(type, asset) ==
  CASE type \in {"mesh", "collision"} -> EncodeMesh(asset)
    [] type = "scene" -> EncodeScene(asset)
    [] type = "texture" -> EncodeTexture(asset)
    [] type = "spawn point" -> Encoded(FrameBytes(asset))
    [] type = "hitbox" -> EncodeHitbox(asset)
    [] type = "skeleton" -> EncodeSkeleton(asset)
    [] type = "animation skeleton" -> EncodeArchive(asset)
    [] type = "clip" -> EncodeClip(asset)
    [] type = "stance transitions" -> EncodeStanceTransitions(asset)
    [] type = "eye" -> Encoded(FlattenSeq(asset))
    [] type = "rifle" -> EncodeRifle(asset)
    [] type = "weapon socket" -> EncodeWeaponSocket(asset)
    [] type = "script" -> EncodeScript(asset)
    [] type = "characters" -> EncodeCharacters(asset)
    [] type = "audio" -> EncodeAudio(asset)
    [] type = "cue sound" -> EncodeCueSound(asset)

-----------------------------------------------------------------------------
(* Reading (ByteReader): each read gives a value and what is left after it,*)
(* or fails, and everything read after it.                                 *)
Failed == [ok |-> FALSE, value |-> <<>>, left |-> <<>>]
Got(value, left) == [ok |-> TRUE, value |-> value, left |-> left]
OnlyIf(condition, read) == IF read.ok /\ condition THEN read ELSE Failed

(* What is read, given another shape.                                      *)
Shaped(read, Shape(_)) == IF read.ok THEN Got(Shape(read.value), read.left) ELSE Failed

NumberOf(b) ==
  b[1] + 256 * b[2] + 65536 * b[3] + 16777216 * (IF b[4] >= 128 THEN b[4] - 256 ELSE b[4])

ReadBytes(left, n) ==
  IF n \in 0..Len(left) THEN Got(SubSeq(left, 1, n), SubSeq(left, n + 1, Len(left))) ELSE Failed
ReadU8(left) == IF left = <<>> THEN Failed ELSE Got(Head(left), Tail(left))
ReadU32(left) == Shaped(ReadBytes(left, 4), NumberOf)
ReadF32(left) == ReadBytes(left, 4)
BytesAfter(size, max) ==
  IF size.ok /\ size.value \in 0..max THEN ReadBytes(size.left, size.value) ELSE Failed
ReadSized(left, max) == BytesAfter(ReadU32(left), max)
ReadString(left) == ReadSized(left, MaxPathLength)

(* n reads, one after the other: their values, in order.                   *)
Joined(before, next) ==
  IF before.ok /\ next.ok THEN Got(Append(before.value, next.value), next.left) ELSE Failed
Reads(left, n, Read(_, _)) ==
  LET reads[i \in 0..n] ==
        IF i = 0 THEN Got(<<>>, left) ELSE Joined(reads[i - 1], Read(i, reads[i - 1].left))
  IN reads[n]

ReadFloats(left, n) == Reads(left, n, LAMBDA i, l : ReadF32(l))
ReadsAfter(count, max, Read(_)) ==
  IF count.ok /\ count.value \in 0..max
  THEN Reads(count.left, count.value, LAMBDA i, l : Read(l)) ELSE Failed
ReadCounted(left, max, Read(_)) == ReadsAfter(ReadU32(left), max, Read)

ReadField(kind, left) ==
  CASE kind = "u8" -> ReadU8(left)
    [] kind = "u32" -> ReadU32(left)
    [] kind = "f32" -> ReadF32(left)
    [] kind = "string" -> ReadString(left)
    [] kind = "vec3" -> ReadFloats(left, 3)
    [] kind = "quat" -> ReadFloats(left, 4)
    [] kind = "path" -> Shaped(ReadString(left), LAMBDA path : <<path>>)
    [] kind = "no path" -> Got(<<>>, left)
ReadFields(left, kinds) == Reads(left, Len(kinds), LAMBDA i, l : ReadField(kinds[i], l))

ReadFrame(left) ==
  Shaped(ReadFields(left, <<"vec3", "quat">>), LAMBDA v : [translation |-> v[1], rotation |-> v[2]])

-----------------------------------------------------------------------------
\* Mutant: an index one past the last point is let through.
MutMeshOf(points, indices) ==
  OnlyIf(/\ points.ok /\ indices.ok /\ Len(indices.value) % 3 = 0
         /\ \A i \in ToSet(indices.value) : i \in 0..Len(points.value),
         Got([points |-> points.value, indices |-> indices.value], indices.left))
MeshOf(points, indices) ==
  OnlyIf(/\ points.ok /\ indices.ok /\ Len(indices.value) % 3 = 0
         /\ \A i \in ToSet(indices.value) : i \in 0..(Len(points.value) - 1),
         Got([points |-> points.value, indices |-> indices.value], indices.left))
MeshAfter(points) == MeshOf(points, ReadCounted(points.left, MaxMeshIndices, ReadU32))
DecodeMesh(left) ==
  MeshAfter(ReadCounted(left, MaxMeshPoints, LAMBDA l : ReadFloats(l, 3)))

(* Each names a parent listed before it, or none.                          *)
ParentsComeFirst(list) ==
  \A i \in DOMAIN list : list[i].parent = NoParent \/ list[i].parent \in 0..(i - 2)

ReadPair(left) == ReadFields(left, <<"string", "string">>)
IsSet(flags, i) == (flags \div 2^(i - 1)) % 2 = 1
NodeOf(head, paths, properties) ==
  IF ~head.ok \/ ~paths.ok \/ ~properties.ok THEN Failed
  ELSE Got([name |-> head.value[1], parent |-> head.value[2],
            transform |-> [translation |-> head.value[3], rotation |-> head.value[4],
                           scale |-> head.value[5]],
            paths |-> paths.value, is_spawn_point |-> IsSet(head.value[6], 5),
            properties |-> properties.value], properties.left)
NodeWith(head, paths) == NodeOf(head, paths, ReadCounted(paths.left, MaxProperties, ReadPair))
NodeAfter(head) ==
  NodeWith(head, ReadFields(head.left,
    [i \in 1..4 |-> IF IsSet(head.value[6], i) THEN "path" ELSE "no path"]))
DecodeSceneNode(left) ==
  NodeAfter(ReadFields(left, <<"string", "u32", "vec3", "quat", "vec3", "u8">>))

InParentOrder(list) == OnlyIf(ParentsComeFirst(list.value), list)
DecodeScene(left) == InParentOrder(ReadCounted(left, MaxSceneNodes, DecodeSceneNode))

NamesAFormat(format) == format.ok /\ format.value \in TextureFormats
StartsATexture(identifier) ==
  identifier.ok /\ identifier.value = Ktx2Identifier /\ NamesAFormat(ReadU32(identifier.left))
TextureOf(ktx2) ==
  OnlyIf(StartsATexture(ReadBytes(ktx2.value, Len(Ktx2Identifier))), ktx2)
DecodeTexture(left) == TextureOf(ReadSized(left, MaxTextureBytes))

HitboxAfter(head) ==
  IF ~head.ok \/ head.value[1] \notin BodyParts THEN Failed
  ELSE Shaped(DecodeMesh(head.left),
              LAMBDA mesh : [part |-> head.value[1], joint |-> head.value[2], mesh |-> mesh])
DecodeHitbox(left) == HitboxAfter(ReadFields(left, <<"u8", "string">>))

ReadJoint(left) ==
  Shaped(ReadFields(left, <<"string", "u32", "vec3", "quat", "vec3">>),
         LAMBDA v : [name |-> v[1], parent |-> v[2],
                     transform |-> [translation |-> v[3], rotation |-> v[4], scale |-> v[5]]])
DecodeSkeleton(left) == InParentOrder(ReadCounted(left, MaxJoints, ReadJoint))

DecodeWhole(left, max) == IF Len(left) <= max THEN Got(left, <<>>) ELSE Failed

ValidContact(read) ==
  OnlyIf(read.value.foot \in Feet /\ IsValidFootContactRatio(read.value.ratio), read)
ReadContact(left) ==
  ValidContact(Shaped(ReadFields(left, <<"u8", "f32">>), LAMBDA v : [foot |-> v[1], ratio |-> v[2]]))
ClipWith(head, contacts) ==
  IF ~head.ok \/ ~IsValidStrideLength(head.value[1]) \/ ~contacts.ok THEN Failed
  ELSE Shaped(DecodeWhole(contacts.left, MaxArchiveBytes),
              LAMBDA bytes : [stride |-> head.value[1], contacts |-> contacts.value,
                              archive |-> bytes])
ClipAfter(head) ==
  ClipWith(head, Reads(head.left, head.value[2], LAMBDA i, l : ReadContact(l)))
DecodeClip(left) == ClipAfter(ReadFields(left, <<"f32", "u8">>))

ValidDurations(durations) ==
  OnlyIf(/\ durations.left = <<>>
         /\ \A f \in ToSet(durations.value) : IsValidTransitionDuration(f), durations)
DecodeStanceTransitions(left) == ValidDurations(ReadFloats(left, 3))

DecodeWeaponSocket(left) ==
  Shaped(ReadFields(left, <<"string", "vec3", "quat", "string">>),
         LAMBDA v : [right |-> v[1], frame |-> [translation |-> v[2], rotation |-> v[3]],
                     left |-> v[4]])

SoundOf(head, samples) ==
  OnlyIf(/\ head.value[2] \in PcmBitsPerSample
         /\ Len(samples.value) % (head.value[2] \div 8) = 0,
         Shaped(samples, LAMBDA bytes : [rate |-> head.value[1], bits |-> head.value[2],
                                         samples |-> bytes]))
SoundAfter(head) == SoundOf(head, ReadSized(head.left, MaxAudioBytes))
DecodeAudio(left) == SoundAfter(ReadFields(left, <<"u32", "u8">>))

CueOf(gain, variants) ==
  OnlyIf(gain.ok /\ IsFinite(gain.value) /\ variants.value # <<>>,
         Shaped(variants, LAMBDA paths : [gain |-> gain.value, variants |-> paths]))
CueAfter(gain) == CueOf(gain, ReadCounted(gain.left, MaxCueVariants, ReadString))
DecodeCueSound(left) == CueAfter(ReadF32(left))

Decode(type, left) ==
  CASE type \in {"mesh", "collision"} -> DecodeMesh(left)
    [] type = "scene" -> DecodeScene(left)
    [] type = "texture" -> DecodeTexture(left)
    [] type = "spawn point" -> ReadFrame(left)
    [] type = "hitbox" -> DecodeHitbox(left)
    [] type = "skeleton" -> DecodeSkeleton(left)
    [] type = "animation skeleton" -> DecodeWhole(left, MaxArchiveBytes)
    [] type = "clip" -> DecodeClip(left)
    [] type = "stance transitions" -> DecodeStanceTransitions(left)
    [] type = "eye" -> ReadFloats(left, 3)
    [] type = "rifle" -> Reads(left, 4, LAMBDA i, l : ReadFrame(l))
    [] type = "weapon socket" -> DecodeWeaponSocket(left)
    [] type = "script" -> DecodeWhole(left, MaxScriptBytes)
    [] type = "characters" -> ReadCounted(left, MaxCharacters, ReadString)
    [] type = "audio" -> DecodeAudio(left)
    [] type = "cue sound" -> DecodeCueSound(left)

-----------------------------------------------------------------------------
(* The world transforms of a list of nodes or joints, one pass over it: the*)
(* locals each is the product of, in order; <<>> where the pass would read *)
(* one it has not made (ComputeWorldTransforms, Pack::ResolveSkeleton).    *)
WorldTransforms(list) ==
  LET made[n \in 0..Len(list)] ==
        IF n = 0 THEN <<>>
        ELSE LET parent == list[n].parent
             IN Append(made[n - 1],
                       IF parent = NoParent THEN <<n>>
                       ELSE IF parent + 1 \in DOMAIN made[n - 1]
                            THEN Append(made[n - 1][parent + 1], n) ELSE <<>>)
  IN made[Len(list)]

-----------------------------------------------------------------------------
(* An asset is cooked, its bytes may be cut short, changed or added to     *)
(* before they are signed, and what is left is decoded.                    *)
Unencoded == [error |-> "not yet", blob |-> <<>>]
Unresolved == [ok |-> FALSE, value |-> <<>>, left |-> <<>>, asked |-> FALSE]

BlobsInit ==
  /\ \E type \in DOMAIN Cooked : \E asset \in Cooked[type] : cooked = [type |-> type, asset |-> asset]
  /\ blob = Unencoded
  /\ change = "none"
  /\ resolved = Unresolved

CookBlob ==
  /\ blob = Unencoded
  /\ blob' = Encode(cooked.type, cooked.asset)
  /\ UNCHANGED <<cooked, change, resolved>>

OddBytes(byte) == {0, 1, 3, 127, 128, 255, (byte + 1) % 256} \ {byte}

ChangeBlob ==
  /\ blob.error = "none" /\ change = "none" /\ ~resolved.asked
  /\ \/ \E n \in 0..(Len(blob.blob) - 1) :
          change' = "cut" /\ blob' = [blob EXCEPT !.blob = SubSeq(@, 1, n)]
     \/ \E i \in DOMAIN blob.blob : \E byte \in OddBytes(blob.blob[i]) :
          change' = "changed" /\ blob' = [blob EXCEPT !.blob[i] = byte]
     \/ change' = "longer" /\ blob' = [blob EXCEPT !.blob = Append(@, 0)]
  /\ UNCHANGED <<cooked, resolved>>

Asked(read) == [ok |-> read.ok, value |-> read.value, left |-> read.left, asked |-> TRUE]
ResolveBlob ==
  /\ blob.error = "none" /\ ~resolved.asked
  /\ resolved' = Asked(Decode(cooked.type, blob.blob))
  /\ UNCHANGED <<cooked, blob, change>>

BlobsNext == CookBlob \/ ChangeBlob \/ ResolveBlob
BlobsSpec == BlobsInit /\ [][BlobsNext]_blobVars

-----------------------------------------------------------------------------
(* What those who use an asset rely on, whatever its bytes were: indices   *)
(* that address points, three to a triangle; a world transform for every   *)
(* node and joint, from a root down; a sound of whole samples; a cue that  *)
(* can always be played; contacts within their Clip.                       *)
MeshIsDrawable(mesh) ==
  \E triangles \in 0..Len(mesh.indices) :
    /\ Len(mesh.indices) = 3 * triangles
    /\ \A i \in DOMAIN mesh.indices : mesh.indices[i] + 1 \in DOMAIN mesh.points

IsARoute(list, route, to) ==
  /\ route # <<>> /\ list[route[1]].parent = NoParent /\ Last(route) = to
  /\ \A k \in 2..Len(route) : list[route[k]].parent + 1 = route[k - 1]

HasAWorld(list) == \A i \in DOMAIN list : IsARoute(list, WorldTransforms(list)[i], i)

CanBeUsed(type, value) ==
  CASE type \in {"mesh", "collision"} -> MeshIsDrawable(value)
    [] type = "hitbox" -> value.part \in BodyParts /\ MeshIsDrawable(value.mesh)
    [] type \in {"scene", "skeleton"} -> HasAWorld(value)
    [] type = "texture" -> \E f \in TextureFormats : IsPrefix(Ktx2Identifier \o Word(f), value)
    [] type = "audio" -> \E n \in 0..Len(value.samples) : Len(value.samples) * 8 = n * value.bits
    [] type = "cue sound" -> IsFinite(value.gain) /\ Len(value.variants) > 0
    [] type = "clip" -> \A c \in ToSet(value.contacts) : IsAtMostOne(c.ratio) /\ ~IsNegative(c.ratio)
    [] OTHER -> TRUE

(* Kinds whose blob ends in bytes of any number.                           *)
OpenEnded == {"script", "animation skeleton", "clip"}

(***************************************************************************)
(* Whatever became of its bytes, what the decoder gives can be used, and   *)
(* is what the encoder would make those bytes of; an asset that can be     *)
(* used comes back as it was; and one cut short does not come back at all  *)
(* ("the inverse of Encode*, or nullopt if blob is not a valid blob",      *)
(* pack_decoder.h; Decode*Blob).                                           *)
(***************************************************************************)
BlobsInv ==
  LET type == cooked.type
      again == Encode(type, resolved.value)
  IN resolved.asked =>
       /\ resolved.ok => CanBeUsed(type, resolved.value) /\ again.error = "none"
       /\ resolved.ok /\ type # "scene" => again.blob \o resolved.left = blob.blob
       /\ change = "none" /\ CanBeUsed(type, cooked.asset) =>
            resolved.ok /\ resolved.value = cooked.asset /\ resolved.left = <<>>
       /\ change = "cut" /\ type \notin OpenEnded => ~resolved.ok
=============================================================================
