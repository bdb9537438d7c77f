--------------------------- MODULE SnapshotFormat ---------------------------
(***************************************************************************)
(* The three file formats of crates/snapshot-format/src/lib.rs and the     *)
(* guest's half of them (crates/guest-monitor/src/main.rs): RVSNAP01, the  *)
(* two target regions with their checksums; RVMETA01, the context, the     *)
(* source text and the symbols; RVPROJ01, one of each.                     *)
(*                                                                         *)
(* A file is a sequence of naturals.  A field of one, two, four or eight   *)
(* bytes is one element, so is a magic number; a cell of a region, or a    *)
(* character, is one element.  The registers of the context are reduced to *)
(* its pc and its mcause.  What a decoder gives is a set: the one value it *)
(* accepts, or nothing where the code returns an error.                    *)
(***************************************************************************)
EXTENDS Naturals, Sequences, SequencesExt

CONSTANTS
  MaxWorkspace, MaxData,  \* MAX_WORKSPACE, MAX_DATA
  PairMax,                \* RLE_PAIR_MAX, the longest run of one pair
  HostLimits,             \* MAX_METADATA_SOURCE, _SYMBOLS and _SYMBOL_NAME
  GuestLimits,            \* the same bounds of the guest's own tables
  LineLength, LineCount,  \* COMMAND_CAPACITY, MAX_SOURCE_LINES of the guest
  MetadataMax             \* MAX_METADATA_BYTES of the guest

Magic == 90               \* RVSNAP01
ProjectMagic == 91        \* RVPROJ01
MetadataMagic == 92       \* RVMETA01
Version == 1
HeaderLen == 7            \* HEADER_LEN, in fields
ProjectHeaderLen == 4     \* PROJECT_HEADER_LEN, in fields
ContextLen == 2
Newline == 10

(* What the three hold.                                                    *)
Symbol == [address : Nat, name : Seq(Nat)]
Image == [workspace : Seq(Nat), data : Seq(Nat), lines : Nat]
Metadata == [context : [1 .. ContextLen -> Nat], source : Seq(Nat), symbols : Seq(Symbol)]
Project == [image : Image, metadata : Metadata]

ASSUME FormatAssumption ==
  /\ MaxWorkspace \in Nat \ {0} /\ MaxData \in Nat /\ PairMax \in Nat \ {0}
  /\ \A limits \in {HostLimits, GuestLimits} : limits \in [source : Nat, symbols : Nat, name : Nat]
  /\ LineLength \in Nat /\ LineCount \in Nat /\ MetadataMax \in Nat

Prefix(s, n) == SubSeq(s, 1, n)
From(s, n) == SubSeq(s, n + 1, Len(s))

-----------------------------------------------------------------------------
(* Checksums and runs.                                                     *)

ChecksumOfNothing(cells) == 0                               \* mutant

(* crc32: a different one for two regions that differ in one cell.         *)
Checksum(cells) ==
  LET sum[n \in 0 .. Len(cells)] ==
        IF n = 0 THEN 1 ELSE (31 * sum[n - 1] + cells[n] + 7) % 251
  IN sum[Len(cells)]

(* rle_encode, pair by pair from the left.                                 *)
RunAt(s, at) ==
  LET same == {n \in 1 .. Len(s) - at + 1 : n <= PairMax /\ \A i \in at .. at + n - 1 : s[i] = s[at]}
  IN CHOOSE n \in same : \A k \in same : k <= n
RleEncode(s) ==
  LET pairs[at \in 1 .. Len(s) + 1] ==
        IF at > Len(s) THEN <<>> ELSE <<RunAt(s, at), s[at]>> \o pairs[at + RunAt(s, at)]
  IN pairs[1]

Repeat(cell, n) == [i \in 1 .. n |-> cell]

(* The cells the pairs stand for.                                          *)
Unpacked(pairs) ==
  LET cells[n \in 0 .. Len(pairs) \div 2] ==
        IF n = 0 THEN <<>> ELSE cells[n - 1] \o Repeat(pairs[2 * n], pairs[2 * n - 1])
  IN cells[Len(pairs) \div 2]

(* snapshot_patch_rle: the runs must make exactly `length' cells.          *)
RleDecode(pairs, length) == {cells \in {Unpacked(pairs)} : Len(cells) = length}

-----------------------------------------------------------------------------
(* RVSNAP01.                                                               *)

ValidLengths(w, d) == w <= MaxWorkspace /\ d <= MaxData

(* SnapshotImage::encode.                                                  *)
ImageEncode(image) ==
  IF ValidLengths(Len(image.workspace), Len(image.data))
  THEN {<<Magic, HeaderLen, Len(image.workspace), Len(image.data), image.lines,
          Checksum(image.workspace), Checksum(image.data)>> \o image.workspace \o image.data}
  ELSE {}

(* SnapshotImage::decode.                                                  *)
ImageDecode(file) ==
  IF Len(file) < HeaderLen \/ file[1] # Magic \/ file[2] # HeaderLen THEN {}
  ELSE LET end == HeaderLen + file[3]
           image == [workspace |-> SubSeq(file, HeaderLen + 1, end),
                     data |-> From(file, end), lines |-> file[5]]
       IN IF /\ ValidLengths(file[3], file[4])
             /\ Len(file) = end + file[4]
             /\ Checksum(image.workspace) = file[6] /\ Checksum(image.data) = file[7]
          THEN {image} ELSE {}

-----------------------------------------------------------------------------
(* RVMETA01.                                                               *)

SymbolFields(symbols) ==
  LET fields[n \in 0 .. Len(symbols)] ==
        IF n = 0 THEN <<>>
        ELSE fields[n - 1] \o <<symbols[n].address, Len(symbols[n].name)>> \o symbols[n].name
  IN fields[Len(symbols)]

MetadataFields(metadata) ==
  <<MetadataMagic, Version>> \o metadata.context
    \o <<Len(metadata.source), Len(metadata.symbols)>>
    \o metadata.source \o SymbolFields(metadata.symbols)

(* SnapshotMetadata::encode.                                               *)
MetadataEncode(metadata) ==
  IF /\ Len(metadata.source) <= HostLimits.source
     /\ Len(metadata.symbols) <= HostLimits.symbols
     /\ \A i \in DOMAIN metadata.symbols : Len(metadata.symbols[i].name) <= HostLimits.name
  THEN {MetadataFields(metadata)} ELSE {}

(* The symbols of the rest of a file, one after the other from a cell on:  *)
(* MetadataReader.take refuses to read past the end, and nothing may be    *)
(* left over.                                                              *)
SymbolFits(rest, r, limits) ==
  /\ r.at < Len(rest) /\ rest[r.at + 1] <= limits.name
  /\ r.at + 1 + rest[r.at + 1] <= Len(rest)
SymbolRead(rest, r) ==
  LET end == r.at + 1 + rest[r.at + 1] IN
  [at |-> end + 1,
   symbols |-> Append(r.symbols, [address |-> rest[r.at], name |-> SubSeq(rest, r.at + 2, end)])]
SymbolsDecode(rest, count, limits) ==
  LET read[n \in 0 .. count] ==
        IF n = 0 THEN {[at |-> 1, symbols |-> <<>>]}
        ELSE {SymbolRead(rest, r) : r \in {q \in read[n - 1] : SymbolFits(rest, q, limits)}}
  IN {r.symbols : r \in {q \in read[count] : q.at = Len(rest) + 1}}

(* SnapshotMetadata::decode and, with the limits of the guest, the fields  *)
(* decode_guest_metadata accepts.                                          *)
MetadataDecode(file, limits) ==
  LET fixed == 2 + ContextLen + 2 IN
  IF Len(file) < fixed \/ file[1] # MetadataMagic \/ file[2] # Version THEN {}
  ELSE LET length == file[fixed - 1]
           count == file[fixed]
       IN IF \/ length > limits.source \/ count > limits.symbols
             \/ Len(file) < fixed + length
          THEN {}
          ELSE {[context |-> SubSeq(file, 3, 2 + ContextLen),
                 source |-> SubSeq(file, fixed + 1, fixed + length),
                 symbols |-> symbols] :
                   symbols \in SymbolsDecode(From(file, fixed + length), count, limits)}

(* decode_guest_metadata keeps the source as lines: an empty text is no    *)
(* line, every other one ends where the next newline is.                   *)
Newlines(source, at) == {i \in at .. Len(source) : source[i] = Newline}
LineEnd(source, at) ==
  CHOOSE i \in Newlines(source, at) : \A k \in Newlines(source, at) : i <= k
LinesOf(source) ==
  LET lines[at \in 1 .. Len(source) + 1] ==
        IF Newlines(source, at) = {} THEN <<From(source, at - 1)>>
        ELSE <<SubSeq(source, at, LineEnd(source, at) - 1)>> \o lines[LineEnd(source, at) + 1]
  IN lines[1]
LinesDecode(source) ==
  LET lines == IF source = <<>> THEN <<>> ELSE LinesOf(source) IN
  IF Len(lines) <= LineCount /\ \A i \in DOMAIN lines : Len(lines[i]) <= LineLength
  THEN {lines} ELSE {}

(* build_snapshot_metadata: the lines of the slot as one text again.       *)
SourceOf(lines) ==
  LET text[n \in 0 .. Len(lines)] ==
        IF n = 0 THEN <<>>
        ELSE text[n - 1] \o (IF n = 1 THEN <<>> ELSE <<Newline>>) \o lines[n]
  IN text[Len(lines)]
GuestMetadata(slot) ==
  LET fields == MetadataFields([context |-> slot.context, source |-> SourceOf(slot.source),
                                symbols |-> slot.symbols])
  IN IF Len(fields) <= MetadataMax THEN {fields} ELSE {}

(* decode_guest_metadata, for the slot.                                    *)
GuestDecode(file) ==
  UNION {{[context |-> m.context, source |-> lines, symbols |-> m.symbols] :
            lines \in LinesDecode(m.source)} : m \in MetadataDecode(file, GuestLimits)}

-----------------------------------------------------------------------------
(* RVPROJ01.                                                               *)

(* SnapshotProject::encode.                                                *)
ProjectEncode(project) ==
  UNION {{<<ProjectMagic, Version, Len(image), Len(metadata)>> \o image \o metadata :
            metadata \in MetadataEncode(project.metadata)} : image \in ImageEncode(project.image)}

(* SnapshotProject::decode.                                                *)
ProjectDecode(file) ==
  IF \/ Len(file) < ProjectHeaderLen \/ file[1] # ProjectMagic \/ file[2] # Version
     \/ Len(file) # ProjectHeaderLen + file[3] + file[4]
  THEN {}
  ELSE LET end == ProjectHeaderLen + file[3] IN
       UNION {{[image |-> image, metadata |-> metadata] :
                 metadata \in MetadataDecode(From(file, end), HostLimits)} :
                image \in ImageDecode(SubSeq(file, ProjectHeaderLen + 1, end))}
=============================================================================
