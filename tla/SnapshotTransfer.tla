-------------------------- MODULE SnapshotTransfer --------------------------
(***************************************************************************)
(* Snapshots and projects between a file of the host and the slot of the   *)
(* guest: the tool (crates/app/src/main.rs and the transport of            *)
(* crates/snapshot-format/src/lib.rs), the serial line QEMU serves on a    *)
(* TCP port, and the snapshot commands of the guest's command loop         *)
(* (crates/guest-monitor/src/main.rs).  A user may take the same line with *)
(* a terminal between two runs of the tool, and either side of the line    *)
(* may go away at any moment.                                              *)
(*                                                                         *)
(* The guest handles a command line as a whole, so a command and its       *)
(* answer are one action; a binary payload arrives byte by byte.  What the *)
(* target is doing is a program: the two regions, the context (its pc and  *)
(* mcause), the source lines and the symbols.                              *)
(***************************************************************************)
EXTENDS SnapshotFormat

CONSTANTS
  Programs,        \* what the target may hold when it is stopped
  Files,           \* files the user may have, beside those the tool writes
  ChunkMax,        \* MAX_SNAPSHOT_DUMP and MAX_TRANSPORT_CHUNK
  MetaChunk,       \* MAX_MEMORY_DUMP and MAX_MEMORY_CHUNK
  HostMetadata,    \* MAX_METADATA_SERIALIZED
  BufferSize,      \* length of SNAPSHOT_BINARY_COMPRESSED
  Typed,           \* lines a user types in a terminal
  Runs, Events     \* bounds: runs of the tool; lines typed, links broken, files corrupted

WorkspaceSize == MaxWorkspace
DataSize == MaxData
Ctrl == 3          \* ASCII 3, which the receive path keeps for itself
Breakpoint == 3    \* StopReason::Breakpoint, in mcause

(* What the target, the slot, a line to the guest and an answer of it are. *)
Program ==
  [workspace : [1 .. WorkspaceSize -> Nat], data : [1 .. DataSize -> Nat],
   context : [1 .. ContextLen -> Nat], source : Seq(Seq(Nat)), symbols : Seq(Symbol)]
Slot ==
  [valid : BOOLEAN, workspace : [1 .. WorkspaceSize -> Nat], data : [1 .. DataSize -> Nat],
   context : [1 .. ContextLen -> Nat], source : Seq(Seq(Nat)), symbols : Seq(Symbol)]
Commands == {"save", "restore", "manifest", "dump", "metadata", "metadump", "patch", "patchbin",
             "patchrle", "metaapply", "debug"}
GuestLine ==
  [kind : Commands \cup {"none", "junk", "partial", "byte"}, region : {"", "workspace", "data"},
   offset : Nat, length : Nat, encoded : Nat]
GuestAnswer ==
  [kind : {"prompt", "ready", "error", "unknown", "saved", "restored", "done", "patched", "applied",
           "manifest", "chunk", "metadata", "metachunk"},
   region : {"", "workspace", "data"}, offset : Nat, cells : Seq(Nat)]

ASSUME TransferAssumption ==
  /\ ChunkMax \in Nat \ {0} /\ MetaChunk \in Nat \ {0} /\ HostMetadata \in Nat /\ BufferSize \in Nat
  /\ Programs \subseteq Program /\ Files \subseteq Seq(Nat) /\ Typed \subseteq GuestLine
  /\ Runs \in Nat /\ Events \in Nat

VARIABLES
  live,      \* the target program
  slot,      \* GUEST_SNAPSHOT
  guest,     \* the command loop: [mode, command, buffer]
  toGuest, toHost,  \* the two directions of the line
  link,      \* who holds the TCP connection
  tool,      \* the program of the host
  file,      \* the file it writes or reads
  result,    \* what the last run of the tool told the user
  swallowed, \* history: the receive path kept a byte of this run's payload
  typeahead, \* history: this run found the start of a line at the prompt
  genuine,   \* history: the file before it was corrupted
  left       \* what the environment may still do

line == <<toGuest, toHost, link>>
histories == <<swallowed, typeahead, genuine>>
vars == <<live, slot, guest, line, tool, file, result, histories, left>>

-----------------------------------------------------------------------------
(* Items of the line.                                                      *)

Command(kind, region, offset, length, encoded) ==
  [kind |-> kind, region |-> region, offset |-> offset, length |-> length, encoded |-> encoded]
Plain(kind) == Command(kind, "", 0, 0, 0)
Byte(value) == Command("byte", "", value, 0, 0)

Answer(kind, region, offset, cells) ==
  [kind |-> kind, region |-> region, offset |-> offset, cells |-> cells]
Say(kind) == Answer(kind, "", 0, <<>>)
Prompt == Say("prompt")
Ready == Say("ready")

Region(program, name) == IF name = "workspace" THEN program.workspace ELSE program.data
Capacity(name) == IF name = "workspace" THEN WorkspaceSize ELSE DataSize

-----------------------------------------------------------------------------
(* The guest.                                                              *)

EmptySlot ==
  [valid |-> FALSE, workspace |-> Repeat(0, WorkspaceSize), data |-> Repeat(0, DataSize),
   context |-> Repeat(0, ContextLen), source |-> <<>>, symbols |-> <<>>]
AsSlot(program) ==
  [valid |-> TRUE, workspace |-> program.workspace, data |-> program.data,
   context |-> program.context, source |-> program.source, symbols |-> program.symbols]
AsProgram(s) ==
  [workspace |-> s.workspace, data |-> s.data, context |-> s.context, source |-> s.source,
   symbols |-> s.symbols]

Waiting == [mode |-> "prompt", partial |-> FALSE, command |-> Plain("none"), buffer |-> <<>>]

(* What the guest writes: without a connection QEMU drops it, and what a   *)
(* terminal shows is of no consequence.                                    *)
Heard(answers) == IF link = "tool" THEN toHost \o answers ELSE toHost

ValidChunkUnbounded(c) == c.length >= 1 /\ c.length <= ChunkMax        \* mutant
ValidChunk(c) == c.length >= 1 /\ c.length <= ChunkMax /\ c.offset + c.length <= Capacity(c.region)

(* The checks and the answer of the commands that leave the slot alone.    *)
ManifestAnswer ==
  IF slot.valid
  THEN Answer("manifest", "", 0,
              <<WorkspaceSize, DataSize, Len(slot.source), Checksum(slot.workspace),
                Checksum(slot.data), ChunkMax>>)
  ELSE Say("error")
DumpAnswer(c) ==
  IF ValidChunk(c) /\ slot.valid
  THEN Answer("chunk", c.region, c.offset,
              SubSeq(Region(slot, c.region), c.offset + 1, c.offset + c.length))
  ELSE Say("error")
MetadataAnswer ==
  IF slot.valid /\ GuestMetadata(slot) # {}
  THEN Answer("metadata", "", 0, <<Len(CHOOSE m \in GuestMetadata(slot) : TRUE), MetaChunk>>)
  ELSE Say("error")
MetadataDumpAnswer(c) ==
  IF /\ slot.valid /\ GuestMetadata(slot) # {}
     /\ c.length >= 1 /\ c.length <= MetaChunk
     /\ \A m \in GuestMetadata(slot) : c.offset + c.length <= Len(m)
  THEN Answer("metachunk", "", c.offset,
              SubSeq(CHOOSE m \in GuestMetadata(slot) : TRUE, c.offset + 1, c.offset + c.length))
  ELSE Say("error")
InfoAnswer(c) ==
  CASE c.kind = "manifest" -> ManifestAnswer
    [] c.kind = "dump" -> DumpAnswer(c)
    [] c.kind = "metadata" -> MetadataAnswer
    [] c.kind = "metadump" -> MetadataDumpAnswer(c)
    [] OTHER -> Say("unknown")

(* Commands a payload follows: refused before it, or ready to read it.     *)
Payload(c) == IF c.kind = "patchrle" THEN c.encoded ELSE c.length
AcceptsPayload(c) ==
  /\ slot.valid
  /\ CASE c.kind = "patchbin" -> ValidChunk(c)
       [] c.kind = "patchrle" -> /\ ValidChunk(c)
                                 /\ c.encoded >= 1 /\ c.encoded < c.length /\ c.encoded % 2 = 0
       [] c.kind = "metaapply" -> c.length >= 1 /\ c.length <= MetadataMax

Done(answers) == guest' = Waiting /\ toHost' = Heard(answers \o <<Prompt>>)

GuestCommand ==
  /\ guest.mode = "prompt" /\ toGuest # <<>>
  /\ LET c == Head(toGuest) IN
     /\ toGuest' = Tail(toGuest)
     /\ CASE c.kind = "partial" ->
               /\ guest' = [guest EXCEPT !.partial = TRUE] /\ toHost' = toHost
               /\ UNCHANGED <<live, slot>>
          [] c.kind = "byte" -> UNCHANGED <<guest, toHost, live, slot>>
          [] c.kind \notin {"partial", "byte"} /\ guest.partial ->
               Done(<<Say("unknown")>>) /\ UNCHANGED <<live, slot>>
          [] c.kind = "save" /\ ~guest.partial ->
               IF live.context[ContextLen] = Breakpoint
               THEN Done(<<Say("saved")>>) /\ slot' = AsSlot(live) /\ UNCHANGED live
               ELSE Done(<<Say("error")>>) /\ UNCHANGED <<live, slot>>
          [] c.kind = "restore" /\ ~guest.partial ->
               IF slot.valid
               THEN Done(<<Say("restored")>>) /\ live' = AsProgram(slot) /\ UNCHANGED slot
               ELSE Done(<<Say("error")>>) /\ UNCHANGED <<live, slot>>
          [] c.kind = "debug" /\ ~guest.partial ->
               Done(<<>>) /\ live' \in Programs /\ UNCHANGED slot
          [] c.kind = "patch" /\ ~guest.partial ->
               IF slot.valid
               THEN Done(<<Say("done")>>) /\ slot' = [slot EXCEPT !.data[1] = c.offset] /\ UNCHANGED live
               ELSE Done(<<Say("error")>>) /\ UNCHANGED <<live, slot>>
          [] c.kind \in {"patchbin", "patchrle", "metaapply"} /\ ~guest.partial ->
               /\ IF AcceptsPayload(c)
                  THEN /\ guest' = [guest EXCEPT !.mode = "payload", !.command = c]
                       /\ toHost' = Heard(<<Ready>>)
                  ELSE Done(<<Say("error")>>)
               /\ UNCHANGED <<live, slot>>
          [] OTHER -> Done(<<InfoAnswer(c)>>) /\ UNCHANGED <<live, slot>>
  /\ UNCHANGED <<link, tool, file, result, histories, left>>

StoreRegion(name, offset, cells) ==
  LET stored(old) == Prefix(old, offset) \o cells \o From(old, offset + Len(cells)) IN
  IF name = "workspace" THEN [slot EXCEPT !.workspace = stored(@)]
  ELSE [slot EXCEPT !.data = stored(@)]

(* The end of patchbin, patchrle and metadata apply: the slot takes the    *)
(* whole payload or none of it.                                            *)
Applied(c, bytes) ==
  CASE c.kind = "patchbin" -> {StoreRegion(c.region, c.offset, bytes)}
    [] c.kind = "patchrle" ->
         {StoreRegion(c.region, c.offset, cells) : cells \in RleDecode(bytes, c.length)}
    [] c.kind = "metaapply" ->
         {[slot EXCEPT !.context = m.context, !.source = m.source, !.symbols = m.symbols] :
            m \in GuestDecode(bytes)}
ApplyPayload(bytes) ==
  IF Applied(guest.command, bytes) = {} THEN slot' = slot /\ Done(<<Say("error")>>)
  ELSE /\ slot' \in Applied(guest.command, bytes)
       /\ Done(<<Say(IF guest.command.kind = "metaapply" THEN "applied" ELSE "patched")>>)

(* bytes more characters of the payload; the index into the receive buffer *)
(* is checked, and its panic handler never returns.                        *)
TakeBytes(bytes) ==
  LET all == guest.buffer \o bytes IN
  IF Len(all) > BufferSize
  THEN guest' = [guest EXCEPT !.mode = "panic"] /\ UNCHANGED <<toHost, slot>>
  ELSE IF Len(all) = Payload(guest.command) THEN ApplyPayload(all)
  ELSE guest' = [guest EXCEPT !.buffer = all] /\ UNCHANGED <<toHost, slot>>

(* uart16550 drain_hardware keeps a Ctrl-C for the target, whatever the    *)
(* reader is reading.                                                      *)
GuestByte ==
  /\ guest.mode = "payload" /\ toGuest # <<>> /\ Head(toGuest).kind = "byte"
  /\ toGuest' = Tail(toGuest)
  /\ IF Head(toGuest).offset = Ctrl
     THEN swallowed' = TRUE /\ UNCHANGED <<guest, toHost, slot>>
     ELSE TakeBytes(<<Head(toGuest).offset>>) /\ UNCHANGED swallowed
  /\ UNCHANGED <<live, link, tool, file, result, typeahead, genuine, left>>

(* A line that is typed while the guest waits for a payload becomes part of*)
(* it: all of it, or as much as was missing, and the rest is a line that   *)
(* no command matches.                                                     *)
Junk == 7
GuestLineAsPayload ==
  /\ guest.mode = "payload" /\ toGuest # <<>> /\ Head(toGuest).kind # "byte"
  /\ LET missing == Payload(guest.command) - Len(guest.buffer) IN
     \E n \in {1, missing} :
       /\ TakeBytes(Repeat(Junk, n))
       /\ toGuest' = IF n = missing /\ Head(toGuest).kind # "partial"
                     THEN <<Plain("junk")>> \o Tail(toGuest) ELSE Tail(toGuest)
  /\ UNCHANGED <<live, link, tool, file, result, histories, left>>

-----------------------------------------------------------------------------
(* The tool.                                                               *)

Exports == {"exportSnapshot", "exportProject"}
Imports == {"importSnapshot", "importProject"}
NoTool == [op |-> "none", stage |-> "idle", sent |-> FALSE, next |-> 0, got |-> <<>>,
           lengths |-> <<>>, image |-> <<>>, content |-> {}]

(* What an import found in its file.                                       *)
Decoded(op) ==
  IF op = "importSnapshot" THEN {[image |-> i] : i \in ImageDecode(file)} ELSE ProjectDecode(file)

(* The chunks of both regions in the order they are sent or asked for.     *)
ChunksOf(name, size, step) ==
  [i \in 1 .. (size + step - 1) \div step |->
     [region |-> name, offset |-> (i - 1) * step,
      length |-> IF i * step <= size THEN step ELSE size - (i - 1) * step]]
Chunks(w, d, step) == ChunksOf("workspace", w, step) \o ChunksOf("data", d, step)

RleShorter(cells) == Len(RleEncode(cells)) < Len(cells)

(* The command a stage sends, and the bytes that follow a `ready'.         *)
ChunkCells(image, k) == SubSeq(Region(image, k.region), k.offset + 1, k.offset + k.length)
MetadataOf(project) == CHOOSE m \in MetadataEncode(project.metadata) : TRUE
Content(t) == CHOOSE x \in t.content : TRUE
FetchChunk(t) == Chunks(t.lengths[1], t.lengths[2], t.lengths[6])[t.next]
ApplyChunk(t) ==
  Chunks(Len(Content(t).image.workspace), Len(Content(t).image.data), ChunkMax)[t.next]
Sends(t) ==
  CASE t.stage = "fetch" ->
         Command("dump", FetchChunk(t).region, FetchChunk(t).offset, FetchChunk(t).length, 0)
    [] t.stage = "metafetch" ->
         Command("metadump", "", t.next, IF t.lengths[1] - t.next < t.lengths[2]
                                         THEN t.lengths[1] - t.next ELSE t.lengths[2], 0)
    [] t.stage = "apply" ->
         LET k == ApplyChunk(t)
             cells == ChunkCells(Content(t).image, k)
         IN IF RleShorter(cells)
            THEN Command("patchrle", k.region, k.offset, k.length, Len(RleEncode(cells)))
            ELSE Command("patchbin", k.region, k.offset, k.length, 0)
    [] t.stage = "metaapply" -> Command("metaapply", "", 0, Len(MetadataOf(Content(t))), 0)
    [] OTHER -> Plain(t.stage)
Follows(t) ==
  IF t.stage = "metaapply" THEN MetadataOf(Content(t))
  ELSE LET cells == ChunkCells(Content(t).image, ApplyChunk(t)) IN
       IF RleShorter(cells) THEN RleEncode(cells) ELSE cells

(* Where in what it has received the tool stops reading: at a prompt, or   *)
(* at a `ready' when it has a payload to send.                             *)
Binary(t) == t.stage \in {"apply", "metaapply"} /\ ~t.sent
MarkerOnlyReady(a) == a = IF Binary(tool) THEN Ready ELSE Prompt   \* mutant
Marker(a) == a = Prompt \/ (a = Ready /\ Binary(tool))
MarkerAt == CHOOSE i \in DOMAIN toHost : Marker(toHost[i]) /\ \A k \in 1 .. i - 1 : ~Marker(toHost[k])
Rest == From(toHost, MarkerAt)
Said(kind) == \E i \in 1 .. MarkerAt - 1 : toHost[i].kind = kind
FirstOf(kind) ==
  toHost[CHOOSE i \in 1 .. MarkerAt - 1 :
           toHost[i].kind = kind /\ \A k \in 1 .. i - 1 : toHost[k].kind # kind]

(* command: the line goes out and the tool waits again.                    *)
GoTo(t) ==
  /\ tool' = [t EXCEPT !.sent = FALSE]
  /\ toGuest' = Append(toGuest, Sends(t)) /\ toHost' = Rest
  /\ UNCHANGED <<link, file, genuine, result>>

(* Every way out closes the connection: the process ends.                  *)
Leave(told) ==
  /\ tool' = NoTool /\ result' = told
  /\ link' = "none" /\ toHost' = <<>> /\ UNCHANGED toGuest
Fail == Leave("failed") /\ UNCHANGED <<file, genuine>>
WriteFile(contents) == Leave("exported") /\ file' = contents /\ genuine' = contents

ConfirmsAnything(kind) == TRUE                              \* mutant
Confirms(kind) == ~Said("error") /\ Said(kind)

(* apply_region chunk by chunk, then the metadata of a project, then the   *)
(* one command that makes it all live.                                     *)
Applying(t, k) ==
  LET image == Content(t).image IN
  IF k <= Len(Chunks(Len(image.workspace), Len(image.data), ChunkMax))
  THEN [t EXCEPT !.stage = "apply", !.next = k]
  ELSE [t EXCEPT !.stage = IF t.op = "importProject" THEN "metaapply" ELSE "restore"]

(* `snapshot save' is only refused for an `error [', which the answer to   *)
(* an unknown command does not hold.                                       *)
SaveUnchecked == TRUE                                       \* mutant
SaveAccepted == ~Said("error")
HearSave ==
  IF ~SaveAccepted THEN Fail
  ELSE IF tool.op \in Exports THEN GoTo([tool EXCEPT !.stage = "manifest"])
  ELSE GoTo(Applying(tool, 1))

(* parse_manifest.                                                         *)
HearManifest ==
  IF /\ Said("manifest")
     /\ LET fields == FirstOf("manifest").cells IN
        ValidLengths(fields[1], fields[2]) /\ fields[6] \in 1 .. ChunkMax
  THEN GoTo([tool EXCEPT !.stage = "fetch", !.next = 1, !.lengths = FirstOf("manifest").cells])
  ELSE Fail

(* fetch_region and parse_chunk, then the checksums of the manifest.       *)
ChunkFits(a) ==
  LET k == FetchChunk(tool) IN
  a.region = k.region /\ a.offset = k.offset /\ Len(a.cells) = k.length
Fetched == tool.got \o FirstOf("chunk").cells
FetchedImage ==
  [workspace |-> Prefix(Fetched, tool.lengths[1]), data |-> From(Fetched, tool.lengths[1]),
   lines |-> tool.lengths[3]]
ChecksumsAgree(image) ==
  Checksum(image.workspace) = tool.lengths[4] /\ Checksum(image.data) = tool.lengths[5]
HearFetch ==
  IF ~Said("chunk") \/ ~ChunkFits(FirstOf("chunk")) THEN Fail
  ELSE IF tool.next < Len(Chunks(tool.lengths[1], tool.lengths[2], tool.lengths[6]))
       THEN GoTo([tool EXCEPT !.next = @ + 1, !.got = Fetched])
  ELSE IF ~ChecksumsAgree(FetchedImage) THEN Fail
  ELSE IF tool.op = "exportProject"
       THEN GoTo([tool EXCEPT !.stage = "metadata", !.image = <<FetchedImage>>])
  ELSE \E contents \in ImageEncode(FetchedImage) : WriteFile(contents)

(* parse_metadata_manifest.                                                *)
HearMetadata ==
  IF /\ Said("metadata")
     /\ FirstOf("metadata").cells[1] \in 1 .. HostMetadata
     /\ FirstOf("metadata").cells[2] \in 1 .. MetaChunk
  THEN GoTo([tool EXCEPT !.stage = "metafetch", !.next = 0, !.got = <<>>,
                         !.lengths = FirstOf("metadata").cells])
  ELSE Fail

(* fetch_guest_metadata and parse_metadata_chunk.                          *)
MetaFetched == tool.got \o FirstOf("metachunk").cells
HearMetadataFetch ==
  IF \/ ~Said("metachunk") \/ FirstOf("metachunk").offset # tool.next
     \/ Len(FirstOf("metachunk").cells) # Sends(tool).length
  THEN Fail
  ELSE IF Len(MetaFetched) < tool.lengths[1]
       THEN GoTo([tool EXCEPT !.next = Len(MetaFetched), !.got = MetaFetched])
  ELSE IF MetadataDecode(MetaFetched, HostLimits) = {} THEN Fail
  ELSE \E m \in MetadataDecode(MetaFetched, HostLimits) :
         \E contents \in ProjectEncode([image |-> tool.image[1], metadata |-> m]) :
           WriteFile(contents)

HearApply == IF Confirms("patched") THEN GoTo(Applying(tool, tool.next + 1)) ELSE Fail
HearMetaApply == IF Confirms("applied") THEN GoTo([tool EXCEPT !.stage = "restore"]) ELSE Fail
HearRestore ==
  IF Confirms("restored") THEN Leave("imported") /\ UNCHANGED <<file, genuine>> ELSE Fail

(* command_binary: the payload goes out once the guest is ready for it.    *)
SendPayload ==
  /\ tool' = [tool EXCEPT !.sent = TRUE]
  /\ \E bytes \in {Follows(tool)} : toGuest' = toGuest \o [i \in DOMAIN bytes |-> Byte(bytes[i])]
  /\ toHost' = Rest
  /\ UNCHANGED <<link, file, genuine, result>>

ToolHear ==
  /\ tool.stage # "idle" /\ \E i \in DOMAIN toHost : Marker(toHost[i])
  /\ IF toHost[MarkerAt] = Ready THEN SendPayload
     ELSE CASE tool.stage = "connect" -> GoTo([tool EXCEPT !.stage = "save"])
            [] tool.stage = "save" -> HearSave
            [] tool.stage = "manifest" -> HearManifest
            [] tool.stage = "fetch" -> HearFetch
            [] tool.stage = "metadata" -> HearMetadata
            [] tool.stage = "metafetch" -> HearMetadataFetch
            [] tool.stage = "apply" -> HearApply
            [] tool.stage = "metaapply" -> HearMetaApply
            [] tool.stage = "restore" -> HearRestore
  /\ UNCHANGED <<live, slot, guest, swallowed, typeahead, left>>

(* The file of an import is decoded before the tool connects; the tool     *)
(* then waits for a prompt, and the guest writes none of its own accord.   *)
PartialLine == guest.partial \/ \E i \in DOMAIN toGuest : toGuest[i].kind = "partial"
ToolStart(op) ==
  /\ tool.stage = "idle" /\ link = "none" /\ left.runs > 0
  /\ left' = [left EXCEPT !.runs = @ - 1]
  /\ IF op \in Imports /\ Decoded(op) = {}
     THEN result' = "failed" /\ UNCHANGED <<tool, link, swallowed, typeahead>>
     ELSE /\ tool' = [NoTool EXCEPT !.op = op, !.stage = "connect",
                                   !.content = IF op \in Imports THEN Decoded(op) ELSE {}]
          /\ result' = "none" /\ link' = "tool"
          /\ swallowed' = FALSE /\ typeahead' = PartialLine
  /\ UNCHANGED <<live, slot, guest, toGuest, toHost, file, genuine>>

-----------------------------------------------------------------------------
(* The user and the network.                                               *)

Happens == left.events > 0 /\ left' = [left EXCEPT !.events = @ - 1]
Outside == UNCHANGED <<live, slot, guest, result, histories>>

TerminalOpen ==
  /\ link = "none" /\ left.events > 0 /\ link' = "terminal" /\ toHost' = <<>>
  /\ UNCHANGED <<toGuest, tool, file, left>> /\ Outside
TerminalType(c) ==
  /\ link = "terminal" /\ Happens
  /\ toGuest' = Append(toGuest, c)
  /\ UNCHANGED <<toHost, link, tool, file>> /\ Outside
TerminalClose ==
  /\ link = "terminal" /\ link' = "none"
  /\ UNCHANGED <<toGuest, toHost, tool, file, left>> /\ Outside

(* The tool is killed, or the connection breaks: some of what it sent may  *)
(* still arrive, what it had not read is gone.                             *)
Drop ==
  /\ link = "tool" /\ Happens
  /\ \E n \in 0 .. Len(toGuest) : toGuest' = Prefix(toGuest, n)
  /\ toHost' = <<>> /\ link' = "none" /\ tool' = NoTool /\ result' = "failed"
  /\ UNCHANGED <<live, slot, guest, file, histories>>

(* One field or cell of the file changes, its last is lost, or one is added.*)
Corrupt ==
  /\ tool.stage = "idle" /\ file # <<>>
  /\ Happens
  /\ \/ \E i \in DOMAIN file : file' = [file EXCEPT ![i] = @ + 1]
     \/ file' = Prefix(file, Len(file) - 1)
     \/ file' = Append(file, 0)
  /\ UNCHANGED <<live, slot, guest, line, tool, result, histories>>

-----------------------------------------------------------------------------
(* QEMU waits for the first connection, which gets the first prompt.       *)
Init ==
  /\ live \in Programs /\ slot = EmptySlot /\ guest = Waiting
  /\ toGuest = <<>> /\ toHost = <<Prompt>> /\ link = "none"
  /\ tool = NoTool /\ file \in Files /\ genuine = file /\ result = "none"
  /\ swallowed = FALSE /\ typeahead = FALSE
  /\ left = [runs |-> Runs, events |-> Events]

Guest == GuestCommand \/ GuestByte \/ GuestLineAsPayload
User ==
  \/ \E op \in Exports \cup Imports : ToolStart(op)
  \/ TerminalOpen \/ TerminalClose \/ \E c \in Typed : TerminalType(c)
Next == Guest \/ ToolHear \/ User \/ Drop \/ Corrupt
Spec == Init /\ [][Next]_vars

(* The guest polls its line and the tool reads its socket; the user need   *)
(* not do anything.                                                        *)
FairSpec == Spec /\ WF_vars(Guest) /\ WF_vars(ToolHear)

-----------------------------------------------------------------------------
(* Properties.                                                             *)

(* Types; the two regions of the slot keep their size, and a binary        *)
(* payload stays within what its command announced, whatever cut it short  *)
(* and whatever was typed into it.                                         *)
GuestLoop ==
  [mode : {"prompt", "payload", "panic"}, partial : BOOLEAN, command : GuestLine, buffer : Seq(Nat)]
Stages == {"idle", "connect", "save", "manifest", "fetch", "metadata", "metafetch", "apply",
           "metaapply", "restore"}
Tool == [op : Exports \cup Imports \cup {"none"}, stage : Stages, sent : BOOLEAN, next : Nat,
         got : Seq(Nat), lengths : Seq(Nat), image : Seq(Image),
         content : SUBSET ([image : Image] \cup Project)]
TypeOK ==
  /\ live \in Program /\ slot \in Slot /\ guest \in GuestLoop
  /\ toGuest \in Seq(GuestLine) /\ toHost \in Seq(GuestAnswer) /\ link \in {"none", "tool", "terminal"}
  /\ tool \in Tool /\ file \in Seq(Nat) /\ genuine \in Seq(Nat)
  /\ result \in {"none", "failed", "exported", "imported"}
  /\ swallowed \in BOOLEAN /\ typeahead \in BOOLEAN /\ left \in [runs : Nat, events : Nat]
  /\ tool.stage = "idle" <=> link # "tool"
  /\ guest.mode = "payload" => Len(guest.buffer) < Payload(guest.command)

(* Does the program p hold the image, and the metadata?                    *)
HoldsImage(p, image) ==
  /\ Prefix(p.workspace, Len(image.workspace)) = image.workspace
  /\ Prefix(p.data, Len(image.data)) = image.data
HoldsMetadata(p, m) ==
  p.context = m.context /\ SourceOf(p.source) = m.source /\ p.symbols = m.symbols
Keeps(p, q) == p.context = q.context /\ p.source = q.source /\ p.symbols = q.symbols

(* `exported' is only ever told of a file that holds the program of the    *)
(* target: no answer to an earlier line, chunk of another save or partial  *)
(* transfer is taken for it.                                               *)
Exported(op) ==
  /\ op = "exportSnapshot" =>
       \E image \in ImageDecode(file') : HoldsImage(live, image) /\ Len(image.workspace) = WorkspaceSize
  /\ op = "exportProject" =>
       \E p \in ProjectDecode(file') : HoldsImage(live, p.image) /\ HoldsMetadata(live, p.metadata)

(* `snapshot save' comes before the collection, whatever was on the line.  *)
ExportIsFaithful ==
  [][result' = "exported" /\ result # "exported" => Exported(tool.op)]_vars

(* It does when the connection does not start on a line already begun.     *)
ExportedIsLive ==
  [][result' = "exported" /\ result # "exported" /\ ~typeahead => Exported(tool.op)]_vars

(* What an import makes live is the whole file, byte for byte as it was    *)
(* written, with the context and the source it found, or those of the      *)
(* project; and it does so in one step, after the last chunk.              *)
GenuineImage(op) ==
  IF op = "importSnapshot" THEN ImageDecode(genuine)
  ELSE {p.image : p \in ProjectDecode(genuine)}
RestoresTheFile ==
  [][live' # live /\ tool.stage = "restore" =>
       /\ \E image \in GenuineImage(tool.op) : HoldsImage(live', image)
       /\ tool.op = "importSnapshot" /\ ~typeahead => Keeps(live', live)
       /\ tool.op = "importProject" =>
            \E p \in ProjectDecode(file) : HoldsMetadata(live', p.metadata)]_vars

(* `imported' is told after the file was made live, not before.            *)
ImportedIsLive ==
  [][result' = "imported" /\ result # "imported" =>
       \E image \in GenuineImage(tool.op) : HoldsImage(live, image)]_vars

(* A run of the tool ends, unless the guest has nothing to say to it: it   *)
(* has no prompt to write to this connection, it reads a payload someone   *)
(* else announced, it panicked over an oversized one, or a byte of the     *)
(* tool's own payload was taken for a Ctrl-C.                              *)
NoPromptToCome ==
  tool.stage = "connect" /\ toGuest = <<>> /\ ~ \E i \in DOMAIN toHost : toHost[i] = Prompt
PayloadOfAnother == guest.mode = "payload" /\ tool.stage \notin {"apply", "metaapply"}
ToolEnds ==
  tool.stage # "idle" ~>
    \/ tool.stage = "idle"
    \/ NoPromptToCome \/ PayloadOfAnother \/ swallowed \/ guest.mode = "panic"

(* The documented use: what was exported can be imported.                  *)
ProjectImportEnds ==
  (tool.op = "importProject" /\ tool.stage = "metaapply") ~> (tool.stage # "metaapply")
=============================================================================
