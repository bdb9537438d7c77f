------------------------- MODULE MCSnapshotTransfer -------------------------
(***************************************************************************)
(* Small instances of SnapshotTransfer: a workspace of five cells, sent in *)
(* two chunks, and three cells of data, sent in one.                       *)
(***************************************************************************)
EXTENDS SnapshotTransfer

MCHostLimits == [source |-> 4, symbols |-> 1, name |-> 2]
MCGuestLimits == [source |-> 6, symbols |-> 2, name |-> 1]

Holding(w, d, mcause, source, symbols) ==
  [workspace |-> w, data |-> d, context |-> <<80, mcause>>, source |-> source,
   symbols |-> symbols]
Named(name) == [address |-> 40, name |-> name]

(* A program whose chunks are sent packed, but for the last of one cell;   *)
(* one that holds a Ctrl-C, with the two source lines and the symbol a     *)
(* file may hold; one whose data is a run of three, and that is stopped by *)
(* a fault.                                                                *)
Packed == Holding(<<0, 0, 0, 0, 5>>, <<1, 2, 1>>, Breakpoint, <<>>, <<>>)
Mixed == Holding(<<1, 2, 1, 2, 4>>, <<2, Ctrl, 2>>, Breakpoint, <<<<6>>, <<8, 8>>>>, <<Named(<<9>>)>>)
Faulted == Holding(<<2, 2, 2, 2, 2>>, <<0, 0, 0>>, 2, <<<<6>>>>, <<>>)
(* A program beyond what the host accepts.                                 *)
Wordy == Holding(<<0, 1, 0, 1, 0>>, <<1, 1, 0>>, Breakpoint, <<<<6, 6>>, <<8, 8>>>>,
                 <<Named(<<9>>), Named(<<8>>)>>)

(* A project of another tool, whose context is not that of a breakpoint,   *)
(* and an image shorter than the regions.                                  *)
Crafted ==
  CHOOSE f \in ProjectEncode([image |-> [workspace |-> <<4, 4, 4, 4, 4>>, data |-> <<5>>, lines |-> 1],
    metadata |-> [context |-> <<80, 0>>, source |-> <<6, Newline, 8>>, symbols |-> <<>>]]) : TRUE

MCPrograms == {Packed, Mixed, Faulted, Wordy}
MCFiles == {<<>>, Crafted}

(* A project the tool exported: its context is one of a breakpoint.        *)
MCExported ==
  ProjectEncode([image |-> [workspace |-> <<1, 2, 1, 2, 4>>, data |-> <<2, 4, 2>>, lines |-> 1],
    metadata |-> [context |-> <<80, Breakpoint>>, source |-> <<6>>, symbols |-> <<>>]])
MCTyped == {Plain("save"), Plain("debug"), Plain("partial"), Plain("restore"),
            Command("patchbin", "data", 3, 1, 0), Command("metaapply", "", 0, 15, 0),
            Command("patch", "data", 1, 1, 0)}
=============================================================================
