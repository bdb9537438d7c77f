---------------------------- MODULE GuestSnapshot ----------------------------
(***************************************************************************)
(* The snapshot slot of the guest monitor beside its debugger              *)
(* (crates/guest-monitor/src/main.rs, `snapshot ...' and `project ...'):   *)
(* GUEST_SNAPSHOT is a second copy of the target regions, of the context   *)
(* and of the breakpoint and watchpoint tables, which `snapshot save'      *)
(* fills with the patches taken out, the host tool rewrites in place, and  *)
(* `snapshot restore' puts back with the patches in.                       *)
(*                                                                         *)
(* Every command of GuestDebug is kept as it is: it leaves the slot alone. *)
(* The source text and the symbols, which the slot carries too, are data   *)
(* no step of the debugger reads; SnapshotTransfer follows them.           *)
(***************************************************************************)
EXTENDS GuestDebug

CONSTANTS Patches,   \* words the host tool writes in the slot
          Contexts   \* [pc, x, mcause] a metadata payload may hold

VARIABLE slot        \* GUEST_SNAPSHOT

Regions == Workspace \cup Data

Context == [pc : Address, x : Regs, mcause : {"break", "ecall", "fault"}]

Slot == [valid : BOOLEAN, text : [Regions -> Word],
         permanent : [Slots -> Breakpoint], watch : [WatchSlots -> Watchpoint],
         context : Context]

ASSUME SnapshotAssumption == Patches \subseteq Word /\ Contexts \subseteq Context

(* GuestSnapshot::empty.                                                   *)
EmptySlot ==
  [valid |-> FALSE, text |-> [a \in Regions |-> Zero],
   permanent |-> [s \in Slots |-> Disabled], watch |-> [i \in WatchSlots |-> NoWatch],
   context |-> [pc |-> 0, x |-> ResetRegs, mcause |-> "fault"]]

Covered(s) == permanent[s].enabled /\ permanent[s].address \in Regions

SavedWithPatches == [a \in Regions |-> mem[a]]              \* mutant

(* The two regions, with the words the kept breakpoints hide put back.     *)
SavedText ==
  [a \in Regions |-> IF HasPermanent(a) THEN permanent[PermanentAt(a)].original ELSE mem[a]]

SaveSnapshot ==
  /\ Stopped
  /\ slot' = [valid |-> TRUE, text |-> SavedText,
              permanent |-> [s \in Slots |-> IF Covered(s) THEN permanent[s] ELSE Disabled],
              watch |-> watch, context |-> [pc |-> pc, x |-> x, mcause |-> mcause]]
  /\ UNCHANGED vars

(* snapshot patch, patchbin and patchrle look at the bounds only: not at   *)
(* the breakpoint records of the slot.                                     *)
PatchSnapshot(a, w) ==
  /\ AtPrompt /\ slot.valid
  /\ slot' = [slot EXCEPT !.text[a] = w]
  /\ UNCHANGED vars

(* snapshot metadata apply: any context that decodes.                      *)
ApplyMetadata(c) ==
  /\ AtPrompt /\ slot.valid
  /\ slot' = [slot EXCEPT !.context = c]
  /\ UNCHANGED vars

SlotArms(a) == \E s \in Slots : slot.permanent[s].enabled /\ slot.permanent[s].address = a

(* What restoring cannot keep whole: a breakpoint set since the save, or   *)
(* not kept by it, in code the slot does not cover, whose EBREAK stays in  *)
(* memory without a record; a record that holds the word of before a patch.*)
Forgets == \E s \in Slots : permanent[s].enabled /\ permanent[s].address \notin Regions
Outdated ==
  \E s \in Slots : /\ slot.permanent[s].enabled
                   /\ slot.permanent[s].original # slot.text[slot.permanent[s].address]

RestoreUnarmed == Over(slot.text, mem)                      \* mutant
RestoredMem ==
  [a \in Ram |-> IF a \notin Regions THEN mem[a]
                 ELSE IF SlotArms(a) THEN EBREAK ELSE slot.text[a]]

(* restore_guest_snapshot asks nothing of the target: it may be stopped by *)
(* a fault.  STEPIDP_ACTIVE keeps the value it has.                        *)
RestoreSnapshot ==
  /\ AtPrompt /\ slot.valid
  /\ mem' = RestoredMem /\ image' = Over(slot.text, image)
  /\ permanent' = slot.permanent /\ temporary' = Disabled /\ stepped' = 0
  /\ watch' = slot.watch /\ run' = 0 /\ undo' = NoUndo
  /\ pc' = slot.context.pc /\ x' = slot.context.x /\ mcause' = slot.context.mcause
  /\ breach' = breach \cup (IF Forgets THEN {"restore"} ELSE {})
                      \cup (IF Outdated THEN {"patch"} ELSE {})
  /\ UNCHANGED <<mode, stepidp, fresh, retired, order, stale, slot>>

SnapshotCommand ==
  \/ SaveSnapshot \/ RestoreSnapshot
  \/ \E a \in Regions, w \in Patches : PatchSnapshot(a, w)
  \/ \E c \in Contexts : ApplyMetadata(c)

SnapInit == Init /\ slot = EmptySlot
DebugStep == Next /\ UNCHANGED slot
SnapNext == DebugStep \/ SnapshotCommand
snapVars == <<vars, slot>>
SnapSpec == SnapInit /\ [][SnapNext]_snapVars

-----------------------------------------------------------------------------
(* Properties.                                                             *)

SlotType == slot \in Slot

(* The records of the slot are of breakpoints it covers, no two alike.     *)
SlotRecords ==
  \A r, s \in Slots :
    slot.permanent[s].enabled =>
      /\ slot.permanent[s].address \in Regions
      /\ slot.permanent[r].enabled /\ slot.permanent[r].address = slot.permanent[s].address
           => r = s

(* The debugger's inductive invariant survives saving, rewriting and       *)
(* restoring: memory is still the program with an EBREAK at each           *)
(* breakpoint and nowhere else, the records hold what the EBREAKs hide.    *)
SnapInv == Inv /\ SlotType /\ SlotRecords

(* A restore gives back the saved program, its breakpoints and its context *)
(* as one, none of the three without the others; no command between them   *)
(* lets the slot and the live program touch.                               *)
SavedContract == INSTANCE SnapshotContract WITH
  running <- mode = "target" \/ (mode = "trap" /\ mcause = "ecall"),
  breaks <- {a \in Ram : HasPermanent(a)},
  wild <- breach # {},
  saved <- [valid |-> slot.valid, image |-> slot.text,
            breaks |-> {a \in Ram : SlotArms(a)},
            pc |-> slot.context.pc, x |-> slot.context.x]
ImplementsSnapshotContract == SavedContract!SnapSpec

=============================================================================
