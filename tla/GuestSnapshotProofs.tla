------------------------- MODULE GuestSnapshotProofs -------------------------
(***************************************************************************)
(* What is proved of GuestSnapshot, for every value of its constants: the  *)
(* inductive invariant of the debugger holds beside the snapshot slot, and *)
(* the two together implement SnapshotContract.                            *)
(***************************************************************************)
EXTENDS GuestDebugRefinement, GuestSnapshot

(* Regions is made of words of RAM.                                        *)
LEMMA RegionsInRam == Regions \subseteq Ram
BY RamAssumption DEF Regions

LEMMA SnapInitInv == SnapInit => SnapInv
<1> SUFFICES ASSUME SnapInit PROVE SnapInv
  OBVIOUS
<1>1. Inv
  BY InitInv DEF SnapInit
<1>2. slot.context \in Context /\ slot.text \in [Regions -> Word]
  BY ConstantTypes, WordAssumption DEF SnapInit, EmptySlot, Context
<1>3. /\ slot.permanent \in [Slots -> Breakpoint]
      /\ slot.watch \in [WatchSlots -> Watchpoint]
  BY EmptyRecords, ConstantTypes DEF SnapInit, EmptySlot, NoWatch, Watchpoint
<1>4. SlotType
  BY <1>2, <1>3 DEF SlotType, Slot, SnapInit, EmptySlot
<1>5. SlotRecords
  BY DEF SlotRecords, SnapInit, EmptySlot, Disabled
<1> QED BY <1>1, <1>4, <1>5 DEF SnapInv

(* The slot as saving leaves it.                                           *)
LEMMA SaveSlot ==
  ASSUME SnapInv, SaveSnapshot
  PROVE  SlotType' /\ SlotRecords'
<1>1. TypeOK /\ BreakpointsDisjoint
  BY DEF SnapInv, Inv
<1>2. SavedText \in [Regions -> Word]
  <2> SUFFICES ASSUME NEW a \in Regions
               PROVE  (IF HasPermanent(a) THEN permanent[PermanentAt(a)].original
                       ELSE mem[a]) \in Word
    BY DEF SavedText
  <2> QED BY <1>1, RegionsInRam, PermanentAtFound DEF TypeOK, Breakpoint
<1>3. [s \in Slots |-> IF Covered(s) THEN permanent[s] ELSE Disabled] \in [Slots -> Breakpoint]
  BY <1>1, EmptyRecords DEF TypeOK
<1>4. [pc |-> pc, x |-> x, mcause |-> mcause] \in Context
  BY <1>1 DEF TypeOK, Context
<1>5. SlotType'
  BY <1>1, <1>2, <1>3, <1>4 DEF SlotType, Slot, SaveSnapshot, TypeOK
<1>6. SlotRecords'
  <2> SUFFICES ASSUME NEW r \in Slots, NEW s \in Slots, slot'.permanent[s].enabled
               PROVE  /\ slot'.permanent[s].address \in Regions
                      /\ slot'.permanent[r].enabled
                         /\ slot'.permanent[r].address = slot'.permanent[s].address => r = s
    BY DEF SlotRecords
  <2>1. slot'.permanent = [q \in Slots |-> IF Covered(q) THEN permanent[q] ELSE Disabled]
    BY DEF SaveSnapshot
  <2>2. Covered(s) /\ slot'.permanent[s] = permanent[s]
    BY <2>1 DEF Disabled
  <2>3. slot'.permanent[r].enabled => Covered(r) /\ slot'.permanent[r] = permanent[r]
    BY <2>1 DEF Disabled
  <2> QED BY <1>1, <2>2, <2>3 DEF Covered, BreakpointsDisjoint
<1> QED BY <1>5, <1>6

(* Patches and metadata change the text or the context of the slot only.   *)
LEMMA PatchSlot ==
  ASSUME SnapInv, NEW a \in Regions, NEW w \in Patches, PatchSnapshot(a, w)
  PROVE  SlotType' /\ SlotRecords'
<1>1. w \in Word /\ slot \in Slot
  BY SnapshotAssumption DEF SnapInv, SlotType
<1>2. slot' \in Slot /\ slot'.permanent = slot.permanent
  BY <1>1 DEF PatchSnapshot, Slot
<1> QED BY <1>2 DEF SlotType, SlotRecords, SnapInv

LEMMA MetadataSlot ==
  ASSUME SnapInv, NEW c \in Contexts, ApplyMetadata(c)
  PROVE  SlotType' /\ SlotRecords'
<1>1. c \in Context /\ slot \in Slot
  BY SnapshotAssumption DEF SnapInv, SlotType
<1>2. slot' \in Slot /\ slot'.permanent = slot.permanent
  BY <1>1 DEF ApplyMetadata, Slot
<1> QED BY <1>2 DEF SlotType, SlotRecords, SnapInv

(* A restored breakpoint has the word of the slot it was saved from.       *)
LEMMA SlotArmed ==
  ASSUME SnapInv, RestoreSnapshot, NEW a \in Ram
  PROVE  /\ HasPermanent(a)' <=> SlotArms(a)
         /\ SlotArms(a) => a \in Regions
<1>1. permanent' = slot.permanent
  BY DEF RestoreSnapshot
<1> QED BY <1>1 DEF HasPermanent, PermanentOn, SlotArms, SnapInv, SlotRecords

LEMMA RestoreTypes ==
  ASSUME SnapInv, RestoreSnapshot
  PROVE  TypeOK'
<1>1. TypeOK /\ slot \in Slot
  BY DEF SnapInv, Inv, SlotType
<1>2. /\ slot.text \in [Regions -> Word] /\ slot.context \in Context
      /\ slot.permanent \in [Slots -> Breakpoint] /\ slot.watch \in [WatchSlots -> Watchpoint]
  BY <1>1 DEF Slot
<1>3. mem' \in [Ram -> Word]
  <2>1. \A a \in Ram : RestoredMem[a] \in Word
    BY <1>1, <1>2, ConstantTypes DEF RestoredMem, TypeOK
  <2> QED BY <2>1 DEF RestoreSnapshot, RestoredMem
<1>4. image' \in [Ram -> Word]
  BY <1>1, <1>2 DEF RestoreSnapshot, Over, TypeOK
<1>5. mem' \in [Ram -> Word] /\ image' \in [Ram -> Word] /\ pc' \in Address /\ x' \in Regs
      /\ mcause' \in {"break", "ecall", "fault"} /\ mode' \in {"target", "trap", "monitor"}
  BY <1>1, <1>2, <1>3, <1>4 DEF RestoreSnapshot, Context, TypeOK
<1>6. temporary' \in Breakpoint /\ permanent' \in [Slots -> Breakpoint]
      /\ stepped' \in Slots \cup {0} /\ run' \in Nat /\ watch' \in [WatchSlots -> Watchpoint]
      /\ undo' \in [valid : BOOLEAN, address : Ram, original : Word, edited : Word]
  BY <1>2, EmptyRecords DEF RestoreSnapshot, Undo
<1>7. breach' \subseteq Gaps
  BY <1>1 DEF RestoreSnapshot, TypeOK, Gaps
<1> QED BY <1>1, <1>5, <1>6, <1>7 DEF RestoreSnapshot, TypeOK

LEMMA RestoreExact ==
  ASSUME SnapInv, RestoreSnapshot, breach' = {}
  PROVE  PatchesExact' /\ RecordsExact' /\ SteppedCrossing'
<1>1. breach = {} /\ ~Forgets /\ ~Outdated
  BY DEF RestoreSnapshot
<1>2. PatchesExact /\ RecordsExact /\ ~temporary.enabled /\ stepped = 0 /\ TypeOK
  BY <1>1 DEF SnapInv, Inv, QuietPrompt, RestoreSnapshot, AtPrompt
<1>3. slot.text \in [Regions -> Word] /\ slot.permanent \in [Slots -> Breakpoint]
  BY DEF SnapInv, SlotType, Slot
<1>4. ~temporary'.enabled /\ stepped' = 0 /\ permanent' = slot.permanent
  BY DEF RestoreSnapshot, Disabled
<1>5. PatchesExact'
  <2> SUFFICES ASSUME NEW a \in Ram
               PROVE  mem'[a] = IF Patched(a)' THEN EBREAK ELSE image'[a]
    BY DEF PatchesExact
  <2>1. Patched(a)' <=> SlotArms(a)
    BY <1>4, SlotArmed, SlotNotZero DEF Patched, HasTemporary, HasPermanent
  <2>2. mem'[a] = RestoredMem[a]
        /\ image'[a] = IF a \in Regions THEN slot.text[a] ELSE image[a]
    BY <1>2, <1>3 DEF RestoreSnapshot, Over, TypeOK
  <2>3. a \notin Regions => mem[a] = image[a]
    BY <1>1, <1>2 DEF Forgets, PatchesExact, Patched, HasTemporary, PermanentOn
  <2> QED BY <2>1, <2>2, <2>3, SlotArmed DEF RestoredMem
<1>6. RecordsExact'
  <2> SUFFICES ASSUME NEW s \in Slots, permanent'[s].enabled
               PROVE  permanent'[s].original = image'[permanent'[s].address]
    BY <1>4 DEF RecordsExact
  <2>1. slot.permanent[s].address \in Regions
        /\ slot.permanent[s].original = slot.text[slot.permanent[s].address]
    BY <1>1, <1>4 DEF Outdated, SnapInv, SlotRecords
  <2> QED BY <1>2, <1>3, <1>4, <2>1, RegionsInRam DEF RestoreSnapshot, Over, TypeOK
<1>7. SteppedCrossing'
  BY <1>4 DEF SteppedCrossing
<1> QED BY <1>5, <1>6, <1>7

LEMMA RestoreInv == ASSUME SnapInv, RestoreSnapshot PROVE SnapInv'
<1>1. TypeOK'
  BY RestoreTypes
<1>2. BreakpointsDisjoint'
  BY DEF BreakpointsDisjoint, RestoreSnapshot, Disabled, SnapInv, SlotRecords
<1>3. UndoClearOfBreakpoints' /\ QuietPrompt' /\ TrapExplained'
  BY DEF UndoClearOfBreakpoints, QuietPrompt, TrapExplained, RestoreSnapshot, Disabled, NoUndo,
         AtPrompt
<1>4. breach' = {} => PatchesExact' /\ RecordsExact' /\ SteppedCrossing'
  BY RestoreExact
<1>5. SlotType' /\ SlotRecords'
  BY DEF RestoreSnapshot, SnapInv, SlotType, SlotRecords
<1> QED BY <1>1, <1>2, <1>3, <1>4, <1>5 DEF SnapInv, Inv

LEMMA SlotKept == SnapInv /\ UNCHANGED slot => SlotType' /\ SlotRecords'
BY DEF SnapInv, SlotType, SlotRecords

LEMMA SnapNextInv == ASSUME SnapInv, [SnapNext]_snapVars PROVE SnapInv'
<1>1. Inv
  BY DEF SnapInv
<1>2. CASE DebugStep
  BY <1>1, <1>2, NextInv, SlotKept DEF DebugStep, SnapInv
<1>3. CASE SaveSnapshot
  BY <1>1, <1>3, UnchangedInv, SaveSlot DEF SaveSnapshot, SnapInv
<1>4. CASE RestoreSnapshot
  BY <1>4, RestoreInv
<1>5. ASSUME NEW a \in Regions, NEW w \in Patches, PatchSnapshot(a, w) PROVE SnapInv'
  BY <1>1, <1>5, UnchangedInv, PatchSlot DEF PatchSnapshot, SnapInv
<1>6. ASSUME NEW c \in Contexts, ApplyMetadata(c) PROVE SnapInv'
  BY <1>1, <1>6, UnchangedInv, MetadataSlot DEF ApplyMetadata, SnapInv
<1>7. CASE UNCHANGED snapVars
  BY <1>1, <1>7, UnchangedInv, SlotKept DEF snapVars, SnapInv
<1> QED BY <1>2, <1>3, <1>4, <1>5, <1>6, <1>7 DEF SnapNext, SnapshotCommand

(* Whatever is saved, rewritten and restored between the commands of the   *)
(* debugger, and until a gap is taken, memory is the program with an       *)
(* EBREAK at each breakpoint and nowhere else, and each record holds the   *)
(* word under its patch (save_guest_snapshot, restore_guest_snapshot).     *)
THEOREM SnapshotInvariance == SnapSpec => []SnapInv
BY SnapInitInv, SnapNextInv, PTL DEF SnapSpec

-----------------------------------------------------------------------------
(* The refinement.                                                         *)

Armeds == {a \in Ram : SlotArms(a)}

(* What SnapshotContract sees of the two states.                           *)
LEMMA InitRefinesSaved == SnapInit => SavedContract!SnapInit
<1> SUFFICES ASSUME SnapInit PROVE SavedContract!SnapInit
  OBVIOUS
<1>1. Contract!Init /\ slot.valid = FALSE
  BY InitRefines DEF SnapInit, EmptySlot
<1> QED BY <1>1 DEF Contract!Init, SavedContract!Init, SavedContract!SnapInit

LEMMA DebugStepRefines ==
  ASSUME Inv, DebugStep
  PROVE  [SavedContract!SnapNext]_(SavedContract!allVars)
<1>1. [Contract!Next]_(Contract!vars) /\ UNCHANGED slot
  BY NextRefines DEF DebugStep
<1>2. breach # {} => breach' # {}
  BY BreachGrows DEF DebugStep
<1>3. Armeds' = Armeds
  BY <1>1 DEF Armeds, SlotArms
<1>4. CASE UNCHANGED Contract!vars
  BY <1>1, <1>3, <1>4 DEF Contract!vars, SavedContract!vars, SavedContract!allVars, Armeds
<1>5. CASE Contract!Next
  <2>1. SavedContract!Next
    BY <1>5 DEF Contract!Next, Contract!Retire, Contract!Stop, Contract!Resume,
                Contract!Launch, Contract!Command, SavedContract!Next, SavedContract!Retire,
                SavedContract!Stop, SavedContract!Resume, SavedContract!Launch,
                SavedContract!Command
  <2> QED BY <1>1, <1>2, <1>3, <2>1 DEF SavedContract!SnapNext, Armeds
<1> QED BY <1>1, <1>4, <1>5

LEMMA SaveRefines ==
  ASSUME SnapInv, SaveSnapshot
  PROVE  SavedContract!SnapNext
<1>1. CASE breach # {}
  BY <1>1 DEF SaveSnapshot, vars, history, SavedContract!SnapNext
<1>2. CASE breach = {}
  <2>1. PatchesExact /\ RecordsExact /\ ~temporary.enabled /\ stepped = 0 /\ TypeOK
    BY <1>2 DEF SnapInv, Inv, QuietPrompt, SaveSnapshot, Stopped, AtPrompt
  <2>2. slot'.text = [a \in Regions |-> image[a]]
    <3>1. \A a \in Regions : SavedText[a] = image[a]
      BY <2>1, RegionsInRam, PermanentAtFound, SlotNotZero
      DEF SavedText, PatchesExact, RecordsExact, Patched, HasTemporary, HasPermanent, PermanentOn
    <3> QED BY <3>1 DEF SaveSnapshot, SavedText
  <2>3. Armeds' = Breaks \cap Regions
    <3>1. slot'.permanent = [q \in Slots |-> IF Covered(q) THEN permanent[q] ELSE Disabled]
      BY DEF SaveSnapshot
    <3>2. ASSUME NEW a \in Ram PROVE SlotArms(a)' <=> HasPermanent(a) /\ a \in Regions
      BY <3>1 DEF SlotArms, Covered, HasPermanent, PermanentOn, Disabled
    <3> QED BY <3>2, RegionsInRam DEF Armeds, Breaks
  <2>4. Breaks' = Breaks /\ ~Running /\ UNCHANGED <<image, pc, x, Running, fresh, breach>>
    BY BreaksKept DEF SaveSnapshot, vars, target, patches, history, Running, Stopped, AtPrompt
  <2>5. SavedContract!Save
    BY <2>2, <2>3, <2>4 DEF SavedContract!Save, SavedContract!vars, SaveSnapshot, Armeds, Breaks,
                            Running
  <2> QED BY <1>2, <2>5 DEF SavedContract!SnapNext
<1> QED BY <1>1, <1>2

LEMMA LiveKept ==
  ASSUME UNCHANGED vars
  PROVE  Breaks' = Breaks /\ UNCHANGED <<image, pc, x, mode, mcause, fresh, breach>>
BY BreaksKept DEF vars, target, patches, history

LEMMA PatchRefines ==
  ASSUME SnapInv, NEW a \in Regions, NEW w \in Patches, PatchSnapshot(a, w)
  PROVE  SavedContract!SnapNext
<1>1. slot' = [slot EXCEPT !.text[a] = w] /\ slot.valid /\ slot \in Slot
  BY DEF PatchSnapshot, SnapInv, SlotType
<1>2. slot'.permanent = slot.permanent /\ slot'.valid /\ slot'.context = slot.context
  BY <1>1 DEF Slot
<1>3. Armeds' = Armeds
  BY <1>2 DEF Armeds, SlotArms
<1>4. SavedContract!PatchSaved
  BY <1>1, <1>2, <1>3, LiveKept
  DEF SavedContract!PatchSaved, SavedContract!vars, PatchSnapshot, AtPrompt, Armeds, Breaks
<1> QED BY <1>4, LiveKept DEF SavedContract!SnapNext, PatchSnapshot

LEMMA MetadataRefines ==
  ASSUME SnapInv, NEW c \in Contexts, ApplyMetadata(c)
  PROVE  SavedContract!SnapNext
<1>1. slot' = [slot EXCEPT !.context = c] /\ slot.valid /\ slot \in Slot
  BY DEF ApplyMetadata, SnapInv, SlotType
<1>2. slot'.permanent = slot.permanent /\ slot'.valid /\ slot'.text = slot.text
  BY <1>1 DEF Slot
<1>3. Armeds' = Armeds
  BY <1>2 DEF Armeds, SlotArms
<1>4. SavedContract!PatchSaved
  BY <1>1, <1>2, <1>3, LiveKept
  DEF SavedContract!PatchSaved, SavedContract!vars, ApplyMetadata, AtPrompt, Armeds, Breaks
<1> QED BY <1>4, LiveKept DEF SavedContract!SnapNext, ApplyMetadata

LEMMA RestoreRefines ==
  ASSUME SnapInv, RestoreSnapshot
  PROVE  SavedContract!SnapNext
<1>1. Breaks' = Armeds /\ Armeds' = Armeds
  BY SlotArmed DEF Breaks, Armeds, SlotArms, RestoreSnapshot
<1>2. image' = [a \in Ram |-> IF a \in Regions THEN slot.text[a] ELSE image[a]]
  BY DEF RestoreSnapshot, Over, SnapInv, Inv, TypeOK, SlotType, Slot
<1>3. SavedContract!Restore
  BY <1>1, <1>2 DEF SavedContract!Restore, RestoreSnapshot, AtPrompt, Breaks, Armeds
<1>4. breach # {} => breach' # {}
  BY DEF RestoreSnapshot
<1> QED BY <1>3, <1>4 DEF SavedContract!SnapNext

LEMMA SnapNextRefines ==
  ASSUME SnapInv, [SnapNext]_snapVars
  PROVE  [SavedContract!SnapNext]_(SavedContract!allVars)
<1>1. CASE UNCHANGED snapVars
  <2>1. Armeds' = Armeds
    BY <1>1 DEF snapVars, Armeds, SlotArms
  <2> QED BY <1>1, <2>1, LiveKept
          DEF snapVars, SavedContract!allVars, SavedContract!vars, Armeds, Breaks
<1>2. CASE DebugStep
  BY <1>2, DebugStepRefines DEF SnapInv
<1>3. CASE SnapshotCommand
  BY <1>3, SaveRefines, RestoreRefines, PatchRefines, MetadataRefines DEF SnapshotCommand
<1> QED BY <1>1, <1>2, <1>3 DEF SnapNext

(* Saving takes the program with no patch in it, and restoring puts back   *)
(* the program, the breakpoints and the context of one save: nothing typed *)
(* in between mixes the slot with the live target.                         *)
THEOREM SnapshotRefinement == SnapSpec => ImplementsSnapshotContract
BY InitRefinesSaved, SnapNextRefines, SnapshotInvariance, PTL
DEF SnapSpec, ImplementsSnapshotContract, SavedContract!SnapSpec
=============================================================================
