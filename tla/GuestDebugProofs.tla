--------------------------- MODULE GuestDebugProofs ---------------------------
(***************************************************************************)
(* What is proved of GuestDebug, for every value of its constants: the     *)
(* type invariant, the inductive invariant Inv, the safety properties that *)
(* follow from it, and the bounds that counted commands keep.              *)
(***************************************************************************)
EXTENDS GuestDebug, TLAPS

Memory == [Ram -> Word]
Undo == [valid : BOOLEAN, address : Ram, original : Word, edited : Word]

(* What a resume, or the return to the prompt, leaves well-typed.          *)
ResumeTypes ==
  /\ mem' \in Memory /\ temporary' \in Breakpoint /\ stepped' \in Slots \cup {0}
  /\ run' \in Nat /\ pc' \in Address /\ mode' \in {"target", "monitor"}
  /\ fresh' \in BOOLEAN /\ undo' \in Undo

(* The constants the proofs name.                                          *)
LEMMA ConstantTypes ==
  /\ 0 \in Ram /\ EBREAK \in Word /\ Zero \in Word /\ Outside \notin Ram
  /\ Ram \subseteq Address /\ Outside \in Address
BY RamAssumption, WordAssumption DEF Ram, Outside, Address

(* The empty records are records of their types.                           *)
LEMMA EmptyRecords == Disabled \in Breakpoint /\ NoUndo \in Undo
BY ConstantTypes DEF Disabled, Breakpoint, NoUndo, Undo

(* The word under a permanent breakpoint is found in its record.           *)
LEMMA PermanentAtFound ==
  ASSUME NEW a, HasPermanent(a)
  PROVE  PermanentAt(a) \in Slots /\ PermanentOn(PermanentAt(a), a)
BY DEF HasPermanent, PermanentAt

(* install_temporary_breakpoint leaves a record of its word.               *)
LEMMA InstallTypes ==
  ASSUME NEW m \in Memory, NEW a \in Ram, InstallTemporary(m, a)
  PROVE  mem' \in Memory /\ temporary' \in Breakpoint /\ undo' \in Undo
BY EmptyRecords, ConstantTypes DEF InstallTemporary, Memory, Breakpoint

LEMMA NextPcType ==
  ASSUME NEW w \in Word, NEW a \in Ram, x \in Regs
  PROVE  NextExecutionPc(w, a) \in Address
BY WordAssumption, ConstantTypes DEF NextExecutionPc

(* prepare_permanent_breakpoint_step at a permanent breakpoint.            *)
LEMMA PrepareTypes ==
  ASSUME TypeOK, NEW m \in Memory, NEW t \in Breakpoint, AtPermanent(m), CanPrepare,
         PreparePermanentStep(m, t)
  PROVE  /\ mem' \in Memory /\ temporary' \in Breakpoint /\ undo' \in Undo
         /\ stepped' \in Slots \cup {0}
<1>1. PermanentAt(pc) \in Slots /\ PreparedWord \in Word /\ PreparedStop \in Ram
  BY PermanentAtFound DEF AtPermanent, PreparedWord, CanPrepare, TypeOK, Breakpoint
<1>2. [m EXCEPT ![pc] = PreparedWord] \in Memory
  BY <1>1 DEF Memory
<1>3. CASE HasPermanent(PreparedStop)
  BY <1>1, <1>2, <1>3 DEF PreparePermanentStep, TypeOK, Undo
<1>4. CASE ~HasPermanent(PreparedStop)
  BY <1>1, <1>2, <1>4, InstallTypes DEF PreparePermanentStep
<1> QED BY <1>3, <1>4

(* resume_single_step, whatever its caller had reached.                    *)
LEMMA ResumeSingleStepTypes ==
  ASSUME TypeOK, NEW m \in Memory, NEW t \in Breakpoint, NEW s \in Slots \cup {0},
         NEW r \in Nat, ResumeSingleStep(m, t, s, r)
  PROVE  ResumeTypes
<1>1. CASE StepPermanent(m, t, r)
  BY <1>1, PrepareTypes, ConstantTypes DEF StepPermanent, ResumeTarget, ResumeTypes, TypeOK
<1>2. CASE StepIntoEbreak(m, t, s, r)
  BY <1>2, ConstantTypes DEF StepIntoEbreak, ResumeTarget, ResumeTypes, TypeOK, Undo
<1>3. CASE StepTemporary(m, s, r)
  BY <1>3, InstallTypes, ConstantTypes DEF StepTemporary, Installable, ResumeTarget, ResumeTypes, TypeOK
<1>4. CASE StepWatched(m, t, s)
  BY <1>4, ConstantTypes DEF StepWatched, BackToPrompt, ResumeTypes, TypeOK, Undo
<1>5. CASE StepRefused(m, t, s, r)
  BY <1>5, ConstantTypes DEF StepRefused, BackToPrompt, ResumeTypes, TypeOK, Undo
<1> QED BY <1>1, <1>2, <1>3, <1>4, <1>5 DEF ResumeSingleStep

-----------------------------------------------------------------------------
(* Type correctness.                                                       *)

LEMMA RestoredType == TypeOK => Restored \in Memory
BY ConstantTypes DEF Restored, SteppedRearmed, TemporaryRestored, TypeOK, Breakpoint, Memory

LEMMA RetireTypes ==
  ASSUME TypeOK, Retire
  PROVE  retired' \in Nat /\ fresh' \in BOOLEAN
<1>1. retired \in Nat
  BY DEF TypeOK
<1>2. retired' = IF retired < RetireCap THEN retired + 1 ELSE retired
  BY DEF Retire
<1>3. retired' \in Nat
  BY <1>1, <1>2
<1>4. fresh' \in BOOLEAN
  BY DEF Retire
<1> QED BY <1>3, <1>4

LEMMA TargetTypes == ASSUME TypeOK, Target PROVE TypeOK'
<1>1. CASE Execute
  <2>1. pc' \in Address
    BY <1>1, WordAssumption DEF Execute, TypeOK
  <2> QED BY <1>1, <2>1, RetireTypes DEF Execute, TypeOK, patches, counts
<1>2. CASE Store
  <2>1. pc' \in Address
    BY <1>2, WordAssumption DEF Store, TypeOK
  <2>2. mem' \in Memory /\ image' \in Memory /\ breach' \subseteq Gaps
    BY <1>2, WordAssumption DEF Store, TypeOK, Memory, Gaps
  <2> QED BY <1>2, <2>1, <2>2, RetireTypes DEF Store, TypeOK, patches, counts, Memory
<1>3. CASE TrapEntry
  BY <1>3 DEF TrapEntry, Cause, TypeOK, patches, counts, history
<1> QED BY <1>1, <1>2, <1>3 DEF Target

LEMMA RustTrapTypes == ASSUME TypeOK, RustTrap PROVE TypeOK'
<1>0. Restored \in Memory /\ Disabled \in Breakpoint
  BY RestoredType, EmptyRecords
<1>1. CASE ServiceResume
  BY <1>1, ConstantTypes, RetireTypes DEF ServiceResume, After, TypeOK, patches, counts, Address
<1>2. ASSUME NEW kind \in AllServices, ServiceStop(kind) PROVE TypeOK'
  BY <1>2 DEF ServiceStop, TypeOK, patches, counts, Gaps
<1>3. CASE StepidpNext
  <2>1. ResumeTypes
    BY <1>0, <1>3, ResumeSingleStepTypes DEF StepidpNext, TypeOK
  <2>2. stepidp' \in [active : BOOLEAN, remaining : Nat, before : Address]
    <3>1. stepidp.remaining - 1 \in Nat
      BY <1>3 DEF StepidpNext, TypeOK
    <3> QED BY <1>3, <3>1 DEF StepidpNext, StepidpCounted, TypeOK
  <2> QED BY <1>3, <2>1, <2>2 DEF StepidpNext, TrapFrame, ResumeTypes, TypeOK, Memory, Undo
<1>4. CASE StepidpDone
  <2>1. stepidp' \in [active : BOOLEAN, remaining : Nat, before : Address]
    BY <1>4 DEF StepidpDone, TypeOK
  <2> QED BY <1>0, <1>4, <2>1 DEF StepidpDone, BackToPrompt, TrapFrame, TypeOK, Memory
<1>5. CASE RunNext
  <2>1. run - 1 \in Nat
    BY <1>5 DEF RunNext, RunGoesOn, TypeOK
  <2>2. ResumeTypes
    BY <1>0, <1>5, <2>1, ResumeSingleStepTypes DEF RunNext
  <2> QED BY <1>5, <2>2 DEF RunNext, TrapFrame, ResumeTypes, TypeOK, Memory, Undo
<1>6. CASE TrapStop
  BY <1>0, <1>6 DEF TrapStop, BackToPrompt, TrapFrame, TypeOK, Memory
<1> QED BY <1>1, <1>2, <1>3, <1>4, <1>5, <1>6 DEF RustTrap

LEMMA ResumingTypes == ASSUME TypeOK, Resuming PROVE TypeOK'
<1> USE DEF Orderers
<1>1. CASE StepTarget
  <2>1. ResumeTypes
    BY <1>1, ResumeSingleStepTypes DEF StepTarget, TypeOK, Memory
  <2>2. order' \in [by : Orderers, count : Nat] /\ stale' \in BOOLEAN /\ retired' \in Nat
    BY <1>1 DEF StepTarget, Orders, TypeOK
  <2> QED BY <1>1, <2>1, <2>2 DEF StepTarget, ResumeFrame, ResumeTypes, TypeOK, Memory, Undo
<1>2. ASSUME NEW n \in Budgets, StepidpTarget(n) PROVE TypeOK'
  <2>0. n \in Nat
    BY BoundAssumption
  <2>1. ResumeTypes
    BY <1>2, ResumeSingleStepTypes DEF StepidpTarget, TypeOK, Memory
  <2>2. order' \in [by : Orderers, count : Nat] /\ stale' \in BOOLEAN /\ retired' \in Nat
    BY <1>2, <2>0 DEF StepidpTarget, Orders
  <2>3. stepidp' \in [active : BOOLEAN, remaining : Nat, before : Address]
    BY <1>2, <2>0 DEF StepidpTarget, TypeOK
  <2> QED BY <1>2, <2>1, <2>2, <2>3 DEF StepidpTarget, ResumeFrame, ResumeTypes, TypeOK, Memory, Undo
<1>3. ASSUME NEW n \in Budgets, RunTarget(n) PROVE TypeOK'
  <2>0. n \in Nat
    BY BoundAssumption
  <2>1. ResumeTypes
    BY <1>3, <2>0, ResumeSingleStepTypes DEF RunTarget, TypeOK, Memory
  <2>2. order' \in [by : Orderers, count : Nat] /\ stale' \in BOOLEAN /\ retired' \in Nat
    BY <1>3, <2>0 DEF RunTarget, Orders, TypeOK
  <2> QED BY <1>3, <2>1, <2>2 DEF RunTarget, ResumeFrame, ResumeTypes, TypeOK, Memory, Undo
<1>4. CASE ContinueOverPermanent
  <2>1. order' \in [by : Orderers, count : Nat] /\ stale' \in BOOLEAN /\ retired' \in Nat
    BY <1>4 DEF ContinueOverPermanent, Orders, TypeOK
  <2>2. ResumeTypes
    <3>1. CASE CanPrepare
      BY <1>4, <3>1, PrepareTypes, ConstantTypes
      DEF ContinueOverPermanent, ResumeTarget, ResumeTypes, TypeOK, Memory
    <3>2. CASE ~CanPrepare
      BY <1>4, <3>2 DEF ContinueOverPermanent, BackToPrompt, ResumeTypes, TypeOK, Memory, Undo
    <3> QED BY <3>1, <3>2
  <2> QED BY <1>4, <2>1, <2>2
          DEF ContinueOverPermanent, ResumeFrame, ResumeTypes, TypeOK, Memory, Undo
<1>5. CASE ContinueTarget
  <2>1. order' \in [by : Orderers, count : Nat] /\ stale' \in BOOLEAN /\ retired' \in Nat
    BY <1>5 DEF ContinueTarget, Orders, TypeOK
  <2>2. pc' \in Address
    BY <1>5, ConstantTypes DEF ContinueTarget, ResumeTarget, InstructionPc, After
  <2> QED BY <1>5, <2>1, <2>2 DEF ContinueTarget, ResumeTarget, ResumeFrame, TypeOK
<1> QED BY <1>1, <1>2, <1>3, <1>4, <1>5 DEF Resuming

LEMMA LaunchTypes ==
  ASSUME TypeOK, NEW a \in Ram, Launch(a)
  PROVE  /\ pc' \in Address /\ x' \in Regs /\ mcause' = "break" /\ mode' = "target"
         /\ fresh' \in BOOLEAN /\ stale' \in BOOLEAN /\ retired' \in Nat
         /\ order' \in [by : Orderers, count : Nat]
BY ConstantTypes, WordAssumption DEF Launch, ResumeTarget, Orders, Orderers, TypeOK

(* Over keeps a memory a memory when what it lays over it is made of words.*)
LEMMA OverMemory ==
  ASSUME NEW g \in Memory, NEW D, NEW f \in [D -> Word]
  PROVE  Over(f, g) \in Memory
BY DEF Over, Memory

LEMMA LaunchingTypes == ASSUME TypeOK, Launching PROVE TypeOK'
<1>1. ASSUME NEW a \in Workspace \cup {BasicEntry}, RunTargetAt(a) PROVE TypeOK'
  <2>1. a \in Ram
    BY RamAssumption
  <2> QED BY <1>1, <2>1, LaunchTypes DEF RunTargetAt, TypeOK, patches, counts
<1>2. CASE LaunchMinibasicAsm
  <2>1. BasicAsmEntry \in Ram /\ BasicImage \in [DOMAIN BasicImage -> Word]
    BY RamAssumption, WordAssumption
  <2>2. mem' \in Memory /\ image' \in Memory
    BY <1>2, <2>1, OverMemory DEF LaunchMinibasicAsm, TypeOK, Memory
  <2>3. breach' \subseteq Gaps
    BY <1>2 DEF LaunchMinibasicAsm, TypeOK, Gaps
  <2>4. Launch(BasicAsmEntry)
    BY <1>2 DEF LaunchMinibasicAsm
  <2> QED BY <1>2, <2>1, <2>2, <2>3, <2>4, LaunchTypes
          DEF LaunchMinibasicAsm, TypeOK, patches, counts, Memory
<1> QED BY <1>1, <1>2 DEF Launching

LEMMA CellWrite ==
  ASSUME TypeOK, NEW a \in Ram, NEW w \in Word, Write(Cell(a, w))
  PROVE  mem' \in Memory /\ image' \in Memory
BY OverMemory DEF Write, Cell, TypeOK, Memory

LEMMA EditMemoryTypes ==
  ASSUME TypeOK, NEW a \in Ram, NEW w \in Word, EditMemory(a, w) PROVE TypeOK'
<1>1. mem' \in Memory /\ image' \in Memory
  BY CellWrite DEF EditMemory
<1>2. undo' \in Undo
  BY DEF EditMemory, Undo, TypeOK
<1> QED BY <1>1, <1>2 DEF EditMemory, MemoryFrame, ContextFrame, TypeOK, patches, counts, Memory, Undo

LEMMA EditingTypes == ASSUME TypeOK, Editing PROVE TypeOK'
<1>0. Stored \subseteq Word
  BY WordAssumption
<1>1. ASSUME NEW a \in Ram, NEW w \in Stored, EditMemory(a, w) PROVE TypeOK'
  BY <1>0, <1>1, EditMemoryTypes
<1>2. ASSUME NEW a \in Ram, NEW w \in Stored, DataDirective(a, w) PROVE TypeOK'
  BY <1>0, <1>2, EditMemoryTypes DEF DataDirective
<1>3. CASE UndoMemory
  <2>1. mem' \in Memory /\ image' \in Memory
    BY <1>3 DEF UndoMemory, TypeOK, Memory
  <2>2. undo' \in Undo
    BY <1>3, EmptyRecords DEF UndoMemory
  <2> QED BY <1>3, <2>1, <2>2
          DEF UndoMemory, MemoryFrame, ContextFrame, TypeOK, patches, counts, Memory, Undo
<1>4. ASSUME NEW a \in Ram, NEW w \in Stored, LoadPayload(a, w) PROVE TypeOK'
  <2>1. mem' \in Memory /\ image' \in Memory
    BY <1>0, <1>4, CellWrite DEF LoadPayload
  <2> QED BY <1>4, <2>1
          DEF LoadPayload, MemoryFrame, ContextFrame, TypeOK, patches, counts, Memory
<1>5. ASSUME NEW a \in Data, ClearPayloadData(a) PROVE TypeOK'
  <2>1. a \in Ram
    BY RamAssumption
  <2>2. mem' \in Memory /\ image' \in Memory /\ breach' \subseteq Gaps
    BY <1>5, <2>1, ConstantTypes DEF ClearPayloadData, TypeOK, Memory, Gaps
  <2> QED BY <1>5, <2>2 DEF ClearPayloadData, ContextFrame, TypeOK, patches, counts, Memory
<1>6. ASSUME NEW a \in Workspace, NEW n \in ProgramLengths,
             NEW words \in [a .. a + n - 1 -> Stored], AssembleProgram(words, a)
      PROVE  TypeOK'
  <2>1. a \in Address
    BY RamAssumption, ConstantTypes
  <2>w. words \in [a .. a + n - 1 -> Word]
    BY <1>0
  <2>m. mem \in Memory /\ image \in Memory
    BY DEF TypeOK, Memory
  <2>2. mem' \in Memory /\ image' \in Memory
    BY <1>6, <2>w, <2>m, OverMemory DEF AssembleProgram, Write
  <2>3. undo' \in Undo
    BY <1>6, EmptyRecords DEF AssembleProgram
  <2> QED BY <1>6, <2>1, <2>2, <2>3
          DEF AssembleProgram, MemoryFrame, TypeOK, patches, counts, Memory, Undo
<1>7. ASSUME NEW r \in Regs, SetRegister(r) PROVE TypeOK'
  BY <1>7 DEF SetRegister, TypeOK, patches, counts, history
<1> QED BY <1>1, <1>2, <1>3, <1>4, <1>5, <1>6, <1>7 DEF Editing

LEMMA TablesTypes == ASSUME TypeOK, Tables PROVE TypeOK'
<1>1. ASSUME NEW a \in Ram, BreakTarget(a) PROVE TypeOK'
  <2>1. mem' \in Memory /\ permanent' \in [Slots -> Breakpoint]
    BY <1>1, ConstantTypes DEF BreakTarget, TypeOK, Memory, Breakpoint
  <2>2. undo' \in Undo
    BY <1>1, EmptyRecords DEF BreakTarget
  <2> QED BY <1>1, <2>1, <2>2 DEF BreakTarget, TableFrame, TypeOK, counts, history, Memory, Undo
<1>2. ASSUME NEW s \in Slots, DeleteBreakpoint(s) PROVE TypeOK'
  <2>1. mem' \in Memory /\ permanent' \in [Slots -> Breakpoint]
    BY <1>2, EmptyRecords DEF DeleteBreakpoint, TypeOK, Memory, Breakpoint
  <2>2. undo' \in Undo
    BY <1>2, EmptyRecords DEF DeleteBreakpoint
  <2> QED BY <1>2, <2>1, <2>2 DEF DeleteBreakpoint, TableFrame, TypeOK, counts, history, Memory, Undo
<1>3. ASSUME NEW a \in Ram, NEW k \in {{"load"}, {"store"}, {"load", "store"}},
             AddWatchpoint(a, k)
      PROVE  TypeOK'
  <2>1. [enabled |-> TRUE, address |-> a, kinds |-> k] \in Watchpoint
    BY DEF Watchpoint
  <2>2. watch' \in [WatchSlots -> Watchpoint]
    BY <1>3, <2>1 DEF AddWatchpoint, TypeOK
  <2> QED BY <1>3, <2>2 DEF AddWatchpoint, TableFrame, TypeOK, counts, history
<1>4. ASSUME NEW i \in WatchSlots, DeleteWatchpoint(i) PROVE TypeOK'
  <2>1. NoWatch \in Watchpoint
    BY ConstantTypes DEF NoWatch, Watchpoint
  <2> QED BY <1>4, <2>1 DEF DeleteWatchpoint, TableFrame, TypeOK, counts, history
<1> QED BY <1>1, <1>2, <1>3, <1>4 DEF Tables

LEMMA InitTypes == Init => TypeOK
<1> SUFFICES ASSUME Init PROVE TypeOK
  OBVIOUS
<1>1. mem \in Memory
  BY WordAssumption DEF Init, Memory
<1>2. pc \in Address /\ x \in Regs
  BY RamAssumption, WordAssumption, ConstantTypes DEF Init
<1>3. watch \in [WatchSlots -> Watchpoint]
  BY ConstantTypes DEF Init, NoWatch, Watchpoint
<1>4. stepidp \in [active : BOOLEAN, remaining : Nat, before : Address]
  BY ConstantTypes DEF Init
<1>5. temporary \in Breakpoint /\ permanent \in [Slots -> Breakpoint] /\ undo \in Undo
  BY EmptyRecords DEF Init
<1> QED BY <1>1, <1>2, <1>3, <1>4, <1>5 DEF Init, TypeOK, Memory, Undo, Orderers

(* Type correctness of the whole debugger: every table, count and patch    *)
(* record keeps its type over every command and trap (main.rs 55-90).      *)
THEOREM TypeCorrect == Spec => []TypeOK
<1>1. TypeOK /\ [Next]_vars => TypeOK'
  <2>1. TypeOK /\ UNCHANGED vars => TypeOK'
    BY DEF TypeOK, vars, target, patches, counts, history
  <2> QED BY <2>1, TargetTypes, RustTrapTypes, ResumingTypes, LaunchingTypes, EditingTypes,
             TablesTypes DEF Next
<1> QED BY <1>1, InitTypes, PTL DEF Spec

-----------------------------------------------------------------------------
(* The inductive invariant.                                                *)

Exact == PatchesExact /\ RecordsExact /\ SteppedCrossing

(* m is the image with an EBREAK at each permanent breakpoint but the k-th.*)
MemoryOf(m, k) ==
  \A a \in Ram : m[a] = IF \E s \in Slots : s # k /\ PermanentOn(s, a)
                        THEN EBREAK ELSE image[a]

(* What rust_trap and the prompt have reached before they resume.          *)
Settled(m, t, s) == ~t.enabled /\ s = 0 /\ MemoryOf(m, 0)

LEMMA SlotNotZero == 0 \notin Slots
BY BoundAssumption

LEMMA PromptSettled ==
  ASSUME Inv, breach = {}, mode = "monitor" PROVE Settled(mem, temporary, stepped)
BY SlotNotZero DEF Inv, QuietPrompt, PatchesExact, Settled, MemoryOf, Patched, HasTemporary

(* The two restores of rust_trap bring every patch of a step back.         *)
LEMMA RestoredSettled == ASSUME Inv, breach = {} PROVE Settled(Restored, Disabled, 0)
<1> USE DEF Inv
<1>1. mem \in Memory /\ temporary \in Breakpoint /\ permanent \in [Slots -> Breakpoint]
      /\ stepped \in Slots \cup {0}
  BY DEF TypeOK, Memory
<1>2. TemporaryRestored \in Memory
  BY <1>1 DEF TemporaryRestored, Memory, Breakpoint
<1>3. \A a \in Ram : TemporaryRestored[a] =
        IF \E s \in Slots : s # stepped /\ PermanentOn(s, a) THEN EBREAK ELSE image[a]
  <2> TAKE a \in Ram
  <2>1. CASE HasTemporary(a)
    <3>1. TemporaryRestored[a] = image[a]
      BY <1>1, <2>1 DEF TemporaryRestored, HasTemporary, RecordsExact, Memory
    <3>2. ~HasPermanent(a)
      BY <2>1 DEF BreakpointsDisjoint, HasTemporary
    <3> QED BY <3>1, <3>2 DEF HasPermanent
  <2>2. CASE ~HasTemporary(a)
    <3>1. TemporaryRestored[a] = mem[a]
      BY <1>1, <2>2 DEF TemporaryRestored, HasTemporary, Memory
    <3> QED BY <2>2, <3>1 DEF PatchesExact, Patched
  <2> QED BY <2>1, <2>2
<1>4. MemoryOf(Restored, 0)
  <2>1. CASE stepped = 0
    BY <1>3, <2>1, SlotNotZero DEF MemoryOf, Restored, SteppedRearmed
  <2>2. CASE stepped # 0
    <3> DEFINE at == permanent[stepped].address
    <3>1. stepped \in Slots /\ at \in Ram
      BY <1>1, <2>2 DEF Breakpoint
    <3>2. PermanentOn(stepped, at) /\ permanent[stepped].original = image[at]
      BY <2>2, <3>1 DEF SteppedCrossing, RecordsExact, PermanentOn
    <3>3. \A s \in Slots : PermanentOn(s, at) => s = stepped
      BY <3>1, <3>2 DEF BreakpointsDisjoint, PermanentOn
    <3>4. TemporaryRestored[at] = image[at]
      BY <1>3, <3>1, <3>3
    <3>5. Restored = [TemporaryRestored EXCEPT ![at] = EBREAK]
      BY <2>2, <3>2, <3>4 DEF Restored, SteppedRearmed, PermanentOn
    <3>6. ASSUME NEW a \in Ram
          PROVE  Restored[a] = IF \E s \in Slots : s # 0 /\ PermanentOn(s, a)
                               THEN EBREAK ELSE image[a]
      <4>1. CASE a = at
        <5>1. Restored[a] = EBREAK
          BY <1>2, <3>1, <3>5, <4>1 DEF Memory
        <5> QED BY <2>2, <3>1, <3>2, <4>1, <5>1
      <4>2. CASE a # at
        <5>1. Restored[a] = TemporaryRestored[a]
          BY <1>2, <3>1, <3>5, <4>2 DEF Memory
        <5>2. ~PermanentOn(stepped, a)
          BY <4>2 DEF PermanentOn
        <5> QED BY <1>3, <5>1, <5>2, SlotNotZero
      <4> QED BY <4>1, <4>2
    <3> QED BY <3>6 DEF MemoryOf
  <2> QED BY <2>1, <2>2
<1> QED BY <1>4 DEF Settled, Disabled

(* Facts about the breakpoint records that a resume starts from.           *)
Records ==
  /\ BreakpointsDisjoint
  /\ \A s \in Slots : permanent[s].enabled => permanent[s].original = image[permanent[s].address]

(* Installing the temporary breakpoint where no permanent one is.          *)
LEMMA InstallExact ==
  ASSUME TypeOK, Records, NEW m \in Memory, NEW stop \in Ram, ~HasPermanent(stop),
         MemoryOf(m, stepped'), InstallTemporary(m, stop), UNCHANGED <<image, permanent>>
  PROVE  PatchesExact' /\ RecordsExact'
<1>1. temporary' = [enabled |-> TRUE, address |-> stop, original |-> m[stop]]
      /\ mem' = [m EXCEPT ![stop] = EBREAK]
  BY DEF InstallTemporary
<1>2. m[stop] = image[stop]
  BY DEF MemoryOf, HasPermanent
<1>3. RecordsExact'
  BY <1>1, <1>2 DEF Records, RecordsExact
<1>4. ASSUME NEW a \in Ram PROVE mem'[a] = IF Patched(a)' THEN EBREAK ELSE image'[a]
  <2>1. CASE a = stop
    BY <1>1, <2>1 DEF Patched, HasTemporary, Memory
  <2>2. CASE a # stop
    <3>1. mem'[a] = m[a]
      BY <1>1, <2>2 DEF Memory
    <3>2. Patched(a)' <=> \E s \in Slots : s # stepped' /\ PermanentOn(s, a)
      BY <1>1, <2>2 DEF Patched, HasTemporary, PermanentOn
    <3> QED BY <3>1, <3>2 DEF MemoryOf
  <2> QED BY <2>1, <2>2
<1> QED BY <1>3, <1>4 DEF PatchesExact

(* Memory without the temporary breakpoint, and no record of one.          *)
LEMMA PlainExact ==
  ASSUME Records, NEW m, MemoryOf(m, stepped'), mem' = m, ~temporary'.enabled,
         UNCHANGED <<image, permanent>>
  PROVE  PatchesExact' /\ RecordsExact'
<1>1. RecordsExact'
  BY DEF Records, RecordsExact
<1>2. ASSUME NEW a \in Ram PROVE mem'[a] = IF Patched(a)' THEN EBREAK ELSE image'[a]
  <2>1. Patched(a)' <=> \E s \in Slots : s # stepped' /\ PermanentOn(s, a)
    BY DEF Patched, HasTemporary, PermanentOn
  <2> QED BY <2>1 DEF MemoryOf
<1> QED BY <1>1, <1>2 DEF PatchesExact

(* prepare_permanent_breakpoint_step, then resume_target at pc.            *)
LEMMA PrepareExact ==
  ASSUME TypeOK, Records, NEW m \in Memory, NEW t \in Breakpoint, ~t.enabled,
         MemoryOf(m, 0), AtPermanent(m), CanPrepare, PreparePermanentStep(m, t),
         ResumeTarget(pc), UNCHANGED <<image, permanent, x>>
  PROVE  Exact'
<1> DEFINE k == PermanentAt(pc)
           disarmed == [m EXCEPT ![pc] = PreparedWord]
<1>1. k \in Slots /\ PermanentOn(k, pc) /\ pc \in Ram
  BY PermanentAtFound DEF AtPermanent
<1>2. PreparedWord = image[pc] /\ PreparedWord # EBREAK
  BY <1>1 DEF PreparedWord, Records, PermanentOn, CanPrepare
<1>3. PreparedWord \in Word
  BY <1>1 DEF PreparedWord, TypeOK, Breakpoint
<1>4. disarmed \in Memory
  BY <1>3 DEF Memory
<1>5. \A s \in Slots : PermanentOn(s, pc) => s = k
  BY <1>1 DEF Records, BreakpointsDisjoint, PermanentOn
<1>6. MemoryOf(disarmed, k)
  <2> SUFFICES ASSUME NEW a \in Ram
               PROVE  disarmed[a] = IF \E s \in Slots : s # k /\ PermanentOn(s, a)
                                    THEN EBREAK ELSE image[a]
    BY DEF MemoryOf
  <2>1. CASE a = pc
    BY <1>2, <1>5, <2>1 DEF Memory
  <2>2. CASE a # pc
    <3>1. disarmed[a] = m[a]
      BY <2>2 DEF Memory
    <3>2. ~PermanentOn(k, a)
      BY <1>1, <2>2 DEF PermanentOn
    <3> QED BY <3>1, <3>2, SlotNotZero DEF MemoryOf
  <2> QED BY <2>1, <2>2
<1>7. PICK slot \in Slots : slot = k /\ stepped' = slot /\ slot # 0
  BY <1>1, SlotNotZero DEF PreparePermanentStep
<1>8. PICK at \in Ram, stop \in Ram : at = pc /\ stop = PreparedStop /\ stop # at
  BY <1>1 DEF CanPrepare
<1>9. stop = Succ[<<image[at], x, at>>]
  BY <1>2, <1>8, ConstantTypes DEF PreparedStop, NextExecutionPc
<1>10. PatchesExact' /\ RecordsExact' /\ Patched(stop)'
  <2>1. CASE HasPermanent(stop)
    <3>1. PatchesExact' /\ RecordsExact'
      BY <1>6, <1>7, <1>8, <2>1, PlainExact DEF PreparePermanentStep
    <3>2. PICK s \in Slots : PermanentOn(s, stop)
      BY <2>1 DEF HasPermanent
    <3>3. s # slot
      BY <1>1, <1>7, <1>8, <3>2 DEF PermanentOn
    <3> QED BY <1>7, <3>1, <3>2, <3>3 DEF Patched, PermanentOn
  <2>2. CASE ~HasPermanent(stop)
    <3>1. InstallTemporary(disarmed, stop)
      BY <1>8, <2>2 DEF PreparePermanentStep
    <3>2. PatchesExact' /\ RecordsExact'
      BY <1>4, <1>6, <1>7, <1>8, <2>2, <3>1, InstallExact
    <3> QED BY <3>1, <3>2 DEF InstallTemporary, Patched, HasTemporary
  <2> QED BY <2>1, <2>2
<1>11. SteppedCrossing'
  <2>1. pc' = at /\ fresh' = TRUE /\ permanent'[slot].address = at /\ permanent'[slot].enabled
    BY <1>1, <1>7, <1>8 DEF ResumeTarget, PermanentOn
  <2>2. image'[at] # EBREAK /\ stop = Succ[<<image'[at], x', at>>]
    BY <1>2, <1>8, <1>9
  <2> QED BY <1>7, <1>10, <2>1, <2>2 DEF SteppedCrossing
<1> QED BY <1>10, <1>11 DEF Exact

(* resume_single_step, from a settled memory.                              *)
LEMMA ResumeSingleStepExact ==
  ASSUME TypeOK, Records, NEW m \in Memory, NEW t \in Breakpoint, NEW s, NEW r,
         Settled(m, t, s), ResumeSingleStep(m, t, s, r), UNCHANGED <<image, permanent, x>>
  PROVE  Exact' /\ (mode' = "monitor" => ~temporary'.enabled /\ stepped' = 0)
<1> USE DEF Settled
<1>1. CASE StepPermanent(m, t, r)
  BY <1>1, PrepareExact DEF StepPermanent, ResumeTarget
<1>2. CASE StepIntoEbreak(m, t, s, r)
  BY <1>2, PlainExact DEF StepIntoEbreak, ResumeTarget, Exact, SteppedCrossing
<1>3. CASE StepTemporary(m, s, r)
  <2>1. PICK stop : Installable(stop) /\ InstallTemporary(m, stop)
    BY <1>3 DEF StepTemporary
  <2>2. stepped' = 0 /\ mode' = "target"
    BY <1>3 DEF StepTemporary, ResumeTarget
  <2> QED BY <2>1, <2>2, InstallExact DEF Installable, Exact, SteppedCrossing
<1>4. CASE StepWatched(m, t, s)
  BY <1>4, PlainExact DEF StepWatched, BackToPrompt, Exact, SteppedCrossing
<1>5. CASE StepRefused(m, t, s, r)
  BY <1>5, PlainExact DEF StepRefused, BackToPrompt, Exact, SteppedCrossing
<1> QED BY <1>1, <1>2, <1>3, <1>4, <1>5 DEF ResumeSingleStep

-----------------------------------------------------------------------------
(* Breakpoints stay apart from each other and from the undo record.        *)

Apart == BreakpointsDisjoint /\ UndoClearOfBreakpoints

LEMMA InstallApart ==
  ASSUME Apart, NEW m, NEW stop, ~HasPermanent(stop), InstallTemporary(m, stop),
         UNCHANGED permanent
  PROVE  Apart'
BY DEF Apart, BreakpointsDisjoint, UndoClearOfBreakpoints, InstallTemporary, NoUndo,
       HasPermanent, PermanentOn

LEMMA KeepApart ==
  ASSUME Apart, temporary'.enabled => temporary' = temporary, UNCHANGED <<permanent, undo>>
  PROVE  Apart'
BY DEF Apart, BreakpointsDisjoint, UndoClearOfBreakpoints, ActiveBreakpoint, HasTemporary,
       HasPermanent, PermanentOn

LEMMA PrepareApart ==
  ASSUME Apart, NEW m, NEW t, t.enabled => t = temporary, PreparePermanentStep(m, t),
         UNCHANGED permanent
  PROVE  Apart'
<1>1. CASE HasPermanent(PreparedStop)
  BY <1>1, KeepApart DEF PreparePermanentStep
<1>2. CASE ~HasPermanent(PreparedStop)
  BY <1>2, InstallApart DEF PreparePermanentStep
<1> QED BY <1>1, <1>2

LEMMA ResumeSingleStepApart ==
  ASSUME Apart, NEW m, NEW t, NEW s, NEW r, t.enabled => t = temporary,
         ResumeSingleStep(m, t, s, r), UNCHANGED permanent
  PROVE  Apart'
<1>1. CASE StepPermanent(m, t, r)
  BY <1>1, PrepareApart DEF StepPermanent
<1>2. CASE StepIntoEbreak(m, t, s, r)
  BY <1>2, KeepApart DEF StepIntoEbreak
<1>3. CASE StepTemporary(m, s, r)
  BY <1>3, InstallApart DEF StepTemporary, Installable
<1>4. CASE StepWatched(m, t, s)
  BY <1>4, KeepApart DEF StepWatched, BackToPrompt
<1>5. CASE StepRefused(m, t, s, r)
  BY <1>5, KeepApart DEF StepRefused, BackToPrompt
<1> QED BY <1>1, <1>2, <1>3, <1>4, <1>5 DEF ResumeSingleStep

LEMMA ResumeSingleStepMode ==
  ASSUME NEW m, NEW t, NEW s, NEW r, ResumeSingleStep(m, t, s, r)
  PROVE  mode' \in {"target", "monitor"}
BY DEF ResumeSingleStep, StepPermanent, StepIntoEbreak, StepTemporary, StepWatched,
       StepRefused, ResumeTarget, BackToPrompt

-----------------------------------------------------------------------------
(* What each step must re-establish.                                       *)
Kept ==
  /\ Apart' /\ TrapExplained' /\ QuietPrompt'
  /\ breach' = {} => Exact'

LEMMA InvRecords == Inv /\ breach = {} => Records
BY DEF Inv, Records, RecordsExact

(* A retiring instruction that is no ebreak is not under a patch, and if a *)
(* breakpoint is being stepped over it is the one under it.                *)
LEMMA RetiringWord ==
  ASSUME Inv, breach = {}, pc \in Ram, Kind[mem[pc]] # "ebreak"
  PROVE  /\ ~Patched(pc) /\ mem[pc] = image[pc]
         /\ stepped # 0 => /\ pc = permanent[stepped].address /\ fresh
                           /\ Succ[<<image[pc], x, pc>>] \in Ram
                           /\ Patched(Succ[<<image[pc], x, pc>>])
<1>1. mem[pc] # EBREAK
  BY WordAssumption, ConstantTypes
<1> QED BY <1>1 DEF Inv, PatchesExact, SteppedCrossing

LEMMA TargetKept == ASSUME Inv, Target PROVE Kept
<1> USE DEF Inv
<1>1. CASE Execute
  <2>1. Apart'
    BY <1>1, KeepApart DEF Execute, patches, Apart
  <2>2. TrapExplained' /\ QuietPrompt'
    BY <1>1 DEF Execute, TrapExplained, QuietPrompt
  <2>3. ASSUME breach' = {} PROVE Exact'
    <3>1. breach = {} /\ pc \in Ram /\ Kind[mem[pc]] # "ebreak"
      BY <1>1, <2>3 DEF Execute
    <3>2. PICK next : next = Succ[<<image[pc], x, pc>>]
      OBVIOUS
    <3>3. pc' = next
      BY <1>1, <3>1, <3>2, RetiringWord DEF Execute
    <3>4. PatchesExact' /\ RecordsExact'
      BY <1>1, <3>1 DEF Execute, patches, PatchesExact, RecordsExact, Patched, HasTemporary,
                        PermanentOn
    <3>5. \A a : Patched(a)' <=> Patched(a)
      BY <1>1 DEF Execute, patches, Patched, HasTemporary, PermanentOn
    <3>6. SteppedCrossing'
      <4>1. stepped' # 0 => next \in Ram /\ Patched(next)
        BY <1>1, <3>1, <3>2, RetiringWord DEF Execute, patches
      <4> QED BY <1>1, <3>1, <3>3, <3>5, <4>1 DEF Execute, patches, SteppedCrossing
    <3> QED BY <3>4, <3>6 DEF Exact
  <2> QED BY <2>1, <2>2, <2>3 DEF Kept
<1>2. CASE Store
  <2>1. Apart'
    BY <1>2, KeepApart DEF Store, patches, Apart
  <2>2. TrapExplained' /\ QuietPrompt'
    BY <1>2 DEF Store, TrapExplained, QuietPrompt
  <2>3. ASSUME breach' = {} PROVE Exact'
    <3>1. PICK to \in Ram, w \in Stored :
            /\ mem' = [mem EXCEPT ![to] = w] /\ image' = [image EXCEPT ![to] = w]
            /\ breach' = IF ActiveBreakpoint(to) THEN breach \cup {"overwrite"} ELSE breach
      BY <1>2 DEF Store
    <3>2. breach = {} /\ ~ActiveBreakpoint(to)
      BY <2>3, <3>1
    <3>3. pc \in Ram /\ Kind[mem[pc]] # "ebreak"
      BY <1>2 DEF Store
    <3>4. PICK next : next = Succ[<<image[pc], x, pc>>]
      OBVIOUS
    <3>5. pc' = next
      BY <1>2, <3>2, <3>3, <3>4, RetiringWord DEF Store
    <3>6. \A a : Patched(a)' <=> Patched(a)
      BY <1>2 DEF Store, patches, Patched, HasTemporary, PermanentOn
    <3>7. ~Patched(to) /\ \A s \in Slots : ~PermanentOn(s, to)
      BY <3>2 DEF ActiveBreakpoint, Patched, HasPermanent
    <3>8. mem \in Memory /\ image \in Memory
      BY DEF TypeOK, Memory
    <3>9. PatchesExact'
      BY <3>1, <3>2, <3>6, <3>7, <3>8 DEF PatchesExact, Memory
    <3>10. RecordsExact'
      <4>1. temporary.enabled => temporary.address # to
        BY <3>2 DEF ActiveBreakpoint, HasTemporary
      <4>2. \A s \in Slots : permanent[s].enabled => permanent[s].address # to
        BY <3>7 DEF PermanentOn
      <4> QED BY <1>2, <3>1, <3>2, <3>8, <4>1, <4>2 DEF Store, patches, RecordsExact, Memory
    <3>11. SteppedCrossing'
      <4>1. stepped' # 0 => next \in Ram /\ Patched(next)
        BY <1>2, <3>2, <3>3, <3>4, RetiringWord DEF Store, patches
      <4>2. stepped # 0 => permanent[stepped].enabled /\ permanent[stepped].address # to
                          /\ stepped \in Slots /\ image[permanent[stepped].address] # EBREAK
        BY <3>2, <3>7 DEF PermanentOn, SteppedCrossing, TypeOK
      <4>3. stepped' = stepped /\ permanent' = permanent
        BY <1>2 DEF Store, patches
      <4>4. stepped # 0 => image'[permanent[stepped].address] # EBREAK
        BY <3>1, <3>8, <4>2 DEF Memory
      <4> QED BY <3>5, <3>6, <4>1, <4>2, <4>3, <4>4 DEF SteppedCrossing
    <3> QED BY <3>9, <3>10, <3>11 DEF Exact
  <2> QED BY <2>1, <2>2, <2>3 DEF Kept
<1>3. CASE TrapEntry
  <2>1. Apart'
    BY <1>3, KeepApart DEF TrapEntry, patches, Apart
  <2>2. TrapExplained' /\ QuietPrompt'
    BY <1>3 DEF TrapEntry, TrapExplained, QuietPrompt, Traps, Cause
  <2>3. ASSUME breach' = {} PROVE Exact'
    BY <1>3, <2>3 DEF TrapEntry, patches, history, Exact, PatchesExact, RecordsExact, Patched,
                      HasTemporary, PermanentOn, SteppedCrossing
  <2> QED BY <2>1, <2>2, <2>3 DEF Kept
<1> QED BY <1>1, <1>2, <1>3 DEF Target

(* What a resume from a settled memory re-establishes, in any handler.     *)
LEMMA ResumeKept ==
  ASSUME Inv, NEW m \in Memory, NEW t \in Breakpoint, NEW s, NEW r,
         breach = {} => Settled(m, t, s), t.enabled => t = temporary,
         ResumeSingleStep(m, t, s, r), UNCHANGED <<image, permanent, x, breach>>
  PROVE  Kept
<1>1. Apart'
  BY ResumeSingleStepApart DEF Inv, Apart
<1>2. TrapExplained'
  BY ResumeSingleStepMode DEF TrapExplained
<1>3. ASSUME breach = {}
      PROVE  Exact' /\ (mode' = "monitor" => ~temporary'.enabled /\ stepped' = 0)
  BY <1>3, InvRecords, ResumeSingleStepExact DEF Inv
<1> QED BY <1>1, <1>2, <1>3 DEF Kept, QuietPrompt

(* The same of a return to the prompt once the patches are back.           *)
LEMMA PromptKept ==
  ASSUME Inv, NEW m, NEW t, NEW s, NEW r, ~t.enabled,
         breach = {} => Settled(m, t, s), BackToPrompt(m, t, s, r),
         temporary' = t, UNCHANGED <<image, permanent, x, breach>>
  PROVE  Kept
<1>1. Apart'
  BY KeepApart DEF Inv, Apart, BackToPrompt
<1>2. TrapExplained'
  BY DEF TrapExplained, BackToPrompt
<1>3. ASSUME breach = {} PROVE Exact' /\ ~temporary'.enabled /\ stepped' = 0
  <2>1. stepped' = 0 /\ ~temporary'.enabled
    BY <1>3 DEF BackToPrompt, Settled
  <2>2. PatchesExact' /\ RecordsExact'
    BY <1>3, <2>1, InvRecords, PlainExact DEF BackToPrompt, Settled
  <2> QED BY <2>1, <2>2 DEF Exact, SteppedCrossing
<1> QED BY <1>1, <1>2, <1>3 DEF Kept, QuietPrompt

LEMMA RustTrapKept == ASSUME Inv, RustTrap PROVE Kept
<1>0. TypeOK /\ Restored \in Memory /\ Disabled \in Breakpoint /\ ~Disabled.enabled
      /\ (breach = {} => Settled(Restored, Disabled, 0))
  BY RestoredType, RestoredSettled, EmptyRecords DEF Inv, Disabled
<1>1. CASE ServiceResume
  <2>1. Apart'
    BY <1>1, KeepApart DEF ServiceResume, patches, Apart, Inv
  <2>2. TrapExplained' /\ QuietPrompt'
    BY <1>1 DEF ServiceResume, TrapExplained, QuietPrompt
  <2>3. ASSUME breach' = {} PROVE Exact'
    <3>1. breach = {} /\ pc \in Ram /\ Kind[mem[pc]] = "ecall"
      BY <1>1, <2>3 DEF ServiceResume, Inv, TrapExplained, Cause
    <3>2. PICK next : next = Succ[<<image[pc], x, pc>>]
      OBVIOUS
    <3>3. mem[pc] = image[pc] /\ mem[pc] \in Word /\ x \in Regs
      BY <3>1, RetiringWord DEF Inv, TypeOK
    <3>4. pc' = next
      BY <1>1, <3>1, <3>2, <3>3, WordAssumption DEF ServiceResume
    <3>5. PatchesExact' /\ RecordsExact'
      BY <1>1, <3>1 DEF Inv, ServiceResume, patches, PatchesExact, RecordsExact, Patched,
                        HasTemporary, PermanentOn
    <3>6. \A a : Patched(a)' <=> Patched(a)
      BY <1>1 DEF ServiceResume, patches, Patched, HasTemporary, PermanentOn
    <3>7. SteppedCrossing'
      <4>1. stepped' # 0 => next \in Ram /\ Patched(next)
        BY <1>1, <3>1, <3>2, RetiringWord DEF ServiceResume, patches
      <4> QED BY <1>1, <3>1, <3>4, <3>6, <4>1 DEF Inv, ServiceResume, patches, SteppedCrossing
    <3> QED BY <3>5, <3>7 DEF Exact
  <2> QED BY <2>1, <2>2, <2>3 DEF Kept
<1>2. ASSUME NEW kind \in AllServices, ServiceStop(kind) PROVE Kept
  <2>1. Apart'
    BY <1>2, KeepApart DEF ServiceStop, patches, Apart, Inv
  <2>2. TrapExplained' /\ QuietPrompt'
    BY <1>2 DEF ServiceStop, patches, TrapExplained, QuietPrompt
  <2>3. ASSUME breach' = {} PROVE Exact'
    BY <1>2, <2>3 DEF Inv, ServiceStop, patches, Exact, PatchesExact, RecordsExact, Patched,
                      HasTemporary, PermanentOn, SteppedCrossing
  <2> QED BY <2>1, <2>2, <2>3 DEF Kept
<1>3. CASE StepidpNext
  BY <1>0, <1>3, ResumeKept DEF StepidpNext, TrapFrame
<1>4. CASE StepidpDone
  BY <1>0, <1>4, PromptKept DEF StepidpDone, BackToPrompt, TrapFrame
<1>5. CASE RunNext
  BY <1>0, <1>5, ResumeKept DEF RunNext, TrapFrame
<1>6. CASE TrapStop
  BY <1>0, <1>6, PromptKept DEF TrapStop, BackToPrompt, TrapFrame
<1> QED BY <1>1, <1>2, <1>3, <1>4, <1>5, <1>6 DEF RustTrap

LEMMA ResumingKept == ASSUME Inv, Resuming PROVE Kept
<1>0. TypeOK /\ mem \in Memory /\ temporary \in Breakpoint
  BY DEF Inv, TypeOK, Memory
<1>1. CASE StepTarget
  BY <1>0, <1>1, PromptSettled, ResumeKept DEF StepTarget, Stopped, AtPrompt, ResumeFrame
<1>2. ASSUME NEW n \in Budgets, StepidpTarget(n) PROVE Kept
  BY <1>0, <1>2, PromptSettled, ResumeKept DEF StepidpTarget, Stopped, AtPrompt, ResumeFrame
<1>3. ASSUME NEW n \in Budgets, RunTarget(n) PROVE Kept
  BY <1>0, <1>3, PromptSettled, ResumeKept DEF RunTarget, Stopped, AtPrompt, ResumeFrame
<1>4. CASE ContinueOverPermanent
  <2>1. breach = {} => Settled(mem, temporary, stepped)
    BY <1>4, PromptSettled DEF ContinueOverPermanent, Stopped, AtPrompt
  <2>2. CASE CanPrepare
    <3>1. PreparePermanentStep(mem, temporary) /\ ResumeTarget(pc) /\ AtPermanent(mem)
          /\ UNCHANGED <<image, permanent, x, breach>>
      BY <1>4, <2>2 DEF ContinueOverPermanent, ResumeFrame
    <3>2. Apart'
      BY <3>1, PrepareApart DEF Inv, Apart
    <3>3. mode' = "target"
      BY <3>1 DEF ResumeTarget
    <3>4. breach = {} => Exact'
      BY <1>0, <2>1, <2>2, <3>1, InvRecords, PrepareExact DEF Settled
    <3> QED BY <3>1, <3>2, <3>3, <3>4 DEF Kept, TrapExplained, QuietPrompt
  <2>3. CASE ~CanPrepare
    <3>1. BackToPrompt(mem, temporary, stepped, run) /\ UNCHANGED <<image, permanent, x, breach>>
      BY <1>4, <2>3 DEF ContinueOverPermanent, ResumeFrame
    <3>2. Apart'
      BY <3>1, KeepApart DEF Inv, Apart, BackToPrompt
    <3>3. breach = {} => Exact' /\ ~temporary'.enabled /\ stepped' = 0
      BY <2>1, <3>1, InvRecords, PlainExact DEF Settled, BackToPrompt, Exact, SteppedCrossing
    <3> QED BY <3>1, <3>2, <3>3 DEF Kept, TrapExplained, QuietPrompt, BackToPrompt
  <2> QED BY <2>2, <2>3
<1>5. CASE ContinueTarget
  <2>1. breach = {} => Settled(mem, temporary, stepped)
    BY <1>5, PromptSettled DEF ContinueTarget, Stopped, AtPrompt
  <2>2. mode' = "target"
    BY <1>5 DEF ContinueTarget, ResumeTarget
  <2>3. Apart'
    BY <1>5, KeepApart DEF Inv, Apart, ContinueTarget, ResumeFrame
  <2>4. breach = {} => Exact'
    BY <1>5, <2>1, InvRecords, PlainExact
    DEF Settled, ContinueTarget, ResumeFrame, Exact, SteppedCrossing
  <2> QED BY <1>5, <2>2, <2>3, <2>4 DEF Kept, TrapExplained, QuietPrompt, ContinueTarget, ResumeFrame
<1> QED BY <1>1, <1>2, <1>3, <1>4, <1>5 DEF Resuming

(* A command that writes words where no breakpoint is, and moves none.     *)
LEMMA WriteKept ==
  ASSUME Inv, NEW D, NEW words,
         breach' = {} => breach = {} /\ \A a \in D : ~ActiveBreakpoint(a),
         \A a \in Ram : a \notin D => mem'[a] = mem[a] /\ image'[a] = image[a],
         \A a \in Ram : a \in D => mem'[a] = words[a] /\ image'[a] = words[a],
         UNCHANGED <<temporary, permanent, stepped>>
  PROVE  breach' = {} => PatchesExact' /\ RecordsExact'
<1> SUFFICES ASSUME breach' = {} PROVE PatchesExact' /\ RecordsExact'
  OBVIOUS
<1>1. PatchesExact /\ RecordsExact /\ TypeOK
  BY DEF Inv
<1>2. \A a \in D : ~HasTemporary(a) /\ \A s \in Slots : ~PermanentOn(s, a)
  BY DEF ActiveBreakpoint, HasPermanent
<1>3. \A a : Patched(a)' <=> Patched(a)
  BY DEF Patched, HasTemporary, PermanentOn
<1>4. PatchesExact'
  <2> SUFFICES ASSUME NEW a \in Ram
               PROVE  mem'[a] = IF Patched(a)' THEN EBREAK ELSE image'[a]
    BY DEF PatchesExact
  <2>1. CASE a \in D
    BY <1>2, <1>3, <2>1 DEF Patched
  <2>2. CASE a \notin D
    BY <1>1, <1>3, <2>2 DEF PatchesExact
  <2> QED BY <2>1, <2>2
<1>5. RecordsExact'
  <2>1. temporary.enabled => temporary.address \in Ram /\ temporary.address \notin D
    BY <1>1, <1>2 DEF TypeOK, Breakpoint, HasTemporary
  <2>2. \A s \in Slots : permanent[s].enabled =>
          permanent[s].address \in Ram /\ permanent[s].address \notin D
    BY <1>1, <1>2 DEF TypeOK, Breakpoint, PermanentOn
  <2> QED BY <1>1, <2>1, <2>2 DEF RecordsExact
<1> QED BY <1>4, <1>5

(* At the prompt no step is being crossed, so nothing else can be lost.    *)
LEMMA PromptCrossing ==
  ASSUME Inv, mode = "monitor", breach = {}, stepped' = stepped PROVE SteppedCrossing'
BY DEF Inv, QuietPrompt, SteppedCrossing

LEMMA OverCells ==
  ASSUME NEW words, NEW g \in Memory
  PROVE  \A a \in Ram : Over(words, g)[a] = IF a \in DOMAIN words THEN words[a] ELSE g[a]
BY DEF Over, Memory

LEMMA LaunchingKept == ASSUME Inv, Launching PROVE Kept
<1>0. mem \in Memory /\ image \in Memory
  BY DEF Inv, TypeOK, Memory
<1>1. ASSUME NEW a \in Workspace \cup {BasicEntry}, RunTargetAt(a) PROVE Kept
  <2>0. Launch(a) /\ UNCHANGED <<mem, temporary, permanent, stepped, undo, image, breach>>
    BY <1>1 DEF RunTargetAt, patches
  <2>1. Apart'
    BY <2>0, KeepApart DEF Inv, Apart
  <2>2. TrapExplained' /\ QuietPrompt'
    BY <2>0 DEF Launch, ResumeTarget, TrapExplained, QuietPrompt
  <2>3. breach = {} => SteppedCrossing'
    BY <2>0, PromptCrossing DEF Launch, AtPrompt
  <2>4. breach = {} => PatchesExact' /\ RecordsExact'
    BY <2>0 DEF Inv, PatchesExact, RecordsExact, Patched, HasTemporary, PermanentOn
  <2> QED BY <2>0, <2>1, <2>2, <2>3, <2>4 DEF Kept, Exact
<1>2. CASE LaunchMinibasicAsm
  <2>0. Launch(BasicAsmEntry) /\ UNCHANGED <<temporary, permanent, stepped, undo>>
    BY <1>2 DEF LaunchMinibasicAsm, patches
  <2>1. Apart'
    BY <2>0, KeepApart DEF Inv, Apart
  <2>2. TrapExplained' /\ QuietPrompt'
    BY <2>0 DEF Launch, ResumeTarget, TrapExplained, QuietPrompt
  <2>b. breach' = {} => breach = {} /\ \A a \in DOMAIN BasicImage : ~ActiveBreakpoint(a)
    BY <1>2 DEF LaunchMinibasicAsm
  <2>3. breach = {} => SteppedCrossing'
    BY <2>0, PromptCrossing DEF Launch, AtPrompt
  <2>4. mem' = Over(BasicImage, mem) /\ image' = Over(BasicImage, image)
    BY <1>2 DEF LaunchMinibasicAsm
  <2>5. breach' = {} => PatchesExact' /\ RecordsExact'
    BY <1>0, <2>0, <2>b, <2>4, OverCells, WriteKept
  <2> QED BY <2>1, <2>2, <2>b, <2>3, <2>5 DEF Kept, Exact
<1> QED BY <1>1, <1>2 DEF Launching

(* Memory commands: what they share.                                       *)
LEMMA MemoryCommandKept ==
  ASSUME Inv, mode = "monitor", NEW D, NEW words,
         breach' = {} => breach = {} /\ \A a \in D : ~ActiveBreakpoint(a),
         \A a \in Ram : a \notin D => mem'[a] = mem[a] /\ image'[a] = image[a],
         \A a \in Ram : a \in D => mem'[a] = words[a] /\ image'[a] = words[a],
         UNCHANGED <<temporary, permanent, stepped, mode>>, UndoClearOfBreakpoints'
  PROVE  Kept
<1>1. Apart'
  BY DEF Inv, Apart, BreakpointsDisjoint, HasPermanent, PermanentOn
<1>2. breach' = {} => Exact'
  BY WriteKept, PromptCrossing DEF Exact
<1> QED BY <1>1, <1>2 DEF Kept, TrapExplained, QuietPrompt, Inv

LEMMA WriteCommandKept ==
  ASSUME Inv, mode = "monitor", NEW words, Write(words),
         UNCHANGED <<temporary, permanent, stepped, mode, breach>>, UndoClearOfBreakpoints'
  PROVE  Kept
<1>1. mem \in Memory /\ image \in Memory
  BY DEF Inv, TypeOK, Memory
<1>2. /\ \A a \in Ram : a \notin DOMAIN words => mem'[a] = mem[a] /\ image'[a] = image[a]
      /\ \A a \in Ram : a \in DOMAIN words => mem'[a] = words[a] /\ image'[a] = words[a]
  BY <1>1, OverCells DEF Write
<1>3. \A a \in DOMAIN words : ~ActiveBreakpoint(a)
  BY DEF Write
<1> QED BY <1>2, <1>3, MemoryCommandKept

LEMMA NoWriteKept ==
  ASSUME Inv, mode = "monitor", UNCHANGED <<mem, image, breach>>,
         UNCHANGED <<temporary, permanent, stepped, mode>>, UndoClearOfBreakpoints'
  PROVE  Kept
<1>1. PICK none : none = {}
  OBVIOUS
<1>2. /\ \A a \in Ram : a \notin none => mem'[a] = mem[a] /\ image'[a] = image[a]
      /\ \A a \in Ram : a \in none => mem'[a] = mem[a] /\ image'[a] = mem[a]
      /\ breach' = {} => breach = {} /\ \A a \in none : ~ActiveBreakpoint(a)
  BY <1>1
<1> QED BY <1>2, MemoryCommandKept

LEMMA EditMemoryKept ==
  ASSUME Inv, NEW a \in Ram, NEW w \in Word, EditMemory(a, w) PROVE Kept
<1>1. mode = "monitor" /\ Write(Cell(a, w))
      /\ UNCHANGED <<temporary, permanent, stepped, mode, breach>>
  BY DEF EditMemory, Stopped, AtPrompt, MemoryFrame, patches
<1>2. ~ActiveBreakpoint(a) /\ undo'.address = a
  BY DEF EditMemory, Write, Cell
<1>3. UndoClearOfBreakpoints'
  BY <1>1, <1>2 DEF UndoClearOfBreakpoints, ActiveBreakpoint, HasTemporary, HasPermanent, PermanentOn
<1> QED BY <1>1, <1>3, WriteCommandKept

LEMMA EditingKept == ASSUME Inv, Editing PROVE Kept
<1>0. /\ Stored \subseteq Word /\ mem \in Memory /\ image \in Memory
      /\ undo.address \in Ram /\ undo.original \in Word
  BY WordAssumption DEF Inv, TypeOK, Memory
<1>u. UNCHANGED <<undo, temporary, permanent>> => UndoClearOfBreakpoints'
  BY DEF Inv, UndoClearOfBreakpoints, ActiveBreakpoint, HasTemporary, HasPermanent, PermanentOn
<1>n. undo' = NoUndo => UndoClearOfBreakpoints'
  BY DEF UndoClearOfBreakpoints, NoUndo
<1>1. ASSUME NEW a \in Ram, NEW w \in Stored, EditMemory(a, w) PROVE Kept
  BY <1>0, <1>1, EditMemoryKept
<1>2. ASSUME NEW a \in Ram, NEW w \in Stored, DataDirective(a, w) PROVE Kept
  BY <1>0, <1>2, EditMemoryKept DEF DataDirective
<1>3. CASE UndoMemory
  <2>1. mode = "monitor" /\ undo' = NoUndo
        /\ UNCHANGED <<temporary, permanent, stepped, mode, breach>>
    BY <1>3 DEF UndoMemory, Stopped, AtPrompt, MemoryFrame, patches
  <2>2. CASE mem[undo.address] = undo.edited
    <3> DEFINE words == [b \in {undo.address} |-> undo.original]
    <3>1. ~ActiveBreakpoint(undo.address)
      BY <1>3 DEF UndoMemory, Inv, UndoClearOfBreakpoints
    <3>2. PICK at \in Ram, word \in Word : at = undo.address /\ word = undo.original
      BY <1>0
    <3>3. mem' = [mem EXCEPT ![at] = word] /\ image' = [image EXCEPT ![at] = word]
      BY <1>3, <2>2, <3>2 DEF UndoMemory
    <3>4. /\ \A a \in Ram : a \notin {at} => mem'[a] = mem[a] /\ image'[a] = image[a]
          /\ \A a \in Ram : a \in {at} => mem'[a] = [b \in {at} |-> word][a]
                                      /\ image'[a] = [b \in {at} |-> word][a]
      BY <1>0, <3>3 DEF Memory
    <3>5. \A a \in {at} : ~ActiveBreakpoint(a)
      BY <3>1, <3>2
    <3> QED BY <1>n, <2>1, <3>4, <3>5, MemoryCommandKept
  <2>3. CASE mem[undo.address] # undo.edited
    <3>1. mem' = mem /\ image' = image
      BY <1>3, <2>3 DEF UndoMemory
    <3> QED BY <1>n, <2>1, <3>1, NoWriteKept
  <2> QED BY <2>2, <2>3
<1>4. ASSUME NEW a \in Ram, NEW w \in Stored, LoadPayload(a, w) PROVE Kept
  BY <1>u, <1>4, WriteCommandKept DEF LoadPayload, Stopped, AtPrompt, MemoryFrame, patches
<1>5. ASSUME NEW a \in Data, ClearPayloadData(a) PROVE Kept
  <2>1. mode = "monitor" /\ UNCHANGED <<temporary, permanent, stepped, mode, undo>>
    BY <1>5 DEF ClearPayloadData, Stopped, AtPrompt, patches
  <2>2. breach' = {} => breach = {} /\ \A b \in {a} : ~ActiveBreakpoint(b)
    BY <1>5 DEF ClearPayloadData
  <2>3. /\ \A b \in Ram : b \notin {a} => mem'[b] = mem[b] /\ image'[b] = image[b]
        /\ \A b \in Ram : b \in {a} => mem'[b] = [c \in {a} |-> Zero][b]
                                   /\ image'[b] = [c \in {a} |-> Zero][b]
    BY <1>0, <1>5, RamAssumption DEF ClearPayloadData, Memory
  <2> QED BY <1>u, <2>1, <2>2, <2>3, MemoryCommandKept, ZenonT(60)
<1>6. ASSUME NEW a \in Workspace, NEW n \in ProgramLengths,
             NEW words \in [a .. a + n - 1 -> Stored], AssembleProgram(words, a)
      PROVE  Kept
  BY <1>n, <1>6, WriteCommandKept DEF AssembleProgram, AtPrompt, MemoryFrame, patches
<1>7. ASSUME NEW r \in Regs, SetRegister(r) PROVE Kept
  <2>1. mode = "monitor" /\ UNCHANGED <<mem, image, temporary, permanent, stepped, mode, undo, breach>>
    BY <1>7 DEF SetRegister, Stopped, AtPrompt, patches, history
  <2> QED BY <1>u, <2>1, NoWriteKept
<1> QED BY <1>1, <1>2, <1>3, <1>4, <1>5, <1>6, <1>7 DEF Editing

LEMMA TablesKept == ASSUME Inv, Tables PROVE Kept
<1>0. TypeOK /\ mem \in Memory /\ image \in Memory /\ permanent \in [Slots -> Breakpoint]
  BY DEF Inv, TypeOK, Memory
<1>1. ASSUME NEW a \in Ram, BreakTarget(a) PROVE Kept
  <2>1. mode = "monitor" /\ ~ActiveBreakpoint(a) /\ undo' = NoUndo
        /\ mem' = [mem EXCEPT ![a] = EBREAK]
        /\ UNCHANGED <<temporary, stepped, image, breach, mode>>
    BY <1>1 DEF BreakTarget, AtPrompt, TableFrame, history
  <2>2. PICK s \in Slots :
          /\ ~permanent[s].enabled
          /\ permanent' = [permanent EXCEPT ![s] =
                             [enabled |-> TRUE, address |-> a, original |-> mem[a]]]
    BY <1>1 DEF BreakTarget, FirstFree
  <2>3. \A r \in Slots : permanent'[r] = IF r = s
          THEN [enabled |-> TRUE, address |-> a, original |-> mem[a]] ELSE permanent[r]
    BY <1>0, <2>2
  <2>4. Apart'
    <3>1. \A r \in Slots : ~PermanentOn(r, a)
      BY <2>1 DEF ActiveBreakpoint, HasPermanent
    <3>2. BreakpointsDisjoint'
      BY <2>1, <2>3, <3>1 DEF Inv, BreakpointsDisjoint, ActiveBreakpoint, HasTemporary,
                              HasPermanent, PermanentOn
    <3> QED BY <2>1, <3>2 DEF Apart, UndoClearOfBreakpoints, NoUndo
  <2>5. TrapExplained' /\ QuietPrompt'
    BY <2>1 DEF Inv, TrapExplained, QuietPrompt
  <2>6. ASSUME breach' = {} PROVE Exact'
    <3>1. ~temporary.enabled /\ stepped = 0 /\ PatchesExact /\ RecordsExact
      BY <2>1, <2>6 DEF Inv, QuietPrompt
    <3>2. PatchesExact'
      <4> SUFFICES ASSUME NEW b \in Ram
                   PROVE  mem'[b] = IF Patched(b)' THEN EBREAK ELSE image'[b]
        BY DEF PatchesExact
      <4>1. CASE b = a
        BY <1>0, <2>1, <2>3, <3>1, <4>1, SlotNotZero DEF Patched, PermanentOn, Memory
      <4>2. CASE b # a
        <5>1. mem'[b] = mem[b]
          BY <1>0, <2>1, <4>2 DEF Memory
        <5>2. Patched(b)' <=> Patched(b)
          BY <2>1, <2>2, <2>3, <4>2 DEF Patched, PermanentOn, HasTemporary
        <5> QED BY <2>1, <3>1, <5>1, <5>2 DEF PatchesExact
      <4> QED BY <4>1, <4>2
    <3>3. mem[a] = image[a]
      BY <2>1, <3>1 DEF PatchesExact, Patched, ActiveBreakpoint, HasPermanent
    <3>4. RecordsExact'
      BY <2>1, <2>3, <3>1, <3>3 DEF RecordsExact
    <3> QED BY <2>1, <3>1, <3>2, <3>4 DEF Exact, SteppedCrossing
  <2> QED BY <2>4, <2>5, <2>6 DEF Kept
<1>2. ASSUME NEW s \in Slots, DeleteBreakpoint(s) PROVE Kept
  <2>1. mode = "monitor" /\ permanent[s].enabled /\ undo' = NoUndo
        /\ mem' = [mem EXCEPT ![permanent[s].address] = permanent[s].original]
        /\ permanent' = [permanent EXCEPT ![s] = Disabled]
        /\ UNCHANGED <<temporary, stepped, image, breach, mode>>
    BY <1>2 DEF DeleteBreakpoint, AtPrompt, TableFrame, history
  <2>2. PICK a \in Ram : a = permanent[s].address
    BY <1>0 DEF Breakpoint
  <2>3. \A r \in Slots : permanent'[r] = IF r = s THEN Disabled ELSE permanent[r]
    BY <1>0, <2>1
  <2>d. ~Disabled.enabled
    BY DEF Disabled
  <2>4. Apart'
    <3>1. BreakpointsDisjoint'
      BY <2>1, <2>3, <2>d DEF Inv, BreakpointsDisjoint, HasPermanent, PermanentOn
    <3> QED BY <2>1, <3>1 DEF Apart, UndoClearOfBreakpoints, NoUndo
  <2>5. TrapExplained' /\ QuietPrompt'
    BY <2>1 DEF Inv, TrapExplained, QuietPrompt
  <2>6. ASSUME breach' = {} PROVE Exact'
    <3>1. ~temporary.enabled /\ stepped = 0 /\ PatchesExact /\ RecordsExact
          /\ BreakpointsDisjoint
      BY <2>1, <2>6 DEF Inv, QuietPrompt
    <3>2. PatchesExact'
      <4> SUFFICES ASSUME NEW b \in Ram
                   PROVE  mem'[b] = IF Patched(b)' THEN EBREAK ELSE image'[b]
        BY DEF PatchesExact
      <4>1. CASE b = a
        <5>1. mem'[b] = image[b]
          BY <1>0, <2>1, <2>2, <3>1, <4>1 DEF RecordsExact, Memory
        <5>2. ~Patched(b)'
          BY <2>1, <2>2, <2>3, <2>d, <3>1, <4>1
          DEF Patched, PermanentOn, HasTemporary, BreakpointsDisjoint
        <5> QED BY <2>1, <5>1, <5>2
      <4>2. CASE b # a
        <5>1. mem'[b] = mem[b]
          BY <1>0, <2>1, <2>2, <4>2 DEF Memory
        <5>2. Patched(b)' <=> Patched(b)
          BY <2>1, <2>2, <2>3, <2>d, <4>2 DEF Patched, PermanentOn, HasTemporary
        <5> QED BY <2>1, <3>1, <5>1, <5>2 DEF PatchesExact
      <4> QED BY <4>1, <4>2
    <3>3. RecordsExact'
      BY <2>1, <2>3, <2>d, <3>1 DEF RecordsExact
    <3> QED BY <2>1, <3>1, <3>2, <3>3 DEF Exact, SteppedCrossing
  <2> QED BY <2>4, <2>5, <2>6 DEF Kept
<1>3. ASSUME UNCHANGED <<mem, image, breach>>,
             UNCHANGED <<temporary, permanent, stepped, mode, undo>>, mode = "monitor"
      PROVE  Kept
  <2>1. UndoClearOfBreakpoints'
    BY <1>3 DEF Inv, UndoClearOfBreakpoints, ActiveBreakpoint, HasTemporary, HasPermanent, PermanentOn
  <2> QED BY <1>3, <2>1, NoWriteKept
<1>4. ASSUME NEW a \in Ram, NEW k \in {{"load"}, {"store"}, {"load", "store"}},
             AddWatchpoint(a, k)
      PROVE  Kept
  BY <1>3, <1>4 DEF AddWatchpoint, AtPrompt, TableFrame, history
<1>5. ASSUME NEW i \in WatchSlots, DeleteWatchpoint(i) PROVE Kept
  BY <1>3, <1>5 DEF DeleteWatchpoint, AtPrompt, TableFrame, history
<1> QED BY <1>1, <1>2, <1>4, <1>5 DEF Tables

LEMMA InitInv == Init => Inv
<1> SUFFICES ASSUME Init PROVE Inv
  OBVIOUS
<1>1. TypeOK /\ ~temporary.enabled /\ \A s \in Slots : ~permanent[s].enabled
  BY InitTypes DEF Init, Disabled
<1>2. \A a \in Ram : ~Patched(a)
  BY <1>1 DEF Patched, HasTemporary, PermanentOn
<1>3. PatchesExact /\ RecordsExact /\ SteppedCrossing
  BY <1>1, <1>2 DEF Init, PatchesExact, RecordsExact, SteppedCrossing
<1>4. BreakpointsDisjoint /\ UndoClearOfBreakpoints /\ QuietPrompt /\ TrapExplained
  BY <1>1 DEF Init, BreakpointsDisjoint, UndoClearOfBreakpoints, NoUndo, QuietPrompt, TrapExplained
<1> QED BY <1>1, <1>3, <1>4 DEF Inv

LEMMA UnchangedInv == Inv /\ UNCHANGED vars => Inv'
BY DEF Inv, vars, target, patches, counts, history, TypeOK, BreakpointsDisjoint,
       UndoClearOfBreakpoints, QuietPrompt, TrapExplained, Traps, Cause, PatchesExact,
       RecordsExact, SteppedCrossing, ActiveBreakpoint, HasTemporary, HasPermanent,
       PermanentOn, Patched

LEMMA NextInv == ASSUME Inv, Next PROVE Inv'
<1>1. TypeOK'
  BY TargetTypes, RustTrapTypes, ResumingTypes, LaunchingTypes, EditingTypes, TablesTypes
  DEF Inv, Next
<1>2. Kept
  BY TargetKept, RustTrapKept, ResumingKept, LaunchingKept, EditingKept, TablesKept DEF Next
<1> QED BY <1>1, <1>2 DEF Kept, Apart, Exact, Inv

(* The patches of the debugger are exact in every reachable state: memory  *)
(* is the image of the user with an EBREAK at each patched word and at no  *)
(* other, the records hold the words underneath, and a step over a         *)
(* permanent breakpoint always lands on a patch (main.rs 2705-3222).       *)
THEOREM Invariance == Spec => []Inv
BY InitInv, NextInv, UnchangedInv, PTL DEF Spec

-----------------------------------------------------------------------------
(* What the invariant is for.                                              *)

LEMMA InvRecoverable == Inv => ProgramIntact
<1> SUFFICES ASSUME Inv, breach = {}, NEW a \in Ram PROVE Underlying(a) = image[a]
  BY DEF ProgramIntact, TextRecoverable
<1>1. PatchesExact /\ RecordsExact
  BY DEF Inv
<1>2. CASE HasTemporary(a)
  BY <1>1, <1>2 DEF Underlying, RecordsExact, HasTemporary
<1>3. CASE ~HasTemporary(a) /\ mem[a] = EBREAK /\ HasPermanent(a)
  BY <1>1, <1>3, PermanentAtFound DEF Underlying, RecordsExact, PermanentOn
<1>4. CASE ~HasTemporary(a) /\ ~(mem[a] = EBREAK /\ HasPermanent(a))
  BY <1>1, <1>4 DEF Underlying, PatchesExact, Patched, HasPermanent
<1> QED BY <1>2, <1>3, <1>4

(* No word of the program is ever lost under a breakpoint, as long as none *)
(* of the gaps that bypass the records was taken.                          *)
THEOREM ProgramIsIntact == Spec => []ProgramIntact
BY Invariance, InvRecoverable, PTL

LEMMA InvArmed == Inv => Armed
BY DEF Inv, TypeOK, Breakpoint, Armed, PatchesExact, Patched, PermanentOn

(* A permanent breakpoint that is listed is armed in memory, but for the   *)
(* one a step is crossing (restore_stepped_permanent_breakpoint).          *)
THEOREM BreakpointsAreArmed == Spec => []Armed
BY Invariance, InvArmed, PTL

(* Nothing of a step is left in memory when a command can be typed.        *)
THEOREM PromptIsQuiet == Spec => []QuietPrompt
<1>1. Inv => QuietPrompt
  BY DEF Inv
<1> QED BY <1>1, Invariance, PTL

(* No two breakpoints share a word, whatever gap was taken.                *)
THEOREM BreakpointsStayDisjoint == Spec => []BreakpointsDisjoint
<1>1. Inv => BreakpointsDisjoint
  BY DEF Inv
<1> QED BY <1>1, Invariance, PTL

-----------------------------------------------------------------------------
(* A count given to step, run or stepidp is a bound of the instructions    *)
(* that retire.  Two facts make it one: where a bounded step lands there   *)
(* is a patch, so that the target retires one instruction per resume; and  *)
(* each resume takes one from the count of its command, and from no other. *)

Bounded == mode # "monitor" /\ order.count # 0

(* Either the instruction at pc is still to retire, and the word after it  *)
(* is patched, or it has, and pc is on the patch.                          *)
Landing ==
  Bounded /\ breach = {} /\ pc \in Ram =>
    IF fresh THEN mem[pc] # EBREAK => LET next == Succ[<<mem[pc], x, pc>>] IN
                                      next \in Ram /\ Patched(next)
             ELSE Patched(pc)

(* No command counts with what an earlier one has left.                    *)
OwnCount ==
  Bounded /\ ~stale =>
    /\ order.by \in {"step", "stepidp", "run"}
    /\ order.by = "stepidp" <=> stepidp.active
    /\ order.by = "step" => run = 0

(* The resumes the command still has after the one under way.              *)
Less(n) == IF n > 1 THEN n - 1 ELSE 0
Left == CASE order.by = "run" -> Less(run)
          [] order.by = "stepidp" -> Less(stepidp.remaining)
          [] OTHER -> 0
Spent == retired + (IF fresh THEN 1 ELSE 0) + Left
Count ==
  breach = {} /\ order.count # 0 /\ ~stale =>
    /\ mode = "monitor" => retired <= order.count
    /\ mode # "monitor" => Spent <= order.count

BudgetInv == Landing /\ OwnCount /\ Count

LEMMA BudgetInvKeeps == ASSUME TypeOK, BudgetInv PROVE BudgetKept
<1>1. retired \in Nat /\ run \in Nat /\ stepidp.remaining \in Nat /\ order.count \in Nat
  BY DEF TypeOK
<1>2. Left \in Nat
  BY <1>1 DEF Left, Less
<1>3. Spent >= retired
  BY <1>1, <1>2 DEF Spent
<1> QED BY <1>1, <1>2, <1>3 DEF BudgetInv, Count, BudgetKept, Spent

-----------------------------------------------------------------------------
(* Where a step lands.                                                     *)

(* resume_single_step resumes below a patch, whatever its caller reached.  *)
LEMMA ResumeLands ==
  ASSUME TypeOK, NEW m \in Memory, NEW t, NEW s, NEW r, ResumeSingleStep(m, t, s, r),
         x' = x, permanent' = permanent
  PROVE  mode' = "monitor" \/ (mode' = "target" /\ fresh' = TRUE /\ Landing')
<1>1. CASE StepPermanent(m, t, r)
  <2>1. /\ mode' = "target" /\ fresh' = TRUE /\ pc' = pc
        /\ pc \in Ram /\ HasPermanent(pc) /\ CanPrepare /\ PreparePermanentStep(m, t)
    BY <1>1 DEF StepPermanent, ResumeTarget, AtPermanent
  <2>2. PermanentAt(pc) \in Slots /\ PermanentOn(PermanentAt(pc), pc)
    BY <2>1, PermanentAtFound
  <2>3. PICK stop : stop = PreparedStop
    OBVIOUS
  <2>4. /\ stop \in Ram /\ stop # pc
        /\ stop = Succ[<<PreparedWord, x, pc>>]
    BY <2>1, <2>3, ConstantTypes DEF CanPrepare, PreparedStop, NextExecutionPc
  <2>5. CASE HasPermanent(stop)
    <3>1. mem' = [m EXCEPT ![pc] = PreparedWord] /\ stepped' = PermanentAt(pc) /\ temporary' = t
      BY <2>1, <2>3, <2>5 DEF PreparePermanentStep
    <3>2. mem'[pc] = PreparedWord
      BY <2>1, <3>1 DEF Memory
    <3>3. PICK k \in Slots : PermanentOn(k, stop)
      BY <2>5 DEF HasPermanent
    <3>4. k # PermanentAt(pc)
      BY <2>2, <2>4, <3>3 DEF PermanentOn
    <3>5. Patched(stop)'
      BY <3>1, <3>3, <3>4 DEF Patched, PermanentOn
    <3> QED BY <2>1, <2>4, <3>2, <3>5 DEF Landing
  <2>6. CASE ~HasPermanent(stop)
    <3>1. /\ mem' = [[m EXCEPT ![pc] = PreparedWord] EXCEPT ![stop] = EBREAK]
          /\ temporary'.enabled /\ temporary'.address = stop
      BY <2>1, <2>3, <2>6 DEF PreparePermanentStep, InstallTemporary
    <3>2. mem'[pc] = PreparedWord
      BY <2>1, <2>4, <3>1 DEF Memory
    <3>3. Patched(stop)'
      BY <3>1 DEF Patched, HasTemporary
    <3> QED BY <2>1, <2>4, <3>2, <3>3 DEF Landing
  <2> QED BY <2>5, <2>6
<1>2. CASE StepIntoEbreak(m, t, s, r)
  BY <1>2 DEF StepIntoEbreak, ResumeTarget, Landing
<1>3. CASE StepTemporary(m, s, r)
  <2>1. PICK at \in Ram : /\ Installable(NextExecutionPc(m[at], at))
                          /\ InstallTemporary(m, NextExecutionPc(m[at], at))
                          /\ mode' = "target" /\ fresh' = TRUE /\ pc' = at
    BY <1>3 DEF StepTemporary, ResumeTarget
  <2>2. PICK stop : stop = NextExecutionPc(m[at], at)
    OBVIOUS
  <2>3. /\ stop \in Ram /\ mem' = [m EXCEPT ![stop] = EBREAK]
        /\ temporary'.enabled /\ temporary'.address = stop
    BY <2>1, <2>2 DEF Installable, InstallTemporary
  <2>4. Patched(stop)'
    BY <2>3 DEF Patched, HasTemporary
  <2>5. stop = Succ[<<m[at], x, at>>]
    BY <2>1, <2>2, <2>3, ConstantTypes DEF NextExecutionPc
  <2>6. mem'[at] # EBREAK => mem'[at] = m[at]
    BY <2>3 DEF Memory
  <2> QED BY <2>1, <2>3, <2>4, <2>5, <2>6 DEF Landing
<1>4. CASE StepWatched(m, t, s) \/ StepRefused(m, t, s, r)
  BY <1>4 DEF StepWatched, StepRefused, BackToPrompt
<1> QED BY <1>1, <1>2, <1>3, <1>4 DEF ResumeSingleStep

(* An instruction retires only before the patch, and lands on it.          *)
LEMMA RetiresFresh ==
  ASSUME Inv, Landing, Bounded, breach = {}, pc \in Ram, Kind[mem[pc]] # "ebreak"
  PROVE  fresh /\ LET next == Succ[<<mem[pc], x, pc>>] IN next \in Ram /\ Patched(next)
<1>1. mem[pc] # EBREAK
  BY WordAssumption, ConstantTypes
<1>2. ~Patched(pc)
  BY RetiringWord
<1> QED BY <1>1, <1>2 DEF Landing

-----------------------------------------------------------------------------
(* Steps of the target.                                                    *)

LEMMA LeftType == TypeOK => Left \in Nat /\ retired \in Nat /\ order.count \in Nat
BY DEF TypeOK, Left, Less

(* An instruction retires: what it spends was still to come.               *)
LEMMA RetireCount ==
  ASSUME TypeOK, Count, Retire, mode # "monitor", mode' # "monitor", breach' = {} => breach = {} /\ fresh,
         UNCHANGED <<order, stale, run, stepidp>>
  PROVE  Count'
<1> SUFFICES ASSUME breach' = {}, order.count # 0, ~stale PROVE Spent' <= order.count
  BY DEF Count
<1>1. Spent <= order.count /\ fresh
  BY DEF Count
<1>2. Left' = Left
  BY DEF Left, Less
<1>3. retired' <= retired + 1 /\ ~fresh' /\ retired' \in Nat
  BY LeftType, RetireTypes DEF Retire
<1> QED BY <1>1, <1>2, <1>3, LeftType DEF Spent

LEMMA OwnCountKept ==
  ASSUME OwnCount, UNCHANGED <<order, stale, run, stepidp>>, mode # "monitor" PROVE OwnCount'
BY DEF OwnCount, Bounded

LEMMA TargetBudget == ASSUME Inv, BudgetInv, Target PROVE BudgetInv'
<1> USE DEF BudgetInv
<1>0. TypeOK
  BY DEF Inv
<1>1. CASE TrapEntry
  <2>1. mode = "target" /\ mode' = "trap" /\ UNCHANGED <<mem, pc, x, patches, counts, history>>
    BY <1>1 DEF TrapEntry
  <2>2. Landing'
    BY <2>1 DEF Landing, Bounded, patches, history, Patched, HasTemporary, PermanentOn
  <2>3. OwnCount' /\ Count'
    BY <2>1 DEF OwnCount, Count, Bounded, Spent, Left, Less, history, counts
  <2> QED BY <2>2, <2>3
<1>2. CASE Execute \/ Store
  <2>1. /\ mode = "target" /\ mode' = mode /\ pc \in Ram /\ Kind[mem[pc]] # "ebreak" /\ Retire
        /\ pc' = Succ[<<mem[pc], x, pc>>]
        /\ UNCHANGED <<patches, counts, order, stale>> /\ (breach' = {} => breach = {})
    BY <1>2 DEF Execute, Store
  <2>2. OwnCount'
    BY <2>1, OwnCountKept DEF counts
  <2>3. CASE ~Bounded
    BY <2>1, <2>2, <2>3 DEF Landing, Bounded, Count
  <2>4. CASE breach' # {}
    BY <2>2, <2>4 DEF Landing, Count
  <2>5. CASE Bounded /\ breach' = {}
    <3>1. PICK next : next = Succ[<<mem[pc], x, pc>>]
      OBVIOUS
    <3>2. fresh /\ next \in Ram /\ Patched(next)
      BY <2>1, <2>5, <3>1, RetiresFresh
    <3>3. Patched(next)'
      BY <2>1, <3>2 DEF patches, Patched, HasTemporary, PermanentOn
    <3>4. Landing'
      BY <2>1, <3>1, <3>3 DEF Landing, Retire
    <3>5. Count'
      BY <1>0, <2>1, <3>2, RetireCount DEF counts
    <3> QED BY <2>2, <3>4, <3>5
  <2> QED BY <2>3, <2>4, <2>5
<1> QED BY <1>1, <1>2 DEF Target

-----------------------------------------------------------------------------
(* rust_trap and the commands.                                             *)

(* Back at the prompt, or still there: what retired is within the count.   *)
LEMMA PromptBudget ==
  ASSUME TypeOK, BudgetInv, mode' = "monitor", UNCHANGED <<retired, order, stale>>,
         breach' = {} => breach = {}
  PROVE  BudgetInv'
<1>1. Landing' /\ OwnCount'
  BY DEF Landing, OwnCount, Bounded
<1>2. breach = {} /\ order.count # 0 /\ ~stale => retired <= order.count
  BY BudgetInvKeeps DEF BudgetKept
<1> QED BY <1>1, <1>2 DEF BudgetInv, Count

(* RUN_REMAINING when resume_single_step resumes.                          *)
LEMMA ResumeRun ==
  ASSUME NEW m, NEW t, NEW s, NEW r, ResumeSingleStep(m, t, s, r), mode' # "monitor"
  PROVE  run' = r
BY DEF ResumeSingleStep, StepPermanent, StepIntoEbreak, StepTemporary, StepWatched, StepRefused,
       ResumeTarget, BackToPrompt

(* A service that resumes: the call retires, like an instruction.          *)
LEMMA ServiceBudget == ASSUME Inv, BudgetInv, ServiceResume PROVE BudgetInv'
<1> USE DEF BudgetInv
<1>0. TypeOK /\ TrapExplained
  BY DEF Inv
<1>1. /\ mode = "trap" /\ mode' = "target" /\ mcause = "ecall" /\ Retire /\ pc' = After(pc)
      /\ UNCHANGED <<mem, patches, counts, order, stale, breach>>
  BY DEF ServiceResume
<1>2. pc \in Ram /\ Kind[mem[pc]] = "ecall"
  BY <1>0, <1>1 DEF TrapExplained, Cause
<1>3. Succ[<<mem[pc], x, pc>>] = After(pc)
  BY <1>0, <1>2, WordAssumption DEF TypeOK
<1>4. OwnCount'
  BY <1>1, OwnCountKept DEF counts
<1>5. CASE ~Bounded
  BY <1>1, <1>4, <1>5 DEF Landing, Bounded, Count
<1>6. CASE breach' # {}
  BY <1>4, <1>6 DEF Landing, Count
<1>7. CASE Bounded /\ breach' = {}
  <2>1. PICK next : next = After(pc)
    OBVIOUS
  <2>2. fresh /\ Patched(next)
    BY <1>1, <1>2, <1>3, <1>7, <2>1, RetiresFresh
  <2>3. Patched(next)'
    BY <1>1, <2>2 DEF patches, Patched, HasTemporary, PermanentOn
  <2>4. Landing'
    BY <1>1, <2>1, <2>3 DEF Landing, Retire
  <2>5. Count'
    BY <1>0, <1>1, <2>2, RetireCount DEF counts
  <2> QED BY <1>4, <2>4, <2>5
<1> QED BY <1>5, <1>6, <1>7

LEMMA Sums == \A m, n \in Nat : m + 1 + n \in Nat
OBVIOUS
LEMMA SumsInOrder == \A m, n, k \in Nat : n <= k - 2 => m + 1 + n <= m + (k - 1)
OBVIOUS

(* The next step of a stepidp takes one from its count.                    *)
LEMMA StepidpBudget == ASSUME TypeOK, BudgetInv, StepidpNext PROVE BudgetInv'
<1> USE DEF BudgetInv
<1>1. /\ mode = "trap" /\ stepidp.active /\ stepidp.remaining > 1 /\ stepidp' = StepidpCounted
      /\ ResumeSingleStep(Restored, Disabled, 0, run)
      /\ UNCHANGED <<x, permanent, retired, order, stale, breach>>
  BY DEF StepidpNext, HandlesTrap, StepidpStop, TrapFrame
<1>2. CASE mode' = "monitor"
  BY <1>1, <1>2, PromptBudget
<1>3. CASE mode' # "monitor"
  <2>1. fresh' = TRUE /\ Landing'
    BY <1>1, <1>3, RestoredType, ResumeLands
  <2>2. stepidp'.active = stepidp.active /\ stepidp'.remaining = stepidp.remaining - 1
    BY <1>1 DEF StepidpCounted, TypeOK
  <2>3. OwnCount'
    BY <1>1, <2>2 DEF OwnCount, Bounded
  <2>4. ASSUME breach = {}, order.count # 0, ~stale PROVE Spent' <= order.count
    <3>1. order.by = "stepidp" /\ Spent <= order.count
      BY <1>1, <2>4 DEF OwnCount, Bounded, Count
    <3>2. stepidp.remaining \in Nat /\ retired \in Nat /\ order.count \in Nat
      BY DEF TypeOK
    <3>3. Left = stepidp.remaining - 1 /\ Left' \in Nat /\ Left' <= stepidp.remaining - 2
      BY <1>1, <2>2, <3>1, <3>2 DEF Left, Less
    <3>4. Spent >= retired + (stepidp.remaining - 1)
      BY <3>2, <3>3 DEF Spent
    <3>5. Spent' <= retired + 1 + (stepidp.remaining - 2)
      BY <1>1, <2>1, <3>2, <3>3 DEF Spent
    <3>6. Spent \in Nat
      BY <3>2, <3>3 DEF Spent
    <3>7. Spent' = retired + 1 + Left'
      BY <1>1, <2>1, <3>3 DEF Spent
    <3>8. retired + 1 + Left' \in Nat
      BY <3>2, <3>3, Sums, Zenon
    <3>9. Spent' \in Nat
      BY <3>7, <3>8, Zenon
    <3> QED BY <3>1, <3>2, <3>4, <3>5, <3>6, <3>9
  <2>5. Count'
    BY <1>1, <1>3, <2>4 DEF Count
  <2> QED BY <2>1, <2>3, <2>5
<1> QED BY <1>2, <1>3

(* The next step of a run takes one from RUN_REMAINING.                    *)
LEMMA RunBudget == ASSUME TypeOK, BudgetInv, RunNext PROVE BudgetInv'
<1> USE DEF BudgetInv
<1>1. /\ mode = "trap" /\ run > 1 /\ ~stepidp.active /\ UNCHANGED stepidp
      /\ ResumeSingleStep(Restored, Disabled, 0, run - 1)
      /\ UNCHANGED <<x, permanent, retired, order, stale, breach>>
  BY DEF RunNext, HandlesTrap, RunGoesOn, StepidpStop, TrapFrame, TypeOK
<1>2. CASE mode' = "monitor"
  BY <1>1, <1>2, PromptBudget
<1>3. CASE mode' # "monitor"
  <2>1. fresh' = TRUE /\ Landing' /\ run' = run - 1
    BY <1>1, <1>3, RestoredType, ResumeLands, ResumeRun
  <2>2. run \in Nat /\ retired \in Nat /\ order.count \in Nat
    BY DEF TypeOK
  <2>3. Bounded /\ ~stale => order.by = "run"
    BY <1>1, <2>2 DEF OwnCount
  <2>4. OwnCount'
    BY <1>1, <2>3 DEF OwnCount, Bounded
  <2>5. ASSUME breach = {}, order.count # 0, ~stale PROVE Spent' <= order.count
    <3>1. order.by = "run" /\ Spent <= order.count
      BY <1>1, <2>3, <2>5 DEF Bounded, Count
    <3>2. Left = run - 1 /\ Left' \in Nat /\ Left' <= run - 2
      BY <1>1, <2>1, <2>2, <3>1 DEF Left, Less
    <3>3. Spent >= retired + (run - 1) /\ Spent \in Nat
      BY <1>1, <2>2, <3>2 DEF Spent
    <3>4. Spent' = retired + 1 + Left'
      BY <1>1, <2>1, <3>2 DEF Spent
    <3>5. retired + 1 + Left' \in Nat
      BY <2>2, <3>2, Sums, Zenon
    <3>6. retired + 1 + Left' <= retired + (run - 1)
      BY <2>2, <3>2, SumsInOrder, Zenon
    <3>7. Spent' \in Nat /\ Spent' <= retired + (run - 1)
      BY <3>4, <3>5, <3>6, Zenon
    <3> QED BY <2>2, <3>1, <3>3, <3>7
  <2>6. Count'
    BY <1>1, <1>3, <2>5 DEF Count
  <2> QED BY <2>1, <2>4, <2>6
<1> QED BY <1>2, <1>3

LEMMA RustTrapBudget == ASSUME Inv, BudgetInv, RustTrap PROVE BudgetInv'
<1>0. TypeOK
  BY DEF Inv
<1>1. ASSUME NEW kind \in AllServices, ServiceStop(kind) PROVE BudgetInv'
  BY <1>0, <1>1, PromptBudget DEF ServiceStop
<1>2. CASE StepidpDone \/ TrapStop
  BY <1>0, <1>2, PromptBudget DEF StepidpDone, TrapStop, BackToPrompt, TrapFrame
<1> QED BY <1>0, <1>1, <1>2, ServiceBudget, StepidpBudget, RunBudget DEF RustTrap

(* A bounded command starts with its whole count.                          *)
LEMMA ResumingBudget == ASSUME TypeOK, Resuming PROVE BudgetInv'
<1> USE DEF BudgetInv
<1>0. mem \in Memory /\ run \in Nat
  BY DEF TypeOK, Memory
<1>1. CASE ContinueOverPermanent \/ ContinueTarget
  BY <1>1 DEF ContinueOverPermanent, ContinueTarget, Orders, Landing, OwnCount, Count, Bounded
<1>2. CASE StepTarget
  <2>1. /\ ResumeSingleStep(mem, temporary, stepped, run) /\ UNCHANGED <<x, permanent, stepidp>>
        /\ order' = [by |-> "step", count |-> 1] /\ retired' = 0
        /\ stale' = (run # 0 \/ stepidp.active)
    BY <1>2 DEF StepTarget, Orders, ResumeFrame
  <2>2. mode' # "monitor" => fresh' = TRUE /\ Landing' /\ run' = run
    BY <1>0, <2>1, ResumeLands, ResumeRun
  <2>3. Landing'
    BY <2>2 DEF Landing, Bounded
  <2>4. OwnCount'
    BY <2>1, <2>2 DEF OwnCount, Bounded
  <2>5. Count'
    BY <2>1, <2>2 DEF Count, Spent, Left
  <2> QED BY <2>3, <2>4, <2>5
<1>3. ASSUME NEW n \in Budgets, StepidpTarget(n) PROVE BudgetInv'
  <2>1. /\ ResumeSingleStep(mem, temporary, stepped, run) /\ UNCHANGED <<x, permanent>>
        /\ stepidp'.active /\ stepidp'.remaining = n
        /\ order' = [by |-> "stepidp", count |-> n] /\ retired' = 0
    BY <1>3 DEF StepidpTarget, Orders, ResumeFrame
  <2>2. mode' # "monitor" => fresh' = TRUE /\ Landing'
    BY <1>0, <2>1, ResumeLands
  <2>3. Landing'
    BY <2>2 DEF Landing, Bounded
  <2>4. OwnCount'
    BY <2>1 DEF OwnCount
  <2>5. n \in Nat \ {0}
    BY BoundAssumption
  <2>6. Count'
    BY <2>1, <2>2, <2>5 DEF Count, Spent, Left, Less
  <2> QED BY <2>3, <2>4, <2>6
<1>4. ASSUME NEW n \in Budgets, RunTarget(n) PROVE BudgetInv'
  <2>1. /\ ResumeSingleStep(mem, temporary, stepped, n) /\ UNCHANGED <<x, permanent, stepidp>>
        /\ order' = [by |-> "run", count |-> n] /\ retired' = 0 /\ stale' = stepidp.active
    BY <1>4 DEF RunTarget, Orders, ResumeFrame
  <2>2. mode' # "monitor" => fresh' = TRUE /\ Landing' /\ run' = n
    BY <1>0, <2>1, ResumeLands, ResumeRun
  <2>3. Landing'
    BY <2>2 DEF Landing, Bounded
  <2>4. OwnCount'
    BY <2>1 DEF OwnCount
  <2>5. n \in Nat \ {0}
    BY BoundAssumption
  <2>6. Count'
    BY <2>1, <2>2, <2>5 DEF Count, Spent, Left, Less
  <2> QED BY <2>3, <2>4, <2>6
<1> QED BY <1>1, <1>2, <1>3, <1>4 DEF Resuming

LEMMA LaunchingBudget == ASSUME Launching PROVE BudgetInv'
BY DEF Launching, RunTargetAt, LaunchMinibasicAsm, Launch, Orders, BudgetInv, Landing, OwnCount,
       Count, Bounded

(* The other commands stay at the prompt.                                  *)
LEMMA EditingBudget == ASSUME TypeOK, BudgetInv, Editing \/ Tables PROVE BudgetInv'
<1>1. CASE Editing
  <2>1. mode' = "monitor" /\ UNCHANGED <<retired, order, stale>> /\ (breach' = {} => breach = {})
    BY <1>1 DEF Editing, EditMemory, DataDirective, UndoMemory, LoadPayload, ClearPayloadData,
                AssembleProgram, SetRegister, MemoryFrame, Stopped, AtPrompt, history
  <2> QED BY <2>1, PromptBudget
<1>2. CASE Tables
  <2>1. mode' = "monitor" /\ UNCHANGED <<retired, order, stale, breach>>
    BY <1>2 DEF Tables, BreakTarget, DeleteBreakpoint, AddWatchpoint, DeleteWatchpoint, TableFrame,
                AtPrompt, history
  <2> QED BY <2>1, PromptBudget
<1> QED BY <1>1, <1>2

-----------------------------------------------------------------------------
LEMMA BudgetInvariance == Spec => [](Inv /\ BudgetInv)
<1>1. Init => BudgetInv
  BY DEF Init, BudgetInv, Landing, OwnCount, Count, Bounded
<1>2. Inv /\ BudgetInv /\ [Next]_vars => BudgetInv'
  <2> SUFFICES ASSUME Inv, BudgetInv, [Next]_vars PROVE BudgetInv'
    OBVIOUS
  <2>0. TypeOK
    BY DEF Inv
  <2>1. CASE Next
    BY <2>0, <2>1, TargetBudget, RustTrapBudget, ResumingBudget, LaunchingBudget, EditingBudget
    DEF Next
  <2>2. CASE UNCHANGED vars
    BY <2>2 DEF vars, target, patches, counts, history, BudgetInv, Landing, OwnCount, Count, Bounded,
                Spent, Left, Less, Patched, HasTemporary, PermanentOn
  <2> QED BY <2>1, <2>2
<1> QED BY <1>1, <1>2, Invariance, PTL DEF Spec

(* step, run and stepidp retire at most the instructions they were given,  *)
(* when no count of an earlier command was left behind (rust_trap, whose   *)
(* resumes count traps and not instructions).                              *)
THEOREM BudgetIsKept == Spec => []BudgetKept
<1>1. Inv /\ BudgetInv => BudgetKept
  BY BudgetInvKeeps DEF Inv
<1> QED BY <1>1, BudgetInvariance, PTL

-----------------------------------------------------------------------------
(* Watchpoints.  resume_single_step looks at the instruction it resumes;   *)
(* that no other one retires before the next look is Landing.              *)
WatchReady ==
  /\ mode = "target" /\ order.count # 0 /\ breach = {} /\ stepped = 0
  /\ fresh /\ pc \in Ram /\ mem[pc] # EBREAK
  => ~WatchHit(mem[pc])

LEMMA ResumeWatched ==
  ASSUME TypeOK, NEW m \in Memory, NEW t, NEW s, NEW r, ResumeSingleStep(m, t, s, r),
         x' = x, watch' = watch
  PROVE  WatchReady'
<1>1. CASE StepPermanent(m, t, r)
  <2>1. stepped' = PermanentAt(pc) /\ HasPermanent(pc)
    BY <1>1 DEF StepPermanent, PreparePermanentStep, AtPermanent
  <2>2. stepped' # 0
    BY <2>1, PermanentAtFound, SlotNotZero
  <2> QED BY <2>2 DEF WatchReady
<1>2. CASE StepIntoEbreak(m, t, s, r)
  BY <1>2 DEF StepIntoEbreak, ResumeTarget, WatchReady
<1>3. CASE StepTemporary(m, s, r)
  <2>1. PICK at \in Ram : /\ pc' = at /\ ~WatchHit(m[at])
                          /\ \E stop : mem' = [m EXCEPT ![stop] = EBREAK]
    BY <1>3 DEF StepTemporary, ResumeTarget, InstallTemporary
  <2>2. mem'[at] # EBREAK => mem'[at] = m[at]
    BY <2>1 DEF Memory
  <2>3. ~WatchHit(m[at])'
    BY <2>1 DEF WatchHit
  <2> QED BY <2>1, <2>2, <2>3 DEF WatchReady, WatchHit
<1>4. CASE StepWatched(m, t, s) \/ StepRefused(m, t, s, r)
  BY <1>4 DEF StepWatched, StepRefused, BackToPrompt, WatchReady
<1> QED BY <1>1, <1>2, <1>3, <1>4 DEF ResumeSingleStep

LEMMA NextWatched == ASSUME TypeOK, WatchReady, Next PROVE WatchReady'
<1>0. mem \in Memory /\ Restored \in Memory
  BY RestoredType DEF TypeOK, Memory
<1>1. CASE Target \/ ServiceResume
  BY <1>1 DEF Target, ServiceResume, Execute, Store, TrapEntry, Retire, WatchReady
<1>2. CASE StepidpNext \/ RunNext
  BY <1>0, <1>2, ResumeWatched DEF StepidpNext, RunNext, TrapFrame
<1>3. CASE StepidpDone \/ TrapStop \/ \E kind \in AllServices : ServiceStop(kind)
  BY <1>3 DEF StepidpDone, TrapStop, ServiceStop, BackToPrompt, WatchReady
<1>4. CASE Resuming
  <2>1. CASE ContinueOverPermanent \/ ContinueTarget
    BY <2>1 DEF ContinueOverPermanent, ContinueTarget, Orders, WatchReady
  <2>2. CASE StepTarget
    BY <1>0, <2>2, ResumeWatched DEF StepTarget, ResumeFrame
  <2>3. ASSUME NEW n \in Budgets, StepidpTarget(n) \/ RunTarget(n) PROVE WatchReady'
    BY <1>0, <2>3, ResumeWatched DEF StepidpTarget, RunTarget, ResumeFrame
  <2> QED BY <1>4, <2>1, <2>2, <2>3 DEF Resuming
<1>5. CASE Launching
  BY <1>5 DEF Launching, RunTargetAt, LaunchMinibasicAsm, Launch, Orders, WatchReady
<1>6. CASE Editing
  <2>1. mode' = "monitor"
    BY <1>6 DEF Editing, EditMemory, DataDirective, UndoMemory, LoadPayload, ClearPayloadData,
                AssembleProgram, SetRegister, MemoryFrame, Stopped, AtPrompt
  <2> QED BY <2>1 DEF WatchReady
<1>7. CASE Tables
  <2>1. mode' = "monitor"
    BY <1>7 DEF Tables, BreakTarget, DeleteBreakpoint, AddWatchpoint, DeleteWatchpoint, TableFrame,
                AtPrompt
  <2> QED BY <2>1 DEF WatchReady
<1> QED BY <1>1, <1>2, <1>3, <1>4, <1>5, <1>6, <1>7 DEF Next, RustTrap

(* At each moment the target may retire an instruction under a count, it   *)
(* is one that no watchpoint is for.                                       *)
LEMMA UnwatchedRetires ==
  ASSUME Inv, BudgetInv, WatchReady, Next, breach = {}, order.count # 0, stepped = 0
  PROVE  ~WatchedAccess
<1> SUFFICES ASSUME mode = "target", retired' > retired, WatchHit(mem[pc]) PROVE FALSE
  BY DEF WatchedAccess
<1>1. TypeOK /\ retired \in Nat
  BY DEF Inv, TypeOK
<1>2. Target
  BY DEF Next, RustTrap, ServiceResume, ServiceStop, StepidpNext, StepidpDone, RunNext, TrapStop,
         HandlesTrap, Resuming, StepTarget, StepidpTarget, RunTarget, ContinueOverPermanent,
         ContinueTarget, Launching, RunTargetAt, LaunchMinibasicAsm, Launch, Editing, EditMemory,
         DataDirective, UndoMemory, LoadPayload, ClearPayloadData, AssembleProgram, SetRegister,
         Tables, BreakTarget, DeleteBreakpoint, AddWatchpoint, DeleteWatchpoint, Stopped, AtPrompt
<1>3. ~TrapEntry
  BY <1>1 DEF TrapEntry, history
<1>4. pc \in Ram /\ Kind[mem[pc]] # "ebreak"
  BY <1>2, <1>3 DEF Target, Execute, Store
<1>5. fresh
  BY <1>4, RetiresFresh DEF BudgetInv, Bounded
<1>6. mem[pc] # EBREAK
  BY <1>1, <1>4, WordAssumption DEF TypeOK
<1> QED BY <1>4, <1>5, <1>6 DEF WatchReady

(* Under step, run or stepidp no watched load or store retires, but for the *)
(* one instruction a step over a permanent breakpoint crosses               *)
(* (resume_single_step evaluates the watchpoints before it resumes).        *)
THEOREM StepsAreWatched == Spec => StepsHonourWatchpoints
<1>1. Init => WatchReady
  BY DEF Init, WatchReady
<1>2. Inv /\ WatchReady /\ [Next]_vars => WatchReady'
  <2>1. ASSUME WatchReady, UNCHANGED vars PROVE WatchReady'
    BY <2>1 DEF vars, target, patches, counts, history, WatchReady, WatchHit
  <2>2. ASSUME Inv, WatchReady, Next PROVE WatchReady'
    BY <2>2, NextWatched DEF Inv
  <2> QED BY <2>1, <2>2
<1>3. Inv /\ BudgetInv /\ WatchReady /\ [Next]_vars
      => [breach = {} /\ order.count # 0 /\ stepped = 0 => ~WatchedAccess]_vars
  BY UnwatchedRetires
<1> QED BY <1>1, <1>2, <1>3, BudgetInvariance, PTL DEF Spec, StepsHonourWatchpoints
=============================================================================
