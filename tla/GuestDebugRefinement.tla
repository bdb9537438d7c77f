------------------------- MODULE GuestDebugRefinement -------------------------
(***************************************************************************)
(* The debugger implements its contract: under the refinement mapping of   *)
(* GuestDebug!Contract, which forgets the patches, the counts, the tables  *)
(* and the undo record, every step of GuestDebug is a step of DebugContract*)
(* or a stutter.                                                           *)
(***************************************************************************)
EXTENDS GuestDebugProofs

Running == mode = "target" \/ (mode = "trap" /\ mcause = "ecall")
Breaks == {a \in Ram : HasPermanent(a)}

LEMMA BreaksKept == UNCHANGED permanent => Breaks' = Breaks
BY DEF Breaks, HasPermanent, PermanentOn

(* A gap, once taken, stays taken.                                         *)
LEMMA BreachGrows == Next => (breach # {} => breach' # {})
<1>1. Target => breach \subseteq breach'
  BY DEF Target, Execute, Store, TrapEntry, history
<1>2. RustTrap => breach \subseteq breach'
  BY DEF RustTrap, ServiceResume, ServiceStop, StepidpNext, StepidpDone, RunNext, TrapStop,
         TrapFrame
<1>3. Resuming => breach \subseteq breach'
  BY DEF Resuming, StepTarget, StepidpTarget, RunTarget, ContinueOverPermanent,
         ContinueTarget, ResumeFrame
<1>4. Launching => breach \subseteq breach'
  BY DEF Launching, RunTargetAt, LaunchMinibasicAsm
<1>5. Editing => breach \subseteq breach'
  BY DEF Editing, EditMemory, DataDirective, UndoMemory, LoadPayload, ClearPayloadData,
         AssembleProgram, SetRegister, MemoryFrame, history
<1>6. Tables => breach \subseteq breach'
  BY DEF Tables, BreakTarget, DeleteBreakpoint, AddWatchpoint, DeleteWatchpoint, TableFrame,
         history
<1> QED BY <1>1, <1>2, <1>3, <1>4, <1>5, <1>6 DEF Next

(* One instruction of the image retires.                                   *)
LEMMA RetireStep ==
  ASSUME Inv, breach = {}, breach' = {}, Running, Running', pc \in Ram,
         Kind[mem[pc]] \in {"plain", "unsupported", "load", "store", "ecall"},
         pc' = Succ[<<mem[pc], x, pc>>], x' \in Regs, fresh' = FALSE,
         \A a \in Ram : image'[a] # image[a] =>
           /\ Kind[mem[pc]] = "store" /\ a = Effective[<<mem[pc], x>>]
           /\ ~HasPermanent(a),
         UNCHANGED permanent
  PROVE  Contract!Next
<1>1. mem[pc] = image[pc] /\ ~Patched(pc) /\ (stepped # 0 => fresh)
  BY RetiringWord
<1>2. pc \in Breaks => fresh
  BY <1>1, SlotNotZero DEF Breaks, HasPermanent, Patched
<1>3. Breaks' = Breaks
  BY BreaksKept
<1>4. Contract!Retire
  BY <1>1, <1>2, <1>3 DEF Contract!Retire, Running, Breaks
<1> QED BY <1>4 DEF Contract!Next

LEMMA TargetRefines ==
  ASSUME Inv, Target, breach = {}, breach' = {}
  PROVE  [Contract!Next]_(Contract!vars)
<1>1. CASE Execute
  BY <1>1, RetireStep DEF Execute, patches, Running, Retire
<1>2. CASE Store
  <2>1. \A a \in Ram : image'[a] # image[a] =>
           a = Effective[<<mem[pc], x>>] /\ ~HasPermanent(a)
    BY <1>2 DEF Store, ActiveBreakpoint, Inv, TypeOK
  <2>2. x \in Regs
    BY DEF Inv, TypeOK
  <2> QED BY <1>2, <2>1, <2>2, RetireStep DEF Store, patches, Running, Retire
<1>3. CASE TrapEntry
  <2>1. Breaks' = Breaks
    BY <1>3, BreaksKept DEF TrapEntry, patches
  <2>2. UNCHANGED <<image, pc, x, fresh, breach>> /\ mode = "target" /\ mode' = "trap"
    BY <1>3 DEF TrapEntry, history
  <2>3. CASE mcause' = "ecall"
    BY <2>1, <2>2, <2>3 DEF Contract!vars, Breaks
  <2>4. CASE mcause' # "ecall"
    <3>1. Contract!Stop
      BY <2>1, <2>2, <2>4 DEF Contract!Stop, Breaks
    <3> QED BY <2>2, <3>1 DEF Contract!Next
  <2> QED BY <2>3, <2>4
<1> QED BY <1>1, <1>2, <1>3 DEF Target

(* A resume, or the return to the prompt, of a settled memory.             *)
LEMMA ResumeStep ==
  ASSUME Inv, breach = {}, breach' = {}, ~Running, pc' # pc => 
           pc \in Ram /\ image[pc] = EBREAK /\ ~HasPermanent(pc) /\ pc' = After(pc),
         mode' = "target", fresh' = TRUE, UNCHANGED <<image, x, permanent>>
  PROVE  Contract!Next
<1>1. Breaks' = Breaks
  BY BreaksKept
<1>2. Contract!Resume
  BY <1>1 DEF Contract!Resume, Breaks, Running, After, Outside
<1> QED BY <1>2 DEF Contract!Next

LEMMA PromptStep ==
  ASSUME breach = {}, breach' = {}, ~Running, mode' = "monitor",
         UNCHANGED <<image, pc, x, fresh, permanent>>
  PROVE  UNCHANGED Contract!vars
<1>1. Breaks' = Breaks
  BY BreaksKept
<1> QED BY <1>1 DEF Contract!vars, Breaks, Running

LEMMA SingleStepRefines ==
  ASSUME Inv, breach = {}, breach' = {}, ~Running, NEW m \in Memory, NEW t, NEW s, NEW r,
         Settled(m, t, s), ResumeSingleStep(m, t, s, r), UNCHANGED <<image, x, permanent>>
  PROVE  [Contract!Next]_(Contract!vars)
<1>1. ASSUME pc \in Ram, ~AtPermanent(m), InstructionPc(m) # pc
      PROVE  image[pc] = EBREAK /\ ~HasPermanent(pc) /\ InstructionPc(m) = After(pc)
  BY <1>1 DEF InstructionPc, AtPermanent, Settled, MemoryOf, HasPermanent
<1>2. CASE StepPermanent(m, t, r)
  BY <1>2, ResumeStep DEF StepPermanent, ResumeTarget
<1>3. CASE StepIntoEbreak(m, t, s, r)
  BY <1>1, <1>3, ResumeStep DEF StepIntoEbreak, ResumeTarget
<1>4. CASE StepTemporary(m, s, r)
  BY <1>1, <1>4, ResumeStep DEF StepTemporary, ResumeTarget
<1>5. CASE StepWatched(m, t, s)
  BY <1>5, PromptStep DEF StepWatched, BackToPrompt
<1>6. CASE StepRefused(m, t, s, r)
  BY <1>6, PromptStep DEF StepRefused, BackToPrompt
<1> QED BY <1>2, <1>3, <1>4, <1>5, <1>6 DEF ResumeSingleStep

LEMMA RustTrapRefines ==
  ASSUME Inv, RustTrap, breach = {}, breach' = {}
  PROVE  [Contract!Next]_(Contract!vars)
<1>0. Restored \in Memory /\ Settled(Restored, Disabled, 0)
  BY RestoredType, RestoredSettled DEF Inv
<1>1. CASE ServiceResume
  <2>1. pc \in Ram /\ Kind[mem[pc]] = "ecall"
    BY <1>1 DEF ServiceResume, Inv, TrapExplained, Cause
  <2>2. pc' = Succ[<<mem[pc], x, pc>>]
    BY <1>1, <2>1, WordAssumption DEF ServiceResume, Inv, TypeOK
  <2> QED BY <1>1, <2>1, <2>2, RetireStep DEF ServiceResume, patches, Running, Retire
<1>2. ASSUME NEW kind \in AllServices, ServiceStop(kind)
      PROVE  [Contract!Next]_(Contract!vars)
  <2>1. Breaks' = Breaks
    BY <1>2, BreaksKept DEF ServiceStop, patches
  <2>2. Contract!Stop
    BY <1>2, <2>1 DEF ServiceStop, Contract!Stop, Breaks
  <2> QED BY <2>2 DEF Contract!Next
<1>3. CASE StepidpNext
  BY <1>0, <1>3, SingleStepRefines DEF StepidpNext, HandlesTrap, TrapFrame, Running
<1>4. CASE StepidpDone
  BY <1>4, PromptStep DEF StepidpDone, HandlesTrap, BackToPrompt, TrapFrame, Running
<1>5. CASE RunNext
  BY <1>0, <1>5, SingleStepRefines DEF RunNext, HandlesTrap, TrapFrame, Running
<1>6. CASE TrapStop
  BY <1>6, PromptStep DEF TrapStop, HandlesTrap, BackToPrompt, TrapFrame, Running
<1> QED BY <1>1, <1>2, <1>3, <1>4, <1>5, <1>6 DEF RustTrap

LEMMA ResumingRefines ==
  ASSUME Inv, Resuming, breach = {}, breach' = {}
  PROVE  [Contract!Next]_(Contract!vars)
<1>0. mem \in Memory
  BY DEF Inv, TypeOK, Memory
<1>m. mode = "monitor" => ~Running /\ Settled(mem, temporary, stepped)
  BY PromptSettled DEF Running
<1>1. CASE StepTarget
  BY <1>0, <1>m, <1>1, SingleStepRefines DEF StepTarget, Stopped, AtPrompt, ResumeFrame
<1>2. ASSUME NEW n \in Budgets, StepidpTarget(n) PROVE [Contract!Next]_(Contract!vars)
  BY <1>0, <1>m, <1>2, SingleStepRefines DEF StepidpTarget, Stopped, AtPrompt, ResumeFrame
<1>3. ASSUME NEW n \in Budgets, RunTarget(n) PROVE [Contract!Next]_(Contract!vars)
  BY <1>0, <1>m, <1>3, SingleStepRefines DEF RunTarget, Stopped, AtPrompt, ResumeFrame
<1>4. CASE ContinueOverPermanent
  BY <1>m, <1>4, ResumeStep, PromptStep
  DEF ContinueOverPermanent, Stopped, AtPrompt, ResumeFrame, ResumeTarget, BackToPrompt
<1>5. CASE ContinueTarget
  <2>1. pc' # pc => image[pc] = EBREAK /\ ~HasPermanent(pc) /\ pc' = After(pc)
    BY <1>m, <1>5
    DEF ContinueTarget, Stopped, AtPrompt, ResumeTarget, InstructionPc, AtPermanent,
        Settled, MemoryOf, HasPermanent
  <2> QED BY <1>m, <1>5, <2>1, ResumeStep
          DEF ContinueTarget, Stopped, AtPrompt, ResumeFrame, ResumeTarget
<1> QED BY <1>1, <1>2, <1>3, <1>4, <1>5 DEF Resuming

(* A fresh context: what is under a breakpoint stays.                      *)
LEMMA LaunchStep ==
  ASSUME Inv, breach = {}, breach' = {}, NEW a \in Ram, Launch(a),
         \A b \in Ram : HasPermanent(b) => image'[b] = image[b], UNCHANGED permanent
  PROVE  Contract!Next
<1>1. Breaks' = Breaks
  BY BreaksKept
<1>2. pc' \in Ram /\ x' \in Regs /\ fresh' = TRUE /\ mode = "monitor" /\ mode' = "target"
  BY WordAssumption DEF Launch, ResumeTarget, AtPrompt
<1>3. Contract!Launch
  BY <1>1, <1>2 DEF Contract!Launch, Breaks
<1> QED BY <1>3 DEF Contract!Next

LEMMA LaunchingRefines ==
  ASSUME Inv, Launching, breach = {}, breach' = {}
  PROVE  Contract!Next
<1>1. ASSUME NEW a \in Workspace \cup {BasicEntry}, RunTargetAt(a) PROVE Contract!Next
  BY <1>1, LaunchStep, RamAssumption DEF RunTargetAt, patches
<1>2. CASE LaunchMinibasicAsm
  <2>1. image' = Over(BasicImage, image) /\ image \in Memory
    BY <1>2 DEF LaunchMinibasicAsm, Inv, TypeOK, Memory
  <2>2. \A b \in DOMAIN BasicImage : ~ActiveBreakpoint(b)
    BY <1>2 DEF LaunchMinibasicAsm
  <2>3. \A b \in Ram : HasPermanent(b) => image'[b] = image[b]
    BY <2>1, <2>2, OverCells DEF ActiveBreakpoint
  <2> QED BY <1>2, <2>3, LaunchStep, RamAssumption DEF LaunchMinibasicAsm, patches
<1> QED BY <1>1, <1>2 DEF Launching

(* Any other command.                                                      *)
LEMMA CommandStep ==
  ASSUME breach = {}, breach' = {}, mode = "monitor", mode' = "monitor",
         UNCHANGED permanent \/ UNCHANGED <<image, pc, x>>,
         \A b \in Ram : HasPermanent(b) => image'[b] = image[b]
  PROVE  Contract!Next
<1>1. UNCHANGED permanent => Breaks' = Breaks
  BY BreaksKept
<1>2. Contract!Command
  BY <1>1 DEF Contract!Command, Breaks
<1> QED BY <1>2 DEF Contract!Next

LEMMA WriteStep ==
  ASSUME Inv, breach = {}, breach' = {}, NEW words, Write(words), mode = "monitor",
         UNCHANGED <<mode, permanent>>
  PROVE  Contract!Next
<1>1. image \in Memory
  BY DEF Inv, TypeOK, Memory
<1>2. \A b \in Ram : HasPermanent(b) => image'[b] = image[b]
  BY <1>1, OverCells DEF Write, ActiveBreakpoint
<1> QED BY <1>2, CommandStep

LEMMA EditingRefines ==
  ASSUME Inv, Editing, breach = {}, breach' = {}
  PROVE  Contract!Next
<1>0. image \in Memory /\ undo.address \in Ram
  BY DEF Inv, TypeOK, Memory
<1>1. ASSUME NEW a \in Ram, NEW w \in Stored, EditMemory(a, w) PROVE Contract!Next
  BY <1>1, WriteStep DEF EditMemory, Stopped, AtPrompt, MemoryFrame, patches
<1>2. ASSUME NEW a \in Ram, NEW w \in Stored, DataDirective(a, w) PROVE Contract!Next
  BY <1>1, <1>2 DEF DataDirective
<1>3. CASE UndoMemory
  <2>1. \A b \in Ram : HasPermanent(b) => image'[b] = image[b]
    <3>1. ~HasPermanent(undo.address)
      BY <1>3 DEF UndoMemory, Inv, UndoClearOfBreakpoints, ActiveBreakpoint
    <3> QED BY <1>0, <1>3, <3>1 DEF UndoMemory, Memory
  <2> QED BY <1>3, <2>1, CommandStep DEF UndoMemory, Stopped, AtPrompt, MemoryFrame, patches
<1>4. ASSUME NEW a \in Ram, NEW w \in Stored, LoadPayload(a, w) PROVE Contract!Next
  BY <1>4, WriteStep DEF LoadPayload, Stopped, AtPrompt, MemoryFrame, patches
<1>5. ASSUME NEW a \in Data, ClearPayloadData(a) PROVE Contract!Next
  <2>1. ~HasPermanent(a) /\ image' = [image EXCEPT ![a] = Zero]
    BY <1>5 DEF ClearPayloadData, ActiveBreakpoint
  <2>2. \A b \in Ram : HasPermanent(b) => image'[b] = image[b]
    BY <1>0, <2>1 DEF Memory
  <2> QED BY <1>5, <2>2, CommandStep DEF ClearPayloadData, Stopped, AtPrompt, patches
<1>6. ASSUME NEW a \in Workspace, NEW n \in ProgramLengths,
             NEW words \in [a .. a + n - 1 -> Stored], AssembleProgram(words, a)
      PROVE  Contract!Next
  BY <1>6, WriteStep DEF AssembleProgram, AtPrompt, MemoryFrame, patches
<1>7. ASSUME NEW r \in Regs, SetRegister(r) PROVE Contract!Next
  BY <1>7, CommandStep DEF SetRegister, Stopped, AtPrompt, patches, history
<1> QED BY <1>1, <1>2, <1>3, <1>4, <1>5, <1>6, <1>7 DEF Editing

LEMMA TablesRefines ==
  ASSUME Inv, Tables, breach = {}, breach' = {}
  PROVE  Contract!Next
<1>1. UNCHANGED <<image, pc, x, mode>> /\ mode = "monitor"
  BY DEF Tables, BreakTarget, DeleteBreakpoint, AddWatchpoint, DeleteWatchpoint, AtPrompt,
         TableFrame, history
<1> QED BY <1>1, CommandStep

LEMMA InitRefines == Init => Contract!Init
<1> SUFFICES ASSUME Init PROVE Contract!Init
  OBVIOUS
<1>1. image \in [Ram -> Word] /\ pc \in Ram /\ x \in Regs
  BY WordAssumption, RamAssumption DEF Init
<1>2. Breaks = {}
  BY DEF Init, Breaks, HasPermanent, PermanentOn, Disabled
<1> QED BY <1>1, <1>2 DEF Init, Contract!Init, Breaks

LEMMA NextRefines ==
  ASSUME Inv, [Next]_vars PROVE [Contract!Next]_(Contract!vars)
<1>1. CASE UNCHANGED vars
  <2>1. Breaks' = Breaks
    BY <1>1, BreaksKept DEF vars, patches
  <2> QED BY <1>1, <2>1 DEF vars, target, history, Contract!vars, Breaks
<1>2. CASE Next /\ breach' # {}
  BY <1>2 DEF Contract!Next
<1>3. CASE Next /\ breach' = {}
  <2>1. breach = {}
    BY <1>3, BreachGrows
  <2> QED BY <1>3, <2>1, TargetRefines, RustTrapRefines, ResumingRefines, LaunchingRefines,
             EditingRefines, TablesRefines DEF Next
<1> QED BY <1>1, <1>2, <1>3

(* With no gap taken, what the user sees is the program he loaded running  *)
(* as if it were never patched: the hart executes the words of the image,  *)
(* resumes where it stopped, and never runs past a breakpoint.             *)
THEOREM Refinement == Spec => ImplementsContract
<1>1. Init => Contract!Init
  BY InitRefines
<1>2. Inv /\ [Next]_vars => [Contract!Next]_(Contract!vars)
  BY NextRefines
<1> QED BY <1>1, <1>2, Invariance, PTL DEF Spec, ImplementsContract, Contract!Spec
=============================================================================
