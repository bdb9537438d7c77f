------------------------------ MODULE GuestDebug ------------------------------
(***************************************************************************)
(* The software debugger of the M-mode guest monitor                       *)
(* (crates/guest-monitor/src/main.rs): one U-mode target whose program     *)
(* text is patched with EBREAK words, for the four permanent breakpoints   *)
(* of the user and for the one temporary breakpoint of the stepper.        *)
(*                                                                         *)
(* `mode' says who has the hart: the target ("target"), rust_trap          *)
(* ("trap"), or the command loop waiting for a line ("monitor").  The two  *)
(* last are M-mode with interrupts off, so each handler and each command   *)
(* is one action.  context.pc and context.mepc are equal whenever either   *)
(* is read, so both are the one variable pc.                               *)
(*                                                                         *)
(* Instruction words are abstract: Kind, Succ and Effective give what the  *)
(* hart does with one; a cell of Ram is one aligned word.                  *)
(*                                                                         *)
(* A definition marked `mutant' is a plausible slip in the definition that *)
(* follows it; nothing uses it, and the properties are known to catch it.  *)
(***************************************************************************)
EXTENDS Integers

CONSTANTS
  RamWords,    \* target RAM is the words 0 .. RamWords-1
  Workspace,   \* words of .target_workspace, where programs are assembled
  Data,        \* words of .target_data
  Entry,       \* target_entry, the demonstration program of the image
  BasicEntry,  \* minibasic_entry, the resident payload of the image
  Word,        \* instruction and data words
  EBREAK,      \* EBREAK_WORD
  Zero,        \* the word 0
  Kind,        \* Kind[w]: how the hart and the stepper treat w
  Regs,        \* abstract register files
  ResetRegs,   \* the one run-at and basic start from
  Succ,        \* Succ[<<w, r, a>>]: the pc after w at a under registers r
  Effective,   \* Effective[<<w, r>>]: the address a ld/sd w accesses
  Stored,      \* words a program stores and a user types in
  Services,    \* kinds of environment calls the target makes
  Slots,       \* 1 .. MAX_PERMANENT_BREAKPOINTS
  WatchSlots,  \* 1 .. MAX_WATCHPOINTS
  Budgets,     \* counts given to run and stepidp
  Images,      \* what a loader may have left in RAM at boot
  BasicImage,  \* the words of the embedded MiniBASIC payload, at its place
  BasicAsmEntry, \* the entry of that payload, 0x100 into the workspace
  ProgramLengths, \* lengths of the programs that are assembled
  RetireCap    \* bound of the history counter `retired'

Ram == 0 .. RamWords - 1
Outside == -1                    \* any address that is not a word of Ram
Address == Ram \cup {Outside}
After(a) == IF a + 1 \in Ram THEN a + 1 ELSE Outside

Orderers == {"step", "stepidp", "run", "continue", "launch"}
Kinds == {"ebreak", "plain", "unsupported", "load", "store", "ecall", "illegal"}
AllServices == {"io", "exit", "unknown"}
Gaps == {"service", "overwrite", "restore", "patch"}

ASSUME RamAssumption ==
  /\ RamWords \in Nat \ {0}
  /\ Workspace \subseteq Ram /\ Data \subseteq Ram
  /\ {Entry, BasicEntry, BasicAsmEntry} \subseteq Ram
ASSUME WordAssumption ==
  /\ {EBREAK, Zero} \cup Stored \subseteq Word /\ EBREAK # Zero
  /\ Kind \in [Word -> Kinds]
  /\ \A w \in Word : Kind[w] = "ebreak" <=> w = EBREAK
  /\ ResetRegs \in Regs
  /\ \A w \in Word, r \in Regs, a \in Ram : Succ[<<w, r, a>>] \in Address
  /\ \A w \in Word, r \in Regs, a \in Ram :
       Kind[w] = "ecall" => Succ[<<w, r, a>>] = After(a)
  /\ \A w \in Word, r \in Regs : Effective[<<w, r>>] \in Address
  /\ Images \subseteq [Ram -> Word]
  /\ DOMAIN BasicImage \subseteq Workspace \cup Data
  /\ BasicImage \in [DOMAIN BasicImage -> Word]
ASSUME BoundAssumption ==
  /\ Services \subseteq AllServices
  /\ Slots \subseteq Nat \ {0} /\ WatchSlots \subseteq Nat \ {0}
  /\ Budgets \subseteq Nat \ {0} /\ ProgramLengths \subseteq Nat \ {0}
  /\ RetireCap \in Nat

VARIABLES
  mem,         \* target RAM, patches included
  pc, x,       \* pc and registers: the hart's, or CONTEXT once trapped
  mcause,      \* CONTEXT.mcause: "break", "ecall" or "fault"
  mode,        \* who runs
  temporary,   \* TEMPORARY_BREAKPOINT
  permanent,   \* PERMANENT_BREAKPOINTS
  stepped,     \* STEPPED_PERMANENT_BREAKPOINT, 0 for none
  run,         \* RUN_REMAINING
  stepidp,     \* STEPIDP_ACTIVE, STEPIDP_REMAINING, STEPIDP_BEFORE.pc
  watch,       \* WATCHPOINTS
  undo,        \* MEMORY_UNDO
  image,       \* history: the words the user and the program wrote
  fresh,       \* history: no instruction retired since the last resume
  retired,     \* history: instructions retired since the last command
  order,       \* history: that command, and the count it gave or 0
  stale,       \* history: it found a count an earlier command had left
  breach       \* history: the gaps of Gaps taken so far

target == <<mem, pc, x, mcause, mode>>
patches == <<temporary, permanent, stepped>>
counts == <<run, stepidp>>
history == <<image, fresh, retired, order, stale, breach>>
vars == <<target, patches, counts, watch, undo, history>>

-----------------------------------------------------------------------------
(* Breakpoint tables and memory.                                           *)

Breakpoint == [enabled : BOOLEAN, address : Ram, original : Word]
Disabled == [enabled |-> FALSE, address |-> 0, original |-> Zero]
NoUndo == [valid |-> FALSE, address |-> 0, original |-> Zero, edited |-> Zero]
Watchpoint == [enabled : BOOLEAN, address : Ram, kinds : SUBSET {"load", "store"}]
NoWatch == [enabled |-> FALSE, address |-> 0, kinds |-> {}]

PermanentOn(s, a) == permanent[s].enabled /\ permanent[s].address = a
HasPermanent(a) == \E s \in Slots : PermanentOn(s, a)
PermanentAt(a) == CHOOSE s \in Slots : PermanentOn(s, a)
HasTemporary(a) == temporary.enabled /\ temporary.address = a
ActiveForgetsPermanent(a) == HasTemporary(a)            \* mutant
ActiveBreakpoint(a) == HasPermanent(a) \/ HasTemporary(a)

TemporaryLeftInMemory == mem                              \* mutant

(* restore_temporary_breakpoint: the memory it leaves; it disables the     *)
(* record whatever it finds there.                                         *)
TemporaryRestored ==
  IF temporary.enabled
  THEN [mem EXCEPT ![temporary.address] = temporary.original]
  ELSE mem

SteppedNotRearmed(m) == m                                 \* mutant

(* restore_stepped_permanent_breakpoint, on the memory m.                  *)
SteppedRearmed(m) ==
  IF /\ stepped # 0
     /\ permanent[stepped].enabled
     /\ m[permanent[stepped].address] = permanent[stepped].original
  THEN [m EXCEPT ![permanent[stepped].address] = EBREAK]
  ELSE m

(* next_execution_pc, with Outside for the control flow it does not decode.*)
NextExecutionPc(w, a) == IF Kind[w] = "unsupported" THEN Outside ELSE Succ[<<w, x, a>>]

(* watchpoint_for_instruction.                                             *)
WatchHit(w) ==
  /\ Kind[w] \in {"load", "store"}
  /\ \E i \in WatchSlots : /\ watch[i].enabled
                           /\ watch[i].address = Effective[<<w, x>>]
                           /\ Kind[w] \in watch[i].kinds

-----------------------------------------------------------------------------
(* Resuming.  The operators below act on m, t and s, the memory, the       *)
(* temporary breakpoint and the stepped slot that the caller has reached:  *)
(* those of the state for a command, those after the restores for          *)
(* rust_trap; r is the value RUN_REMAINING has by then.                    *)

BackKeepsRecord(m, t, s, r) ==                             \* mutant
  /\ mode' = "monitor" /\ fresh' = fresh
  /\ mem' = m /\ temporary' = temporary /\ stepped' = s /\ run' = r
  /\ UNCHANGED <<pc, undo>>

(* monitor_loop: an error or a stop gives the hart to the command loop.    *)
BackToPrompt(m, t, s, r) ==
  /\ mode' = "monitor" /\ fresh' = fresh
  /\ mem' = m /\ temporary' = t /\ stepped' = s /\ run' = r
  /\ UNCHANGED <<pc, undo>>

(* resume_target at address a.                                             *)
ResumeTarget(a) == mode' = "target" /\ fresh' = TRUE /\ pc' = a

InstallAnywhere(a) == a \in Ram                           \* mutant

(* install_temporary_breakpoint: its refusals and its effect.              *)
Installable(a) == a \in Ram /\ ~HasPermanent(a)
InstallTemporary(m, a) ==
  /\ temporary' = [enabled |-> TRUE, address |-> a, original |-> m[a]]
  /\ mem' = [m EXCEPT ![a] = EBREAK]
  /\ undo' = NoUndo

AtPermanent(m) == pc \in Ram /\ m[pc] = EBREAK /\ HasPermanent(pc)

(* prepare_permanent_breakpoint_step.  Once stop is a word of RAM other    *)
(* than pc its install cannot fail, so the undoing branch is unreachable.  *)
PreparedWord == permanent[PermanentAt(pc)].original
PreparedStop == NextExecutionPc(PreparedWord, pc)
CanPrepare == PreparedWord # EBREAK /\ PreparedStop # pc /\ PreparedStop \in Ram
PreparePermanentStep(m, t) ==
  LET disarmed == [m EXCEPT ![pc] = PreparedWord] IN
  /\ stepped' = PermanentAt(pc)
  /\ IF HasPermanent(PreparedStop)
     THEN mem' = disarmed /\ temporary' = t /\ undo' = undo
     ELSE InstallTemporary(disarmed, PreparedStop)

AlwaysSkips(m) == After(pc)                                \* mutant

(* resume_single_step.                                                     *)
InstructionPc(m) == IF m[pc] = EBREAK THEN After(pc) ELSE pc

StepPermanent(m, t, r) ==
  /\ AtPermanent(m) /\ CanPrepare
  /\ PreparePermanentStep(m, t) /\ ResumeTarget(pc) /\ run' = r

StepIntoEbreak(m, t, s, r) ==
  /\ pc \in Ram /\ ~AtPermanent(m) /\ InstructionPc(m) \in Ram
  /\ m[InstructionPc(m)] = EBREAK
  /\ ResumeTarget(InstructionPc(m))
  /\ mem' = m /\ temporary' = t /\ stepped' = s /\ run' = r /\ UNCHANGED undo

StepTemporaryUnwatched(m, s, r) ==                         \* mutant
  /\ pc \in Ram /\ ~AtPermanent(m) /\ InstructionPc(m) \in Ram
  /\ LET at == InstructionPc(m)
         stop == NextExecutionPc(m[at], at)
     IN /\ m[at] # EBREAK /\ Installable(stop)
        /\ InstallTemporary(m, stop) /\ ResumeTarget(at)
  /\ stepped' = s /\ run' = r

StepTemporary(m, s, r) ==
  /\ pc \in Ram /\ ~AtPermanent(m) /\ InstructionPc(m) \in Ram
  /\ LET at == InstructionPc(m)
         stop == NextExecutionPc(m[at], at)
     IN /\ m[at] # EBREAK /\ ~WatchHit(m[at]) /\ Installable(stop)
        /\ InstallTemporary(m, stop) /\ ResumeTarget(at)
  /\ stepped' = s /\ run' = r

StepWatched(m, t, s) ==
  /\ pc \in Ram /\ ~AtPermanent(m) /\ InstructionPc(m) \in Ram
  /\ m[InstructionPc(m)] # EBREAK /\ WatchHit(m[InstructionPc(m)])
  /\ BackToPrompt(m, t, s, 0)

StepAllowed(m) ==
  /\ pc \in Ram
  /\ IF AtPermanent(m) THEN CanPrepare
     ELSE LET at == InstructionPc(m) IN
          /\ at \in Ram
          /\ \/ m[at] = EBREAK \/ WatchHit(m[at])
             \/ Installable(NextExecutionPc(m[at], at))
StepRefused(m, t, s, r) == ~StepAllowed(m) /\ BackToPrompt(m, t, s, r)

ResumeSingleStep(m, t, s, r) ==
  \/ StepPermanent(m, t, r)
  \/ StepIntoEbreak(m, t, s, r)
  \/ StepTemporary(m, s, r)
  \/ StepWatched(m, t, s)
  \/ StepRefused(m, t, s, r)

-----------------------------------------------------------------------------
(* The target.                                                             *)

Retire == fresh' = FALSE /\ retired' = IF retired < RetireCap THEN retired + 1 ELSE retired

(* One instruction retires.  Its other effects on the registers are data.  *)
Execute ==
  /\ mode = "target" /\ pc \in Ram
  /\ Kind[mem[pc]] \in {"plain", "unsupported", "load"}
  /\ Kind[mem[pc]] = "load" => Effective[<<mem[pc], x>>] \in Ram
  /\ pc' = Succ[<<mem[pc], x, pc>>] /\ x' \in Regs
  /\ Retire
  /\ UNCHANGED <<mem, mcause, mode, patches, counts, watch, undo>>
  /\ UNCHANGED <<image, order, stale, breach>>

(* A store retires; nothing keeps a program from storing over its own text.*)
Store ==
  /\ mode = "target" /\ pc \in Ram /\ Kind[mem[pc]] = "store"
  /\ LET a == Effective[<<mem[pc], x>>] IN
     /\ a \in Ram
     /\ \E w \in Stored : /\ mem' = [mem EXCEPT ![a] = w]
                          /\ image' = [image EXCEPT ![a] = w]
     /\ breach' = IF ActiveBreakpoint(a) THEN breach \cup {"overwrite"} ELSE breach
  /\ pc' = Succ[<<mem[pc], x, pc>>]
  /\ Retire
  /\ UNCHANGED <<x, mcause, mode, patches, counts, watch, undo, order, stale>>

(* trap_entry: an exception saves the context and enters rust_trap.        *)
Cause ==
  IF pc \notin Ram THEN "fault"
  ELSE CASE Kind[mem[pc]] = "ebreak" -> "break"
         [] Kind[mem[pc]] = "ecall" -> "ecall"
         [] OTHER -> "fault"
Traps ==
  pc \in Ram =>
    \/ Kind[mem[pc]] \in {"ebreak", "ecall", "illegal"}
    \/ Kind[mem[pc]] \in {"load", "store"} /\ Effective[<<mem[pc], x>>] \notin Ram
TrapEntry ==
  /\ mode = "target" /\ Traps
  /\ mode' = "trap" /\ mcause' = Cause
  /\ UNCHANGED <<mem, pc, x, patches, counts, watch, undo, history>>

-----------------------------------------------------------------------------
(* rust_trap.                                                              *)

(* handle_environment_call for a service that resumes: the call retires.   *)
ServiceResume ==
  /\ mode = "trap" /\ mcause = "ecall" /\ "io" \in Services
  /\ pc' = After(pc) /\ x' \in Regs /\ mcause' = "break" /\ mode' = "target"
  /\ Retire
  /\ UNCHANGED <<mem, patches, counts, watch, undo, image, order, stale, breach>>

(* The services that give the hart to the command loop, ECALL_EXIT and the *)
(* GUEST-IO errors, leave by monitor_loop before the restores of rust_trap.*)
ServiceStop(kind) ==
  /\ mode = "trap" /\ mcause = "ecall" /\ kind \in Services \ {"io"}
  /\ mcause' = IF kind = "exit" THEN "break" ELSE mcause
  /\ mode' = "monitor"
  /\ breach' = IF temporary.enabled \/ stepped # 0 THEN breach \cup {"service"}
               ELSE breach
  /\ UNCHANGED <<mem, pc, x, patches, counts, watch, undo>>
  /\ UNCHANGED <<image, fresh, retired, order, stale>>

(* The other traps.  `restored' is the memory once both breakpoints that a *)
(* step had moved are back.                                                *)
Restored == SteppedRearmed(TemporaryRestored)
EbreakAtPc == mcause = "break" /\ Restored[pc] = EBREAK
BudgetStop == mcause = "break" /\ ~HasPermanent(pc) /\ Restored[pc] # EBREAK
LandedOnEbreak == EbreakAtPc /\ stepidp.before # pc
StepidpStop == stepidp.active /\ (BudgetStop \/ LandedOnEbreak)
StepidpUncounted == [stepidp EXCEPT !.before = pc]         \* mutant
StepidpCounted == [stepidp EXCEPT !.remaining = @ - 1, !.before = pc]
RunUnderflows == BudgetStop /\ run # 1                     \* mutant
RunOnceMore == BudgetStop /\ run > 0                       \* mutant
RunGoesOn == BudgetStop /\ run > 1

HandlesTrap == mode = "trap" /\ mcause # "ecall"
TrapFrame == UNCHANGED <<x, mcause, permanent, watch, image, retired, order, stale, breach>>

StepidpNext ==
  /\ HandlesTrap /\ StepidpStop /\ stepidp.remaining > 1
  /\ stepidp' = StepidpCounted
  /\ ResumeSingleStep(Restored, Disabled, 0, run)
  /\ TrapFrame

StepidpDone ==
  /\ HandlesTrap /\ StepidpStop /\ stepidp.remaining <= 1
  /\ stepidp' = [stepidp EXCEPT !.active = FALSE, !.remaining = 0]
  /\ BackToPrompt(Restored, Disabled, 0, run)
  /\ TrapFrame

RunNext ==
  /\ HandlesTrap /\ ~StepidpStop /\ RunGoesOn
  /\ ResumeSingleStep(Restored, Disabled, 0, run - 1)
  /\ TrapFrame /\ UNCHANGED stepidp

TrapStop ==
  /\ HandlesTrap /\ ~StepidpStop /\ ~RunGoesOn
  /\ BackToPrompt(Restored, Disabled, 0, 0)
  /\ TrapFrame /\ UNCHANGED stepidp

RustTrap ==
  \/ ServiceResume
  \/ \E kind \in AllServices : ServiceStop(kind)
  \/ StepidpNext \/ StepidpDone \/ RunNext \/ TrapStop

-----------------------------------------------------------------------------
(* Commands that resume the target.  A command the code refuses before any *)
(* change is a stuttering step and is left out.                            *)

AtPrompt == mode = "monitor"
Stopped == AtPrompt /\ mcause = "break"   \* `target is stopped at a breakpoint'

Orders(by, n, found) ==
  order' = [by |-> by, count |-> n] /\ stale' = found /\ retired' = 0
ResumeFrame == UNCHANGED <<x, mcause, permanent, watch, image, breach>>

StepTarget ==
  /\ Stopped
  /\ ResumeSingleStep(mem, temporary, stepped, run)
  /\ Orders("step", 1, run # 0 \/ stepidp.active)
  /\ ResumeFrame /\ UNCHANGED stepidp

StepidpTarget(n) ==
  /\ Stopped
  /\ stepidp' = [active |-> TRUE, remaining |-> n, before |-> pc]
  /\ ResumeSingleStep(mem, temporary, stepped, run)
  /\ Orders("stepidp", n, FALSE)
  /\ ResumeFrame

RunTarget(n) ==
  /\ Stopped
  /\ ResumeSingleStep(mem, temporary, stepped, n)
  /\ Orders("run", n, stepidp.active)
  /\ ResumeFrame /\ UNCHANGED stepidp

(* continue_target.                                                        *)
ContinueOverPermanent ==
  /\ Stopped /\ AtPermanent(mem)
  /\ IF CanPrepare
     THEN PreparePermanentStep(mem, temporary) /\ ResumeTarget(pc) /\ run' = run
     ELSE BackToPrompt(mem, temporary, stepped, run)
  /\ Orders("continue", 0, run # 0 \/ stepidp.active)
  /\ ResumeFrame /\ UNCHANGED stepidp

ContinueTarget ==
  /\ Stopped /\ pc \in Ram /\ ~AtPermanent(mem)
  /\ ResumeTarget(InstructionPc(mem))
  /\ Orders("continue", 0, run # 0 \/ stepidp.active)
  /\ ResumeFrame /\ UNCHANGED <<mem, temporary, stepped, run, undo, stepidp>>

(* run_target_at and launch_minibasic: a fresh context at an entry point.  *)
Launch(a) ==
  /\ AtPrompt
  /\ mcause' = "break" /\ x' = ResetRegs
  /\ ResumeTarget(a)
  /\ Orders("launch", 0, run # 0 \/ stepidp.active)

RunTargetAt(a) ==
  /\ Launch(a)
  /\ UNCHANGED <<mem, patches, counts, watch, undo, image, breach>>

(* launch_minibasic_asm: copies the payload over workspace and data first. *)
Over(f, g) == [a \in DOMAIN g |-> IF a \in DOMAIN f THEN f[a] ELSE g[a]]
LaunchMinibasicAsm ==
  /\ Launch(BasicAsmEntry)
  /\ mem' = Over(BasicImage, mem) /\ image' = Over(BasicImage, image)
  /\ breach' = IF \E b \in DOMAIN BasicImage : ActiveBreakpoint(b)
               THEN breach \cup {"overwrite"} ELSE breach
  /\ UNCHANGED <<patches, counts, watch, undo>>

-----------------------------------------------------------------------------
(* Commands on memory.  write_memory_transaction, payload-load and the     *)
(* assembler refuse a range that overlaps an active breakpoint.            *)

MemoryFrame == UNCHANGED <<mode, patches, counts, watch, fresh, retired, order, stale, breach>>
ContextFrame == UNCHANGED <<pc, x, mcause>>

WriteUnchecked(words) ==                                   \* mutant
  mem' = Over(words, mem) /\ image' = Over(words, image)
Write(words) ==
  /\ \A a \in DOMAIN words : ~ActiveBreakpoint(a)
  /\ mem' = Over(words, mem) /\ image' = Over(words, image)
Cell(a, w) == [b \in {a} |-> w]

EditMemory(a, w) ==
  /\ Stopped
  /\ Write(Cell(a, w))
  /\ undo' = [valid |-> TRUE, address |-> a, original |-> mem[a], edited |-> w]
  /\ MemoryFrame /\ ContextFrame

DataDirective(a, w) == a \in Data /\ EditMemory(a, w)

UndoMemory ==
  /\ Stopped /\ undo.valid
  /\ IF mem[undo.address] = undo.edited
     THEN /\ mem' = [mem EXCEPT ![undo.address] = undo.original]
          /\ image' = [image EXCEPT ![undo.address] = undo.original]
     ELSE UNCHANGED <<mem, image>>
  /\ undo' = NoUndo
  /\ MemoryFrame /\ ContextFrame

LoadPayload(a, w) ==
  /\ Stopped /\ a \in Workspace \cup Data
  /\ Write(Cell(a, w))
  /\ MemoryFrame /\ ContextFrame /\ UNCHANGED undo

(* clear_payload_data does not look at the breakpoints.                    *)
ClearPayloadData(a) ==
  /\ Stopped /\ a \in Data
  /\ mem' = [mem EXCEPT ![a] = Zero] /\ image' = [image EXCEPT ![a] = Zero]
  /\ breach' = IF ActiveBreakpoint(a) THEN breach \cup {"overwrite"} ELSE breach
  /\ UNCHANGED <<mode, patches, counts, watch, undo, fresh, retired, order, stale>>
  /\ ContextFrame

(* assemble, assemble-program and assemble-source: all the words or none,  *)
(* and a context that is stopped at the first of them.                     *)
AssembleProgram(words, a) ==
  /\ AtPrompt /\ DOMAIN words \subseteq Workspace
  /\ Write(words)
  /\ undo' = NoUndo
  /\ pc' = a /\ mcause' = "break"
  /\ MemoryFrame /\ UNCHANGED x

SetRegister(r) ==
  /\ Stopped /\ x' = r
  /\ UNCHANGED <<mem, pc, mcause, mode, patches, counts, watch, undo, history>>

-----------------------------------------------------------------------------
(* Breakpoint and watchpoint commands.                                     *)

TableFrame == UNCHANGED <<pc, x, mcause, mode, temporary, stepped, counts, history>>

FirstFree(table, s) ==
  ~table[s].enabled /\ \A r \in DOMAIN table : ~table[r].enabled => s <= r

BreakTarget(a) ==
  /\ AtPrompt /\ ~ActiveBreakpoint(a)
  /\ \E s \in Slots :
       /\ FirstFree(permanent, s)
       /\ permanent' = [permanent EXCEPT ![s] =
                          [enabled |-> TRUE, address |-> a, original |-> mem[a]]]
  /\ mem' = [mem EXCEPT ![a] = EBREAK] /\ undo' = NoUndo
  /\ TableFrame /\ UNCHANGED watch

(* Refused with `breakpoint memory was modified' when no EBREAK is there.  *)
DeleteBreakpoint(s) ==
  /\ AtPrompt /\ permanent[s].enabled /\ mem[permanent[s].address] = EBREAK
  /\ mem' = [mem EXCEPT ![permanent[s].address] = permanent[s].original]
  /\ permanent' = [permanent EXCEPT ![s] = Disabled]
  /\ undo' = NoUndo
  /\ TableFrame /\ UNCHANGED watch

AddWatchpoint(a, kinds) ==
  /\ AtPrompt
  /\ \E i \in WatchSlots :
       /\ FirstFree(watch, i)
       /\ watch' = [watch EXCEPT ![i] = [enabled |-> TRUE, address |-> a, kinds |-> kinds]]
  /\ TableFrame /\ UNCHANGED <<mem, permanent, undo>>

DeleteWatchpoint(i) ==
  /\ AtPrompt /\ watch[i].enabled
  /\ watch' = [watch EXCEPT ![i] = NoWatch]
  /\ TableFrame /\ UNCHANGED <<mem, permanent, undo>>

-----------------------------------------------------------------------------
(* rust_main enters the demonstration program in U-mode.                   *)
Init ==
  /\ mem \in Images /\ image = mem
  /\ pc = Entry /\ x = ResetRegs /\ mcause = "fault" /\ mode = "target"
  /\ temporary = Disabled /\ permanent = [s \in Slots |-> Disabled] /\ stepped = 0
  /\ run = 0 /\ stepidp = [active |-> FALSE, remaining |-> 0, before |-> 0]
  /\ watch = [i \in WatchSlots |-> NoWatch] /\ undo = NoUndo
  /\ fresh = TRUE /\ retired = 0 /\ order = [by |-> "launch", count |-> 0]
  /\ stale = FALSE /\ breach = {}

Target == Execute \/ Store \/ TrapEntry

Resuming ==
  \/ StepTarget
  \/ \E n \in Budgets : StepidpTarget(n)
  \/ \E n \in Budgets : RunTarget(n)
  \/ ContinueOverPermanent \/ ContinueTarget

Launching ==
  \/ \E a \in Workspace \cup {BasicEntry} : RunTargetAt(a)
  \/ LaunchMinibasicAsm

Editing ==
  \/ \E a \in Ram, w \in Stored : EditMemory(a, w)
  \/ \E a \in Ram, w \in Stored : DataDirective(a, w)
  \/ UndoMemory
  \/ \E a \in Ram, w \in Stored : LoadPayload(a, w)
  \/ \E a \in Data : ClearPayloadData(a)
  \/ \E a \in Workspace, n \in ProgramLengths :
       \E words \in [a .. a + n - 1 -> Stored] : AssembleProgram(words, a)
  \/ \E r \in Regs : SetRegister(r)

Tables ==
  \/ \E a \in Ram : BreakTarget(a)
  \/ \E s \in Slots : DeleteBreakpoint(s)
  \/ \E a \in Ram, k \in {{"load"}, {"store"}, {"load", "store"}} : AddWatchpoint(a, k)
  \/ \E i \in WatchSlots : DeleteWatchpoint(i)

Next == Target \/ RustTrap \/ Resuming \/ Launching \/ Editing \/ Tables
Spec == Init /\ [][Next]_vars

(* The hart and rust_trap never stop of their own accord; that a service   *)
(* which reads a character returns rests on the user typing one.           *)
FairSpec == Spec /\ WF_vars(Target) /\ WF_vars(RustTrap)

-----------------------------------------------------------------------------
(* Properties.                                                             *)

TypeOK ==
  /\ mem \in [Ram -> Word] /\ image \in [Ram -> Word]
  /\ pc \in Address /\ x \in Regs
  /\ mcause \in {"break", "ecall", "fault"} /\ mode \in {"target", "trap", "monitor"}
  /\ temporary \in Breakpoint /\ permanent \in [Slots -> Breakpoint]
  /\ stepped \in Slots \cup {0}
  /\ run \in Nat
  /\ stepidp \in [active : BOOLEAN, remaining : Nat, before : Address]
  /\ watch \in [WatchSlots -> Watchpoint]
  /\ undo \in [valid : BOOLEAN, address : Ram, original : Word, edited : Word]
  /\ fresh \in BOOLEAN /\ stale \in BOOLEAN /\ retired \in Nat
  /\ order \in [by : Orderers, count : Nat]
  /\ breach \subseteq Gaps

(* The word a reader would find at a if every patch were taken out.        *)
Underlying(a) ==
  IF HasTemporary(a) THEN temporary.original
  ELSE IF mem[a] = EBREAK /\ HasPermanent(a) THEN permanent[PermanentAt(a)].original
  ELSE mem[a]

(* Patching loses nothing (`remplaçant temporairement le mot'): at every   *)
(* moment the records still hold the words that EBREAKs hide.              *)
TextRecoverable == \A a \in Ram : Underlying(a) = image[a]

(* It is so until one of the gaps is taken.                                *)
ProgramIntact == breach = {} => TextRecoverable

(* Every enabled breakpoint is armed in memory, but the one that a step is *)
(* crossing; `info break' lists no breakpoint that cannot fire.            *)
Armed ==
  breach = {} => \A s \in Slots : permanent[s].enabled /\ s # stepped =>
                   mem[permanent[s].address] = EBREAK

(* What a step moved is back whenever the user can type a command.         *)
QuietPrompt ==
  breach = {} /\ mode = "monitor" => ~temporary.enabled /\ stepped = 0

(* `undo' never writes over a breakpoint: setting one, stepping, or        *)
(* restoring a snapshot drops the transaction (main.rs                     *)
(* clear_memory_undo); a part of Inv below.                                *)
UndoClearOfBreakpoints == undo.valid => ~ActiveBreakpoint(undo.address)

(* No two breakpoints share a word, so no record keeps the other's EBREAK. *)
BreakpointsDisjoint ==
  /\ temporary.enabled => ~HasPermanent(temporary.address)
  /\ \A r, s \in Slots : permanent[r].enabled /\ permanent[s].enabled
                         /\ permanent[r].address = permanent[s].address => r = s

(* The inductive invariant behind the ones above.  Memory is the image     *)
(* with an EBREAK at each patched word and nowhere else; the records hold  *)
(* the words under the patches; and a step over a breakpoint either has    *)
(* its one instruction still to retire, with a patch where it will land,   *)
(* or has landed on that patch.                                            *)
Patched(a) ==
  HasTemporary(a) \/ \E s \in Slots : s # stepped /\ PermanentOn(s, a)
PatchesExact == \A a \in Ram : mem[a] = IF Patched(a) THEN EBREAK ELSE image[a]
RecordsExact ==
  /\ temporary.enabled => temporary.original = image[temporary.address]
  /\ \A s \in Slots : permanent[s].enabled =>
       permanent[s].original = image[permanent[s].address]
SteppedCrossing ==
  stepped # 0 =>
    LET a == permanent[stepped].address IN
    /\ permanent[stepped].enabled /\ image[a] # EBREAK
    /\ \/ /\ pc = a /\ fresh
          /\ Succ[<<image[a], x, a>>] \in Ram /\ Patched(Succ[<<image[a], x, a>>])
       \/ pc \in Ram /\ Patched(pc)
TrapExplained == mode = "trap" => Traps /\ mcause = Cause
Inv ==
  /\ TypeOK /\ BreakpointsDisjoint /\ UndoClearOfBreakpoints /\ QuietPrompt
  /\ TrapExplained
  /\ breach = {} => PatchesExact /\ RecordsExact /\ SteppedCrossing

(* step, run and stepidp retire at most the instructions they were given,  *)
(* when no count of an earlier command was left behind.                    *)
BudgetKept == breach = {} /\ order.count # 0 /\ ~stale => retired <= order.count

(* The debugger implements the contract of DebugContract.                  *)
Contract == INSTANCE DebugContract WITH
  running <- mode = "target" \/ (mode = "trap" /\ mcause = "ecall"),
  breaks <- {a \in Ram : HasPermanent(a)},
  wild <- breach # {}
ImplementsContract == Contract!Spec

(* A bounded command gives the prompt back, whatever the program does,     *)
(* unless it writes over a breakpoint.  A program that puts a branch over  *)
(* the EBREAK of its own step runs on, and its count stands still.         *)
BoundedRunReturns ==
  (mode # "monitor" /\ order.count # 0) ~> (mode = "monitor" \/ breach # {})

(* `sinon le moniteur revient au prompt': the tutorial makes no exception. *)
RunReturnsToPrompt == (mode # "monitor" /\ order.by = "run") ~> mode = "monitor"

(* In the tutorial `continue' ends at the next breakpoint of the user; a   *)
(* stepidp that was refused on its way goes on stepping there instead.     *)
ContinueStopsAtBreakpoint ==
  [][mode = "trap" /\ mcause = "break" /\ order.by = "continue" /\ HasPermanent(pc)
     => mode' = "monitor"]_vars

(* `Ils sont évalués avant l'exécution de l'instruction': under a bounded  *)
(* command no watched access retires.                                      *)
WatchedAccess == mode = "target" /\ retired' > retired /\ WatchHit(mem[pc])
WatchedAccessStops == [][order.count # 0 => ~WatchedAccess]_vars

(* It holds of the steps that do not cross a permanent breakpoint, as long *)
(* as the stops of earlier steps are still in memory.                      *)
StepsHonourWatchpoints ==
  [][breach = {} /\ order.count # 0 /\ stepped = 0 => ~WatchedAccess]_vars
=============================================================================
