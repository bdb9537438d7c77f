----------------------------- MODULE TrapContext -----------------------------
(***************************************************************************)
(* The trap path of the guest: entry.S, from the first mret into the       *)
(* target to trap_entry and resume_user, and what rust_trap does with the  *)
(* context between them.  A block of instructions between two uses of a    *)
(* scratch register or a CSR is one action.                                *)
(*                                                                         *)
(* The register file is reduced to the registers the path itself uses: sp, *)
(* t0, t1, t6, fcsr, and a0, which also stands for those, f0 to f31        *)
(* included, that it merely copies.  Registers hold values of the target   *)
(* or one of the three the monitor puts there.                             *)
(*                                                                         *)
(* A definition marked `mutant' is a plausible slip in the definition that *)
(* follows it; nothing uses it, and the properties are known to catch it.  *)
(***************************************************************************)
EXTENDS Naturals

CONSTANTS
  Values,           \* what the target keeps in its registers
  Usable,           \* those of them that memory can be pushed below
  Stack,            \* the top of TARGET_STACK
  Context,          \* the address of CONTEXT
  Private,          \* the stack of the monitor
  Junk,             \* whatever M-mode code leaves in a register
  Last              \* bound: the target's words are 0 .. Last

ASSUME ValueAssumption ==
  /\ Usable \subseteq Values /\ Stack \in Usable
  /\ Context \notin Values /\ Private \notin Values /\ Junk \notin Values
  /\ Context # Private /\ Context # Junk /\ Private # Junk
ASSUME BoundAssumption == Last \in Nat

Regs == {"sp", "t0", "t1", "t6", "a0", "fcsr"}
Contents == Values \cup {Context, Private, Junk}
Words == 0 .. Last
BootCode == {"main", "enter", "enter_mstatus", "enter_sp", "enter_mret"}
TrapCode == {"trap_entry", "save", "save_t0", "save_csr", "call", "handler",
             "restore", "restore_csr", "restore_t0", "restore_mret"}
Places == [code : BootCode \cup TrapCode \cup {"target"}, word : Words]
Status == [mie : BOOLEAN, mpie : BOOLEAN, mpp : {"U", "M"}]
Causes == {"none", "irq", "ecall", "break", "illegal", "fault"}

VARIABLES
  priv,       \* the mode of the hart, "U" or "M"
  pc,         \* in the target a word, in the monitor a place of its code
  x,          \* the registers, and fcsr
  mepc, mstatus, mscratch, mcause,
  meie,       \* mie.MEIE
  frame,      \* CONTEXT: x, mepc, mstatus, mcause
  expected,   \* history: the registers and the word the target is to find
  gap         \* history: which of the two known gaps of this path were taken

csrs == <<mepc, mstatus, mscratch, mcause>>
vars == <<priv, pc, x, csrs, meie, frame, expected, gap>>

Monitor(c) == [code |-> c, word |-> 0]
Target(w) == [code |-> "target", word |-> w]
GoesTo(c) == pc' = Monitor(c)

-----------------------------------------------------------------------------
(* The hart: a trap, and mret.                                             *)

Trap(cause) ==
  /\ mepc' = pc /\ mcause' = cause
  /\ mstatus' = [mie |-> FALSE, mpie |-> mstatus.mie, mpp |-> priv]
  /\ priv' = "M" /\ GoesTo("trap_entry")

Mret ==
  /\ priv' = mstatus.mpp /\ pc' = mepc
  /\ mstatus' = [mie |-> mstatus.mpie, mpie |-> TRUE, mpp |-> "U"]
  /\ UNCHANGED <<mepc, mscratch, mcause>>

(* A character is received: M-mode takes it with mstatus.MIE, U-mode does. *)
(* Gap "early": enter_user has begun to set the CSRs the trap overwrites.  *)
Interrupt ==
  /\ meie /\ (priv = "U" \/ mstatus.mie)
  /\ Trap("irq")
  /\ gap' = IF priv = "M" /\ pc.code \in {"enter_mstatus", "enter_sp", "enter_mret"}
            THEN gap \cup {"early"} ELSE gap
  /\ UNCHANGED <<x, mscratch, meie, frame, expected>>

-----------------------------------------------------------------------------
(* rust_main and enter_user.                                               *)

EnableInterrupts ==
  /\ pc = Monitor("main") /\ priv = "M" /\ GoesTo("enter")
  /\ meie' = TRUE /\ mstatus' = [mstatus EXCEPT !.mie = TRUE]
  /\ UNCHANGED <<priv, x, mepc, mscratch, mcause, frame, expected, gap>>

EnterEpc ==
  /\ pc = Monitor("enter") /\ priv = "M" /\ GoesTo("enter_mstatus")
  /\ mepc' = Target(0)
  /\ UNCHANGED <<priv, x, mstatus, mscratch, mcause, meie, frame, expected, gap>>

EnterMstatus ==
  /\ pc = Monitor("enter_mstatus") /\ priv = "M" /\ GoesTo("enter_sp")
  /\ mstatus' = [mstatus EXCEPT !.mpp = "U", !.mpie = TRUE]
  /\ x' = [x EXCEPT !["t0"] = Junk, !["t1"] = Junk]
  /\ UNCHANGED <<priv, mepc, mscratch, mcause, meie, frame, expected, gap>>

EnterSp ==
  /\ pc = Monitor("enter_sp") /\ priv = "M" /\ GoesTo("enter_mret")
  /\ x' = [x EXCEPT !["sp"] = Stack]
  /\ UNCHANGED <<priv, csrs, meie, frame, expected, gap>>

EnterMret ==
  /\ pc = Monitor("enter_mret") /\ priv = "M" /\ Mret
  /\ expected' = [x |-> x, word |-> 0]
  /\ UNCHANGED <<x, meie, frame, gap>>

-----------------------------------------------------------------------------
(* The target: an instruction writes a register and goes somewhere; or it  *)
(* traps.  In U-mode the rest of enter_user is privileged.                 *)

Instruction(r, v, w) ==
  /\ priv = "U" /\ pc.code = "target"
  /\ x' = [x EXCEPT ![r] = v] /\ pc' = Target(w)
  /\ expected' = [x |-> [expected.x EXCEPT ![r] = v], word |-> w]
  /\ UNCHANGED <<priv, csrs, meie, frame, gap>>

TargetTraps(cause) ==
  /\ priv = "U" /\ pc.code = "target" /\ Trap(cause)
  /\ UNCHANGED <<x, mscratch, meie, frame, expected, gap>>

MonitorTextInUserMode ==
  /\ priv = "U" /\ pc.code # "target" /\ Trap("illegal")
  /\ UNCHANGED <<x, mscratch, meie, frame, expected, gap>>

-----------------------------------------------------------------------------
(* trap_entry.  Everything is saved through t0.                            *)

TrapEntry ==
  /\ pc = Monitor("trap_entry") /\ GoesTo("save")
  /\ x' = [x EXCEPT !["t0"] = mscratch] /\ mscratch' = x["t0"]
  /\ UNCHANGED <<priv, mepc, mstatus, mcause, meie, frame, expected, gap>>

(* A store through any other pointer leaves the context alone.             *)
Saves(registers) ==
  frame' = IF x["t0"] = Context
           THEN [frame EXCEPT !.x = [r \in Regs |-> IF r \in registers THEN x[r] ELSE @[r]]]
           ELSE frame

Save ==
  /\ pc = Monitor("save") /\ GoesTo("save_t0") /\ Saves(Regs \ {"t0", "fcsr"})
  /\ UNCHANGED <<priv, x, csrs, meie, expected, gap>>

SaveT0 ==
  /\ pc = Monitor("save_t0") /\ GoesTo("save_csr")
  /\ x' = [x EXCEPT !["t1"] = mscratch]
  /\ frame' = IF x["t0"] = Context THEN [frame EXCEPT !.x["t0"] = mscratch] ELSE frame
  /\ UNCHANGED <<priv, csrs, meie, expected, gap>>

SaveCsrs ==
  /\ pc = Monitor("save_csr") /\ GoesTo("call")
  /\ x' = [x EXCEPT !["t1"] = Junk]
  /\ frame' = IF x["t0"] = Context
              THEN [x |-> [frame.x EXCEPT !["fcsr"] = x["fcsr"]],
                    mepc |-> mepc, mstatus |-> mstatus, mcause |-> mcause]
              ELSE frame
  /\ UNCHANGED <<priv, csrs, meie, expected, gap>>

(* sp is still the target's, and rust_trap pushes its frame there; a push  *)
(* that faults is a trap in M-mode (gap "push").                           *)
CallRustTrap ==
  /\ pc = Monitor("call") /\ x["sp"] \in Usable \cup {Private} /\ GoesTo("handler")
  /\ x' = [x EXCEPT !["a0"] = x["t0"]]
  /\ UNCHANGED <<priv, csrs, meie, frame, expected, gap>>
PushFaults ==
  /\ pc = Monitor("call") /\ x["sp"] \notin Usable \cup {Private} /\ Trap("fault")
  /\ x' = [x EXCEPT !["a0"] = x["t0"]] /\ gap' = gap \cup {"push"}
  /\ UNCHANGED <<mscratch, meie, frame, expected>>

-----------------------------------------------------------------------------
(* rust_trap, down to resume_target.  Its own code leaves junk everywhere  *)
(* but in the argument of resume_user.                                     *)

InHandler(causes) == pc = Monitor("handler") /\ frame.mcause \in causes
Resumes ==
  /\ GoesTo("restore") /\ x' = [r \in Regs |-> IF r = "a0" THEN x["a0"] ELSE Junk]
  /\ UNCHANGED <<priv, csrs, meie, gap>>

HandleInterrupt ==
  /\ InHandler({"irq"}) /\ Resumes /\ UNCHANGED <<frame, expected>>

SkipsTwo(v) ==                                                   \* mutant
  /\ InHandler({"ecall"}) /\ Resumes /\ frame.mepc.word < Last /\ expected.word < Last
  /\ frame' = [frame EXCEPT !.x["a0"] = v, !.mepc = Target(frame.mepc.word + 2),
                            !.mcause = "break"]
  /\ expected' = [x |-> [expected.x EXCEPT !["a0"] = v], word |-> expected.word + 1]
(* handle_environment_call and resume_after_environment_call.  The bound:  *)
(* a call in the last word is not answered.                                *)
HandleCall(v) ==
  /\ InHandler({"ecall"}) /\ Resumes /\ frame.mepc.word < Last /\ expected.word < Last
  /\ frame' = [frame EXCEPT !.x["a0"] = v, !.mepc = Target(frame.mepc.word + 1),
                            !.mcause = "break"]
  /\ expected' = [x |-> [expected.x EXCEPT !["a0"] = v], word |-> expected.word + 1]

(* exit: the target is stopped as if at a breakpoint.                      *)
ExitCall ==
  /\ InHandler({"ecall"}) /\ frame' = [frame EXCEPT !.mcause = "break"]
  /\ UNCHANGED <<priv, pc, x, csrs, meie, expected, gap>>

(* The prompt: set and setf, and a command that resumes at some word.      *)
SetRegister(r, v) ==
  /\ InHandler({"break"}) /\ r # "fcsr"
  /\ frame' = [frame EXCEPT !.x[r] = v]
  /\ expected' = [expected EXCEPT !.x[r] = v]
  /\ UNCHANGED <<priv, pc, x, csrs, meie, gap>>

ResumeAt(w) ==
  /\ InHandler({"break"}) /\ Resumes
  /\ frame' = [frame EXCEPT !.mepc = Target(w)]
  /\ expected' = [expected EXCEPT !.word = w]

(* run-at, also when the target was stopped by something else.             *)
RunTargetAt(v, w) ==
  /\ InHandler({"break", "illegal", "ecall"}) /\ Resumes
  /\ frame' = [frame EXCEPT !.x = [r \in Regs |-> IF r = "sp" THEN Stack ELSE v],
                            !.mepc = Target(w), !.mcause = "break"]
  /\ expected' = [x |-> [r \in Regs |-> IF r = "sp" THEN Stack ELSE v], word |-> w]

-----------------------------------------------------------------------------
(* resume_user.  Everything is restored through t6.                        *)

Restore ==
  /\ pc = Monitor("restore") /\ GoesTo("restore_csr")
  /\ x' = [frame.x EXCEPT !["t6"] = x["a0"], !["fcsr"] = x["fcsr"]]
  /\ UNCHANGED <<priv, csrs, meie, frame, expected, gap>>

(* The CSRs go through t0.                                                 *)
SetsMie ==                                                       \* mutant
  /\ pc = Monitor("restore_csr") /\ GoesTo("restore_t0")
  /\ mepc' = frame.mepc /\ mstatus' = [frame.mstatus EXCEPT !.mie = TRUE]
  /\ x' = [x EXCEPT !["fcsr"] = frame.x["fcsr"], !["t0"] = Junk]
  /\ UNCHANGED <<priv, mscratch, mcause, meie, frame, expected, gap>>
RestoreCsrs ==
  /\ pc = Monitor("restore_csr") /\ GoesTo("restore_t0")
  /\ mepc' = frame.mepc /\ mstatus' = frame.mstatus
  /\ x' = [x EXCEPT !["fcsr"] = frame.x["fcsr"], !["t0"] = Junk]
  /\ UNCHANGED <<priv, mscratch, mcause, meie, frame, expected, gap>>

(* `Restore the target's x5/t0 after the last CSR write' (entry.S:124).    *)
KeepsT0 ==                                                       \* mutant
  /\ pc = Monitor("restore_t0") /\ GoesTo("restore_mret")
  /\ mscratch' = x["t6"] /\ x' = [x EXCEPT !["t6"] = frame.x["t6"]]
  /\ UNCHANGED <<priv, mepc, mstatus, mcause, meie, frame, expected, gap>>
ScratchAfterT6 ==                                                \* mutant
  /\ pc = Monitor("restore_t0") /\ GoesTo("restore_mret")
  /\ x' = [x EXCEPT !["t0"] = frame.x["t0"], !["t6"] = frame.x["t6"]]
  /\ mscratch' = frame.x["t6"]
  /\ UNCHANGED <<priv, mepc, mstatus, mcause, meie, frame, expected, gap>>
RestoreT0 ==
  /\ pc = Monitor("restore_t0") /\ GoesTo("restore_mret")
  /\ x' = [x EXCEPT !["t0"] = frame.x["t0"], !["t6"] = frame.x["t6"]]
  /\ mscratch' = x["t6"]
  /\ UNCHANGED <<priv, mepc, mstatus, mcause, meie, frame, expected, gap>>

ResumeMret ==
  /\ pc = Monitor("restore_mret") /\ Mret
  /\ UNCHANGED <<x, meie, frame, expected, gap>>

-----------------------------------------------------------------------------
(* rust_main after install_trap.                                           *)
Init ==
  /\ priv = "M" /\ pc = Monitor("main")
  /\ x = [r \in Regs |-> IF r = "sp" THEN Private ELSE Junk]
  /\ mepc = Target(0) /\ mstatus = [mie |-> FALSE, mpie |-> FALSE, mpp |-> "U"]
  /\ mscratch = Context /\ mcause = "none" /\ meie = FALSE
  /\ frame = [x |-> x, mepc |-> mepc, mstatus |-> mstatus, mcause |-> mcause]
  /\ expected = [x |-> x, word |-> 0] /\ gap = {}

Boot == EnableInterrupts \/ EnterEpc \/ EnterMstatus \/ EnterSp \/ EnterMret
Entry == TrapEntry \/ Save \/ SaveT0 \/ SaveCsrs \/ CallRustTrap \/ PushFaults
Handler ==
  \/ HandleInterrupt
  \/ ExitCall \/ \E v \in Values \cup {frame.x["a0"]} : HandleCall(v)
  \/ \E r \in Regs, v \in Values : SetRegister(r, v)
  \/ \E w \in Words : ResumeAt(w)
  \/ \E v \in Values, w \in Words : RunTargetAt(v, w)
Resume == Restore \/ RestoreCsrs \/ RestoreT0 \/ ResumeMret
TargetRuns ==
  \/ \E r \in Regs, v \in Values, w \in Words : Instruction(r, v, w)
  \/ \E c \in {"ecall", "break", "illegal"} : TargetTraps(c)
  \/ MonitorTextInUserMode

Next == Boot \/ TargetRuns \/ Interrupt \/ Entry \/ Handler \/ Resume

Spec == Init /\ [][Next]_vars

-----------------------------------------------------------------------------
TypeOK ==
  /\ priv \in {"U", "M"} /\ pc \in Places /\ x \in [Regs -> Contents]
  /\ mepc \in Places /\ mstatus \in Status /\ mscratch \in Contents /\ mcause \in Causes
  /\ meie \in BOOLEAN
  /\ frame \in [x : [Regs -> Contents], mepc : Places, mstatus : Status, mcause : Causes]
  /\ expected \in [x : [Regs -> Contents], word : Words] /\ gap \in SUBSET {"early", "push"}

(* Whatever stopped it, and whatever the monitor did meanwhile, the target *)
(* goes on at the word it was to go on at, with every register as it left  *)
(* it or as the service or the command set it: trap_entry and resume_user  *)
(* are inverse to each other, scratch registers included, and an interrupt *)
(* between EnableInterrupts and enter_user's first write does no harm.     *)
TargetUndisturbed ==
  gap = {} /\ priv = "U" => pc = Target(expected.word) /\ x = expected.x

(* trap_entry finds the context in mscratch whenever a trap can come, and  *)
(* so saves into nothing else.                                             *)
SavesInContext == pc.code = "save" => x["t0"] = Context
ContextIsFound ==
  "push" \notin gap => /\ priv = "U" \/ pc.code \in BootCode => mscratch = Context
                       /\ SavesInContext

(* From trap_entry to the mret of resume_user no interrupt can be taken: a *)
(* nested one would overwrite the context of the stopped target.           *)
NotNested == pc.code \in TrapCode => ~mstatus.mie

-----------------------------------------------------------------------------
(* The inductive invariant: which register or CSR holds the context at     *)
(* each place of the path, and where the target's state is meanwhile.      *)

Saving == {"trap_entry", "save", "save_t0", "save_csr", "call"}

Sealed ==
  /\ pc.code \in TrapCode => priv = "M" /\ ~mstatus.mie
  /\ ~frame.mstatus.mie
  /\ "push" \in gap => pc.code \in Saving /\ x["sp"] \notin Usable \cup {Private}
  /\ "push" \notin gap => mepc.code \notin TrapCode /\ frame.mepc.code \notin TrapCode

ContextHeld ==
  "push" \notin gap =>
    /\ pc.code \in BootCode \cup {"target", "trap_entry", "restore_mret"} => mscratch = Context
    /\ pc.code \in {"save", "save_t0", "save_csr", "call"} => x["t0"] = Context
    /\ pc.code \in {"handler", "restore"} => x["a0"] = Context
    /\ pc.code \in {"restore_csr", "restore_t0"} => x["t6"] = Context

(* Where mret goes: on in the target, or back to the start of enter_user,  *)
(* where only an interrupt comes from.                                     *)
Returns(p, status, cause) ==
  \/ status.mpp = "U" /\ p = Target(expected.word)
  \/ status.mpp = "M" /\ p = Monitor("enter") /\ cause = "irq"

InCsrs == Returns(mepc, mstatus, mcause)
InFrame == Returns(frame.mepc, frame.mstatus, frame.mcause)

Live(registers, status) ==
  status.mpp = "U" => \A r \in registers : x[r] = expected.x[r]
Saved(registers, status) ==
  status.mpp = "U" => \A r \in registers : frame.x[r] = expected.x[r]

Booting ==
  /\ pc.code \in BootCode => priv = "M"
  /\ pc.code \in {"enter_mstatus", "enter_sp", "enter_mret"} => mepc = Target(0)
  /\ pc.code \in {"enter_sp", "enter_mret"} => mstatus.mpp = "U"
  /\ pc = Monitor("main") => ~mstatus.mie /\ ~meie
  /\ pc.code \in BootCode => pc.word = 0
InTarget ==
  pc.code = "target" => priv = "U" /\ pc.word = expected.word /\ x = expected.x
SavingTarget ==
  /\ pc.code = "trap_entry" => InCsrs /\ Live(Regs, mstatus)
  /\ pc.code \in {"save", "save_t0"} =>
       /\ InCsrs /\ Live(Regs \ {"t0"}, mstatus)
       /\ mstatus.mpp = "U" => mscratch = expected.x["t0"]
  /\ pc.code = "save_t0" => Saved(Regs \ {"t0", "fcsr"}, mstatus)
  /\ pc.code = "save_csr" =>
       InCsrs /\ Live({"fcsr"}, mstatus) /\ Saved(Regs \ {"fcsr"}, mstatus)
ResumingTarget ==
  /\ pc.code \in {"call", "handler", "restore", "restore_csr", "restore_t0"} =>
       InFrame /\ Saved(Regs, frame.mstatus)
  /\ pc.code = "restore_csr" => Live(Regs \ {"t6", "fcsr"}, frame.mstatus)
  /\ pc.code = "restore_t0" =>
       /\ mepc = frame.mepc /\ mstatus = frame.mstatus
       /\ Live(Regs \ {"t6", "t0"}, frame.mstatus)
  /\ pc.code = "restore_mret" =>
       Returns(mepc, mstatus, frame.mcause) /\ Live(Regs, mstatus)

Undisturbed == gap = {} => Booting /\ InTarget /\ SavingTarget /\ ResumingTarget

Inv == TypeOK /\ Sealed /\ ContextHeld /\ Undisturbed

-----------------------------------------------------------------------------
(* What a comment and a document say and the code does not do.             *)

(* uart16550.rs:4: interrupt delivery is used while U-mode runs; and so    *)
(* the first mret enters the target.                                       *)
EntersTarget == priv = "U" => pc.code = "target"
=============================================================================
