-------------------------- MODULE TrapContextProofs --------------------------
(***************************************************************************)
(* Proofs about TrapContext, for every choice of the target's values, of   *)
(* those memory can be pushed below, and of its number of words.           *)
(*                                                                         *)
(* Inv is proved part by part: TypeStep, SealedStep, HeldStep and          *)
(* UndisturbedStep each show that one part of it survives every action,    *)
(* and the theorems follow from Invariance.                                *)
(***************************************************************************)
EXTENDS TrapContext, TLAPS

(* The places the actions name, and the places of the target, are places.  *)
LEMMA PlacesAreTyped ==
  /\ \A c \in BootCode \cup TrapCode : Monitor(c) \in Places /\ Monitor(c).code = c
  /\ \A w \in Words : Target(w) \in Places /\ Target(w).code = "target" /\ Target(w).word = w
  /\ 0 \in Words
<1>1. 0 \in Words
  BY BoundAssumption DEF Words
<1>2. \A c \in BootCode \cup TrapCode : Monitor(c) \in Places /\ Monitor(c).code = c
  BY <1>1 DEF Monitor, Places
<1>3. \A w \in Words : Target(w) \in Places /\ Target(w).code = "target" /\ Target(w).word = w
  BY DEF Target, Places
<1> QED
  BY <1>1, <1>2, <1>3

(* A trap leaves the hart in a typed state.                                *)
LEMMA TrapIsTyped ==
  ASSUME TypeOK, NEW c \in Causes, Trap(c)
  PROVE  /\ priv' \in {"U", "M"} /\ pc' \in Places /\ mepc' \in Places
         /\ mstatus' \in Status /\ mcause' \in Causes
<1>1. pc' \in Places
  BY PlacesAreTyped DEF Trap, GoesTo, TrapCode
<1>2. mstatus' \in Status
  BY DEF Trap, TypeOK, Status
<1> QED
  BY <1>1, <1>2 DEF Trap, TypeOK

(* The register file stays typed under each of the writes of the path.     *)
LEMMA RegistersAreTyped ==
  ASSUME NEW f \in [Regs -> Contents], NEW r \in Regs, NEW v \in Contents
  PROVE  [f EXCEPT ![r] = v] \in [Regs -> Contents]
  OBVIOUS

LEMMA TypeStep ==
  ASSUME TypeOK, [Next]_vars
  PROVE  TypeOK'
<1> USE DEF TypeOK
<1>a. /\ Junk \in Contents /\ Context \in Contents /\ Stack \in Contents
      /\ Values \subseteq Contents
      /\ {"sp", "t0", "t1", "t6", "a0", "fcsr"} = Regs
  BY ValueAssumption DEF Contents, Regs
<1>b. \A c \in BootCode \cup TrapCode : GoesTo(c) => pc' \in Places
  BY PlacesAreTyped DEF GoesTo
<1>1. CASE EnableInterrupts
  <2>1. mstatus' \in Status
    BY <1>1 DEF EnableInterrupts, Status
  <2> QED
    BY <1>1, <1>b, <2>1 DEF EnableInterrupts, BootCode
<1>2. CASE EnterEpc
  BY <1>2, <1>b, PlacesAreTyped DEF EnterEpc, BootCode
<1>3. CASE EnterMstatus
  <2>1. mstatus' \in Status
    BY <1>3 DEF EnterMstatus, Status
  <2>2. x' \in [Regs -> Contents]
    BY <1>3, <1>a DEF EnterMstatus
  <2> QED
    BY <1>3, <1>b, <2>1, <2>2 DEF EnterMstatus, BootCode
<1>4. CASE EnterSp
  <2>1. x' \in [Regs -> Contents]
    BY <1>4, <1>a DEF EnterSp
  <2> QED
    BY <1>4, <1>b, <2>1 DEF EnterSp, csrs, BootCode
<1>5. CASE EnterMret
  <2>1. mstatus' \in Status /\ priv' \in {"U", "M"}
    BY <1>5 DEF EnterMret, Mret, Status
  <2>2. expected' \in [x : [Regs -> Contents], word : Words]
    BY <1>5, PlacesAreTyped DEF EnterMret
  <2> QED
    BY <1>5, <2>1, <2>2 DEF EnterMret, Mret
<1>6. CASE TrapEntry
  <2>1. x' \in [Regs -> Contents] /\ mscratch' \in Contents
    BY <1>6, <1>a DEF TrapEntry
  <2> QED
    BY <1>6, <1>b, <2>1 DEF TrapEntry, TrapCode
<1>7. CASE Save
  <2>1. frame' \in [x : [Regs -> Contents], mepc : Places, mstatus : Status, mcause : Causes]
    BY <1>7 DEF Save, Saves
  <2> QED
    BY <1>7, <1>b, <2>1 DEF Save, csrs, TrapCode
<1>8. CASE SaveT0
  <2>1. frame' \in [x : [Regs -> Contents], mepc : Places, mstatus : Status, mcause : Causes]
    BY <1>8 DEF SaveT0
  <2>2. x' \in [Regs -> Contents]
    BY <1>8, <1>a DEF SaveT0
  <2> QED
    BY <1>8, <1>b, <2>1, <2>2 DEF SaveT0, csrs, TrapCode
<1>9. CASE SaveCsrs
  <2>1. frame' \in [x : [Regs -> Contents], mepc : Places, mstatus : Status, mcause : Causes]
    BY <1>9, <1>a DEF SaveCsrs
  <2>2. x' \in [Regs -> Contents]
    BY <1>9, <1>a DEF SaveCsrs
  <2> QED
    BY <1>9, <1>b, <2>1, <2>2 DEF SaveCsrs, csrs, TrapCode
<1>10. CASE CallRustTrap
  <2>1. x' \in [Regs -> Contents]
    BY <1>10, <1>a DEF CallRustTrap
  <2> QED
    BY <1>10, <1>b, <2>1 DEF CallRustTrap, csrs, TrapCode
<1>11. CASE PushFaults
  <2>1. x' \in [Regs -> Contents]
    BY <1>11, <1>a DEF PushFaults
  <2>2. "fault" \in Causes
    BY DEF Causes
  <2> QED
    BY <1>11, <2>1, <2>2, TrapIsTyped DEF PushFaults
<1>12. CASE HandleInterrupt \/ \E w \in Words : ResumeAt(w)
  <2>1. Resumes => x' \in [Regs -> Contents] /\ pc' \in Places
    BY <1>a, <1>b DEF Resumes, TrapCode
  <2>2. CASE HandleInterrupt
    BY <2>1, <2>2 DEF HandleInterrupt, Resumes, csrs
  <2>3. ASSUME NEW w \in Words, ResumeAt(w)
        PROVE  TypeOK'
    BY <2>1, <2>3, PlacesAreTyped DEF ResumeAt, Resumes, csrs
  <2> QED
    BY <1>12, <2>2, <2>3
<1>13. ASSUME NEW v \in Values \cup {frame.x["a0"]}, HandleCall(v)
       PROVE  TypeOK'
  <2>0. v \in Contents
    BY <1>a
  <2>1. x' \in [Regs -> Contents] /\ pc' \in Places
    BY <1>13, <1>a, <1>b DEF HandleCall, Resumes, TrapCode
  <2>2. \A w \in Words : w < Last => w + 1 \in Words
    BY BoundAssumption DEF Words
  <2>3. expected' \in [x : [Regs -> Contents], word : Words]
    BY <1>13, <2>0, <2>2 DEF HandleCall
  <2>4. frame.mepc.word + 1 \in Words
    BY <1>13, <2>2 DEF HandleCall, Places
  <2>5. Target(frame.mepc.word + 1) \in Places /\ "break" \in Causes
    BY <2>4, PlacesAreTyped DEF Causes
  <2>6. frame' \in [x : [Regs -> Contents], mepc : Places, mstatus : Status, mcause : Causes]
    BY <1>13, <2>0, <2>5 DEF HandleCall
  <2> QED
    BY <1>13, <2>1, <2>3, <2>6 DEF HandleCall, Resumes, csrs
<1>14. CASE ExitCall
  BY <1>14 DEF ExitCall, csrs, Causes
<1>15. ASSUME NEW r \in Regs, NEW v \in Values, SetRegister(r, v)
       PROVE  TypeOK'
  BY <1>15, <1>a DEF SetRegister, csrs
<1>16. ASSUME NEW v \in Values, NEW w \in Words, RunTargetAt(v, w)
       PROVE  TypeOK'
  <2>1. x' \in [Regs -> Contents] /\ pc' \in Places
    BY <1>16, <1>a, <1>b DEF RunTargetAt, Resumes, TrapCode
  <2>2. [r \in Regs |-> IF r = "sp" THEN Stack ELSE v] \in [Regs -> Contents]
    BY <1>a
  <2> QED
    BY <1>16, <2>1, <2>2, PlacesAreTyped DEF RunTargetAt, Resumes, csrs, Causes
<1>17. CASE Restore
  <2>1. x' \in [Regs -> Contents]
    BY <1>17, <1>a DEF Restore
  <2> QED
    BY <1>17, <1>b, <2>1 DEF Restore, csrs, TrapCode
<1>18. CASE RestoreCsrs
  <2>1. x' \in [Regs -> Contents]
    BY <1>18, <1>a DEF RestoreCsrs
  <2> QED
    BY <1>18, <1>b, <2>1 DEF RestoreCsrs, TrapCode
<1>19. CASE RestoreT0
  <2>1. x' \in [Regs -> Contents] /\ mscratch' \in Contents
    BY <1>19, <1>a DEF RestoreT0
  <2> QED
    BY <1>19, <1>b, <2>1 DEF RestoreT0, TrapCode
<1>20. CASE ResumeMret
  <2>1. mstatus' \in Status /\ priv' \in {"U", "M"}
    BY <1>20 DEF ResumeMret, Mret, Status
  <2> QED
    BY <1>20, <2>1 DEF ResumeMret, Mret
<1>21. ASSUME NEW r \in Regs, NEW v \in Values, NEW w \in Words, Instruction(r, v, w)
       PROVE  TypeOK'
  BY <1>21, <1>a, PlacesAreTyped DEF Instruction, csrs
<1>22. ASSUME NEW c \in {"ecall", "break", "illegal"}, TargetTraps(c)
       PROVE  TypeOK'
  BY <1>22, TrapIsTyped DEF TargetTraps, Causes
<1>23. CASE MonitorTextInUserMode
  BY <1>23, TrapIsTyped DEF MonitorTextInUserMode, Causes
<1>24. CASE Interrupt
  <2>1. gap' \in SUBSET {"early", "push"}
    BY <1>24 DEF Interrupt
  <2> QED
    BY <1>24, <2>1, TrapIsTyped DEF Interrupt, Causes
<1>25. CASE UNCHANGED vars
  BY <1>25 DEF vars, csrs
<1> QED
  BY <1>1, <1>2, <1>3, <1>4, <1>5, <1>6, <1>7, <1>8, <1>9, <1>10, <1>11, <1>12, <1>13,
     <1>14, <1>15, <1>16, <1>17, <1>18, <1>19, <1>20, <1>21, <1>22, <1>23, <1>24, <1>25
  DEF Next, Boot, Entry, Handler, Resume, TargetRuns

-----------------------------------------------------------------------------
(* No interrupt inside the path: mret is the only way out, and it returns  *)
(* to a place outside the path unless a push has faulted, which never ends.*)
LEMMA SealedStep ==
  ASSUME TypeOK, Sealed, [Next]_vars
  PROVE  Sealed'
<1> USE DEF Sealed
<1>a. \A c : Monitor(c).code = c
  BY DEF Monitor
<1>b. \A w : Target(w).code = "target"
  BY DEF Target
<1>c. /\ BootCode = {"main", "enter", "enter_mstatus", "enter_sp", "enter_mret"}
      /\ TrapCode = {"trap_entry", "save", "save_t0", "save_csr", "call", "handler",
                     "restore", "restore_csr", "restore_t0", "restore_mret"}
      /\ Saving = {"trap_entry", "save", "save_t0", "save_csr", "call"}
  BY DEF BootCode, TrapCode, Saving
<1>d. \A c : Trap(c) => /\ priv' = "M" /\ pc'.code = "trap_entry" /\ mepc' = pc
                        /\ ~mstatus'.mie
  BY <1>a DEF Trap, GoesTo
<1>e. frame.mstatus \in Status /\ mstatus \in Status /\ x \in [Regs -> Contents]
  BY DEF TypeOK
<1>1. CASE EnableInterrupts
  BY <1>1, <1>a, <1>c DEF EnableInterrupts, GoesTo
<1>2. CASE EnterEpc
  BY <1>2, <1>a, <1>b, <1>c DEF EnterEpc, GoesTo
<1>3. CASE EnterMstatus
  BY <1>3, <1>a, <1>c DEF EnterMstatus, GoesTo
<1>4. CASE EnterSp
  BY <1>4, <1>a, <1>c DEF EnterSp, GoesTo, csrs
<1>5. CASE EnterMret
  <2>1. "push" \notin gap /\ mepc.code \notin TrapCode
    BY <1>5, <1>a, <1>c DEF EnterMret
  <2> QED
    BY <1>5, <2>1 DEF EnterMret, Mret
<1>6. CASE TrapEntry
  <2>1. x'["sp"] = x["sp"]
    BY <1>6, <1>e DEF TrapEntry, Regs
  <2> QED
    BY <1>6, <2>1, <1>a, <1>c DEF TrapEntry, GoesTo
<1>7. CASE Save
  <2>1. frame'.mstatus = frame.mstatus /\ frame'.mepc = frame.mepc
    BY <1>7 DEF Save, Saves, TypeOK
  <2> QED
    BY <1>7, <2>1, <1>a, <1>c DEF Save, GoesTo, csrs
<1>8. CASE SaveT0
  <2>1. x'["sp"] = x["sp"]
    BY <1>8, <1>e DEF SaveT0, Regs
  <2>2. frame'.mstatus = frame.mstatus /\ frame'.mepc = frame.mepc
    BY <1>8 DEF SaveT0, TypeOK
  <2> QED
    BY <1>8, <2>1, <2>2, <1>a, <1>c DEF SaveT0, GoesTo, csrs
<1>9. CASE SaveCsrs
  <2>1. x'["sp"] = x["sp"]
    BY <1>9, <1>e DEF SaveCsrs, Regs
  <2>2. \/ frame'.mstatus = frame.mstatus /\ frame'.mepc = frame.mepc
        \/ frame'.mstatus = mstatus /\ frame'.mepc = mepc
    BY <1>9 DEF SaveCsrs
  <2> QED
    BY <1>9, <2>1, <2>2, <1>a, <1>c DEF SaveCsrs, GoesTo, csrs
<1>10. CASE CallRustTrap
  BY <1>10, <1>a, <1>c DEF CallRustTrap, GoesTo, csrs
<1>11. CASE PushFaults
  <2>1. x'["sp"] = x["sp"]
    BY <1>11, <1>e DEF PushFaults, Regs
  <2> QED
    BY <1>11, <2>1, <1>c, <1>d DEF PushFaults
<1>r. Resumes /\ pc = Monitor("handler") => /\ "push" \notin gap /\ pc'.code = "restore"
                                           /\ priv = "M" /\ ~mstatus.mie
                                           /\ UNCHANGED <<priv, csrs, gap>>
  BY <1>a, <1>c DEF Resumes, GoesTo
<1>12. CASE HandleInterrupt
  BY <1>12, <1>r, <1>c DEF HandleInterrupt, InHandler, csrs
<1>13. ASSUME NEW v \in Values \cup {frame.x["a0"]}, HandleCall(v)
       PROVE  Sealed'
  <2>1. frame'.mstatus = frame.mstatus /\ frame'.mepc = Target(frame.mepc.word + 1)
    BY <1>13 DEF HandleCall, TypeOK
  <2> QED
    BY <1>13, <2>1, <1>b, <1>c, <1>r DEF HandleCall, InHandler, csrs
<1>14. CASE ExitCall
  <2>1. frame'.mstatus = frame.mstatus /\ frame'.mepc = frame.mepc
    BY <1>14 DEF ExitCall, TypeOK
  <2> QED
    BY <1>14, <2>1 DEF ExitCall, csrs
<1>15. ASSUME NEW r \in Regs, NEW v \in Values, SetRegister(r, v)
       PROVE  Sealed'
  <2>1. frame'.mstatus = frame.mstatus /\ frame'.mepc = frame.mepc
    BY <1>15 DEF SetRegister, TypeOK
  <2> QED
    BY <1>15, <2>1 DEF SetRegister, csrs
<1>16. ASSUME NEW w \in Words, ResumeAt(w)
       PROVE  Sealed'
  <2>1. frame'.mstatus = frame.mstatus /\ frame'.mepc = Target(w)
    BY <1>16 DEF ResumeAt, TypeOK
  <2> QED
    BY <1>16, <2>1, <1>b, <1>c, <1>r DEF ResumeAt, InHandler, csrs
<1>17. ASSUME NEW v \in Values, NEW w \in Words, RunTargetAt(v, w)
       PROVE  Sealed'
  <2>1. frame'.mstatus = frame.mstatus /\ frame'.mepc = Target(w)
    BY <1>17 DEF RunTargetAt, TypeOK
  <2> QED
    BY <1>17, <2>1, <1>b, <1>c, <1>r DEF RunTargetAt, InHandler, csrs
<1>18. CASE Restore
  BY <1>18, <1>a, <1>c DEF Restore, GoesTo, csrs
<1>19. CASE RestoreCsrs
  BY <1>19, <1>a, <1>c DEF RestoreCsrs, GoesTo
<1>20. CASE RestoreT0
  BY <1>20, <1>a, <1>c DEF RestoreT0, GoesTo
<1>21. CASE ResumeMret
  <2>1. "push" \notin gap /\ mepc.code \notin TrapCode
    BY <1>21, <1>a, <1>c DEF ResumeMret
  <2> QED
    BY <1>21, <2>1 DEF ResumeMret, Mret
<1>22. ASSUME NEW r \in Regs, NEW v \in Values, NEW w \in Words, Instruction(r, v, w)
       PROVE  Sealed'
  BY <1>22, <1>b, <1>c DEF Instruction, csrs
<1>23. ASSUME NEW c \in {"ecall", "break", "illegal"}, TargetTraps(c)
       PROVE  Sealed'
  BY <1>23, <1>c, <1>d DEF TargetTraps
<1>24. CASE MonitorTextInUserMode
  BY <1>24, <1>c, <1>d DEF MonitorTextInUserMode
<1>25. CASE Interrupt
  <2>1. pc.code \notin TrapCode
    BY <1>25 DEF Interrupt
  <2>2. "push" \in gap' <=> "push" \in gap
    BY <1>25 DEF Interrupt
  <2> QED
    BY <1>25, <2>1, <2>2, <1>c, <1>d DEF Interrupt
<1>26. CASE UNCHANGED vars
  BY <1>26 DEF vars, csrs
<1> QED
  BY <1>1, <1>2, <1>3, <1>4, <1>5, <1>6, <1>7, <1>8, <1>9, <1>10, <1>11, <1>12, <1>13,
     <1>14, <1>15, <1>16, <1>17, <1>18, <1>19, <1>20, <1>21, <1>22, <1>23, <1>24, <1>25,
     <1>26
  DEF Next, Boot, Entry, Handler, Resume, TargetRuns

(* The pointer to the context is handed from mscratch to t0, to a0, to t6  *)
(* and back to mscratch.                                                   *)
LEMMA HeldStep ==
  ASSUME TypeOK, Sealed, ContextHeld, [Next]_vars
  PROVE  ContextHeld'
<1> USE DEF ContextHeld
<1>a. \A c : Monitor(c).code = c
  BY DEF Monitor
<1>b. \A w : Target(w).code = "target"
  BY DEF Target
<1>c. /\ BootCode = {"main", "enter", "enter_mstatus", "enter_sp", "enter_mret"}
      /\ TrapCode = {"trap_entry", "save", "save_t0", "save_csr", "call", "handler",
                     "restore", "restore_csr", "restore_t0", "restore_mret"}
  BY DEF BootCode, TrapCode
<1>d. \A c : Trap(c) => pc' = Monitor("trap_entry")
  BY DEF Trap, GoesTo
<1>e. x \in [Regs -> Contents] /\ Regs = {"sp", "t0", "t1", "t6", "a0", "fcsr"}
  BY DEF TypeOK, Regs
<1>p. pc.code \in BootCode \cup TrapCode \cup {"target"} /\ mepc.code \in BootCode \cup TrapCode \cup {"target"}
  BY DEF TypeOK, Places
<1>1. CASE EnableInterrupts \/ EnterEpc \/ EnterMstatus \/ EnterSp
  BY <1>1, <1>a, <1>c DEF EnableInterrupts, EnterEpc, EnterMstatus, EnterSp, GoesTo, csrs
<1>2. CASE EnterMret \/ ResumeMret
  <2>1. /\ "push" \notin gap => mscratch = Context
        /\ UNCHANGED <<mscratch, gap>> /\ pc' = mepc
    BY <1>2, <1>a, <1>c DEF EnterMret, ResumeMret, Mret
  <2>2. "push" \notin gap => mepc.code \in BootCode \cup {"target"}
    BY <1>p DEF Sealed
  <2> QED
    BY <2>1, <2>2, <1>c
<1>3. CASE TrapEntry
  <2>1. x'["t0"] = mscratch /\ pc' = Monitor("save") /\ pc = Monitor("trap_entry")
    BY <1>3, <1>e DEF TrapEntry, GoesTo
  <2> QED
    BY <1>3, <2>1, <1>a, <1>c DEF TrapEntry
<1>4. CASE Save
  BY <1>4, <1>a, <1>c DEF Save, GoesTo
<1>5. CASE SaveT0 \/ SaveCsrs
  <2>1. x'["t0"] = x["t0"]
    BY <1>5, <1>e DEF SaveT0, SaveCsrs
  <2> QED
    BY <1>5, <2>1, <1>a, <1>c DEF SaveT0, SaveCsrs, GoesTo
<1>6. CASE CallRustTrap
  <2>1. x'["a0"] = x["t0"]
    BY <1>6, <1>e DEF CallRustTrap
  <2> QED
    BY <1>6, <2>1, <1>a, <1>c DEF CallRustTrap, GoesTo
<1>7. CASE PushFaults
  <2>1. "push" \in gap'
    BY <1>7 DEF PushFaults
  <2> QED
    BY <2>1
<1>r. Resumes => x'["a0"] = x["a0"] /\ pc' = Monitor("restore") /\ gap' = gap
  BY <1>e DEF Resumes, GoesTo
<1>8. CASE Handler
  <2>1. CASE ExitCall \/ \E r \in Regs, v \in Values : SetRegister(r, v)
    BY <2>1, <1>a, <1>c DEF ExitCall, SetRegister, csrs
  <2>2. CASE Resumes /\ pc = Monitor("handler")
    BY <2>2, <1>r, <1>a, <1>c
  <2> QED
    BY <1>8, <2>1, <2>2
    DEF Handler, HandleInterrupt, HandleCall, ResumeAt, RunTargetAt, InHandler
<1>9. CASE Restore
  <2>1. x'["t6"] = x["a0"]
    BY <1>9, <1>e DEF Restore, TypeOK
  <2> QED
    BY <1>9, <2>1, <1>a, <1>c DEF Restore, GoesTo
<1>10. CASE RestoreCsrs
  <2>1. x'["t6"] = x["t6"]
    BY <1>10, <1>e DEF RestoreCsrs
  <2> QED
    BY <1>10, <2>1, <1>a, <1>c DEF RestoreCsrs, GoesTo
<1>11. CASE RestoreT0
  BY <1>11, <1>a, <1>c DEF RestoreT0, GoesTo
<1>12. CASE TargetRuns
  <2>1. pc.code \notin TrapCode
    BY <1>12, <1>c DEF TargetRuns, Instruction, TargetTraps, MonitorTextInUserMode, Sealed
  <2>2. UNCHANGED <<mscratch, gap>> /\ (pc' = Monitor("trap_entry") \/ pc'.code = "target")
    BY <1>12, <1>b, <1>d DEF TargetRuns, Instruction, TargetTraps, MonitorTextInUserMode, csrs
  <2> QED
    BY <2>1, <2>2, <1>a, <1>c, <1>p
<1>13. CASE Interrupt
  <2>1. pc.code \notin TrapCode
    BY <1>13 DEF Interrupt, Sealed
  <2>2. mscratch' = mscratch /\ ("push" \in gap' <=> "push" \in gap)
    BY <1>13 DEF Interrupt
  <2> QED
    BY <1>13, <2>1, <2>2, <1>a, <1>c, <1>d, <1>p DEF Interrupt
<1>14. CASE UNCHANGED vars
  BY <1>14 DEF vars, csrs
<1> QED
  BY <1>1, <1>2, <1>3, <1>4, <1>5, <1>6, <1>7, <1>8, <1>9, <1>10, <1>11, <1>12, <1>13, <1>14
  DEF Next, Boot, Entry, Resume

-----------------------------------------------------------------------------
(* The registers of the target are where the place says they are.  A trap  *)
(* taken at the start of enter_user or in the target begins a new passage. *)
LEMMA TrapBeginsPassage ==
  ASSUME TypeOK, Booting, InTarget, NEW c, Trap(c),
         UNCHANGED <<x, expected>>,
         \/ priv = "U" /\ pc.code = "target"
         \/ priv = "M" /\ pc = Monitor("enter") /\ c = "irq"
  PROVE  /\ pc' = Monitor("trap_entry")
         /\ Returns(mepc, mstatus, mcause)' /\ Live(Regs, mstatus)'
<1>1. /\ pc' = Monitor("trap_entry") /\ mepc' = pc /\ mcause' = c
      /\ mstatus'.mpp = priv
  BY DEF Trap, GoesTo
<1>2. CASE priv = "U" /\ pc.code = "target"
  <2>1. pc = Target(expected.word) /\ x = expected.x
    BY <1>2 DEF TypeOK, Places, InTarget, Target
  <2> QED
    BY <1>1, <1>2, <2>1 DEF Returns, Live
<1>3. CASE priv = "M" /\ pc = Monitor("enter") /\ c = "irq"
  BY <1>1, <1>3 DEF Returns, Live
<1> QED
  BY <1>2, <1>3

(* enter_user sets mepc before mstatus and mstatus before sp.              *)
LEMMA BootStep ==
  ASSUME TypeOK, gap = {}, Undisturbed, Boot
  PROVE  Undisturbed'
<1> USE DEF Undisturbed, Booting, InTarget, SavingTarget, ResumingTarget
<1>a. \A c : Monitor(c).code = c /\ Monitor(c).word = 0
  BY DEF Monitor
<1>c. BootCode = {"main", "enter", "enter_mstatus", "enter_sp", "enter_mret"}
  BY DEF BootCode
<1>1. CASE EnableInterrupts
  BY <1>1, <1>a, <1>c DEF EnableInterrupts, GoesTo
<1>2. CASE EnterEpc
  BY <1>2, <1>a, <1>c DEF EnterEpc, GoesTo
<1>3. CASE EnterMstatus
  <2>1. mstatus'.mpp = "U"
    BY <1>3 DEF EnterMstatus, TypeOK, Status
  <2>2. mepc' = Target(0)
    BY <1>3, <1>a DEF EnterMstatus
  <2> QED
    BY <1>3, <2>1, <2>2, <1>a, <1>c DEF EnterMstatus, GoesTo
<1>4. CASE EnterSp
  <2>1. mepc' = Target(0) /\ mstatus'.mpp = "U"
    BY <1>4, <1>a DEF EnterSp, csrs
  <2> QED
    BY <1>4, <2>1, <1>a, <1>c DEF EnterSp, GoesTo, csrs
<1>5. CASE EnterMret
  <2>1. mepc = Target(0) /\ mstatus.mpp = "U"
    BY <1>5, <1>a DEF EnterMret
  <2>2. /\ pc'.code = "target" /\ pc'.word = expected'.word /\ priv' = "U"
        /\ x' = expected'.x
    BY <1>5, <2>1 DEF EnterMret, Mret, Target
  <2> QED
    BY <2>2, <1>a, <1>c
<1> QED
  BY <1>1, <1>2, <1>3, <1>4, <1>5 DEF Boot

(* trap_entry, with the context in t0, moves the registers to the frame.   *)
LEMMA EntryStep ==
  ASSUME TypeOK, ContextHeld, gap = {}, Undisturbed, Entry, gap' = {}
  PROVE  Undisturbed'
<1>a. \A c : Monitor(c).code = c
  BY DEF Monitor
<1>r. /\ Regs = {"sp", "t0", "t1", "t6", "a0", "fcsr"}
      /\ x \in [Regs -> Contents] /\ frame.x \in [Regs -> Contents]
  BY DEF Regs, TypeOK
<1>1. CASE TrapEntry
  <2>1. pc.code = "trap_entry"
    BY <1>1, <1>a DEF TrapEntry
  <2>2. InCsrs /\ Live(Regs, mstatus)
    BY <2>1 DEF Undisturbed, SavingTarget
  <2>3. InCsrs' /\ Live(Regs \ {"t0"}, mstatus)'
    BY <1>1, <2>2, <1>r DEF TrapEntry, InCsrs, Returns, Live
  <2>4. mstatus'.mpp = "U" => mscratch' = expected'.x["t0"]
    BY <1>1, <2>2, <1>r DEF TrapEntry, Live
  <2>5. pc' = Monitor("save")
    BY <1>1 DEF TrapEntry, GoesTo
  <2> QED
    BY <2>3, <2>4, <2>5, <1>a
    DEF Undisturbed, Booting, InTarget, SavingTarget, ResumingTarget, BootCode
<1>2. ASSUME Save, x["t0"] = Context
      PROVE  Undisturbed'
  <2>1. pc.code = "save"
    BY <1>2, <1>a DEF Save
  <2>2. /\ InCsrs /\ Live(Regs \ {"t0"}, mstatus)
        /\ mstatus.mpp = "U" => mscratch = expected.x["t0"]
    BY <2>1 DEF Undisturbed, SavingTarget
  <2>3. /\ InCsrs' /\ Live(Regs \ {"t0"}, mstatus)'
        /\ mstatus'.mpp = "U" => mscratch' = expected'.x["t0"]
    BY <1>2, <2>2 DEF Save, csrs, InCsrs, Returns, Live
  <2>4. \A r \in Regs \ {"t0", "fcsr"} : frame'.x[r] = x[r]
    BY <1>2, <1>r DEF Save, Saves, TypeOK
  <2>5. Saved(Regs \ {"t0", "fcsr"}, mstatus)'
    BY <1>2, <2>2, <2>4 DEF Save, csrs, Live, Saved
  <2>6. pc' = Monitor("save_t0")
    BY <1>2 DEF Save, GoesTo
  <2> QED
    BY <2>3, <2>5, <2>6, <1>a
    DEF Undisturbed, Booting, InTarget, SavingTarget, ResumingTarget, BootCode
<1>3. ASSUME SaveT0, x["t0"] = Context
      PROVE  Undisturbed'
  <2>1. pc.code = "save_t0"
    BY <1>3, <1>a DEF SaveT0
  <2>2. /\ InCsrs /\ Live(Regs \ {"t0"}, mstatus) /\ Saved(Regs \ {"t0", "fcsr"}, mstatus)
        /\ mstatus.mpp = "U" => mscratch = expected.x["t0"]
    BY <2>1 DEF Undisturbed, SavingTarget
  <2>3. InCsrs' /\ Live({"fcsr"}, mstatus)'
    BY <1>3, <2>2, <1>r DEF SaveT0, csrs, InCsrs, Returns, Live
  <2>4. frame'.x["t0"] = mscratch /\ \A r \in Regs \ {"t0"} : frame'.x[r] = frame.x[r]
    BY <1>3, <1>r DEF SaveT0, TypeOK
  <2>5. Saved(Regs \ {"fcsr"}, mstatus)'
    BY <1>3, <2>2, <2>4 DEF SaveT0, csrs, Saved
  <2>6. pc' = Monitor("save_csr")
    BY <1>3 DEF SaveT0, GoesTo
  <2> QED
    BY <2>3, <2>5, <2>6, <1>a
    DEF Undisturbed, Booting, InTarget, SavingTarget, ResumingTarget, BootCode
<1>4. ASSUME SaveCsrs, x["t0"] = Context
      PROVE  Undisturbed'
  <2>1. pc.code = "save_csr"
    BY <1>4, <1>a DEF SaveCsrs
  <2>2. InCsrs /\ Live({"fcsr"}, mstatus) /\ Saved(Regs \ {"fcsr"}, mstatus)
    BY <2>1 DEF Undisturbed, SavingTarget
  <2>3. /\ frame'.mepc = mepc /\ frame'.mstatus = mstatus /\ frame'.mcause = mcause
        /\ frame'.x["fcsr"] = x["fcsr"] /\ \A r \in Regs \ {"fcsr"} : frame'.x[r] = frame.x[r]
    BY <1>4, <1>r DEF SaveCsrs
  <2>4. InFrame' /\ Saved(Regs, frame.mstatus)'
    BY <1>4, <2>2, <2>3, <1>r DEF SaveCsrs, InCsrs, InFrame, Returns, Live, Saved
  <2>5. pc' = Monitor("call")
    BY <1>4 DEF SaveCsrs, GoesTo
  <2> QED
    BY <2>4, <2>5, <1>a
    DEF Undisturbed, Booting, InTarget, SavingTarget, ResumingTarget, BootCode
<1>5. CASE CallRustTrap
  <2>1. pc.code = "call"
    BY <1>5, <1>a DEF CallRustTrap
  <2>2. InFrame /\ Saved(Regs, frame.mstatus)
    BY <2>1 DEF Undisturbed, ResumingTarget
  <2>3. InFrame' /\ Saved(Regs, frame.mstatus)'
    BY <1>5, <2>2 DEF CallRustTrap, InFrame, Returns, Saved
  <2>4. pc' = Monitor("handler")
    BY <1>5 DEF CallRustTrap, GoesTo
  <2> QED
    BY <2>3, <2>4, <1>a
    DEF Undisturbed, Booting, InTarget, SavingTarget, ResumingTarget, BootCode
<1>6. Save \/ SaveT0 \/ SaveCsrs => x["t0"] = Context
  BY <1>a DEF Save, SaveT0, SaveCsrs, ContextHeld
<1>7. ~PushFaults
  BY DEF PushFaults
<1> QED
  BY <1>1, <1>2, <1>3, <1>4, <1>5, <1>6, <1>7 DEF Entry

(* rust_trap changes the frame and what the target expects in one move.    *)
LEMMA HandlerStep ==
  ASSUME TypeOK, gap = {}, Undisturbed, Handler
  PROVE  Undisturbed'
<1>a. \A c : Monitor(c).code = c
  BY DEF Monitor
<1>r. /\ Regs = {"sp", "t0", "t1", "t6", "a0", "fcsr"}
      /\ frame.x \in [Regs -> Contents] /\ expected.x \in [Regs -> Contents]
  BY DEF Regs, TypeOK
<1>1. pc = Monitor("handler")
  BY DEF Handler, HandleInterrupt, ExitCall, HandleCall, SetRegister, ResumeAt, RunTargetAt,
         InHandler
<1>2. pc.code = "handler" /\ InFrame /\ Saved(Regs, frame.mstatus)
  BY <1>1, <1>a DEF Undisturbed, ResumingTarget
<1>3. frame.mcause # "irq" => frame.mstatus.mpp = "U" /\ frame.mepc = Target(expected.word)
                              /\ \A r \in Regs : frame.x[r] = expected.x[r]
  BY <1>2 DEF InFrame, Returns, Saved
<1>w. mepc \in Places /\ frame.mepc \in Places
  BY DEF TypeOK
<1>4. CASE HandleInterrupt
  <2>1. /\ UNCHANGED <<frame, expected>> /\ pc' = Monitor("restore")
    BY <1>4 DEF HandleInterrupt, Resumes, GoesTo
  <2>2. InFrame' /\ Saved(Regs, frame.mstatus)'
    BY <2>1, <1>2 DEF InFrame, Returns, Saved
  <2> QED
    BY <2>1, <2>2, <1>a
    DEF Undisturbed, Booting, InTarget, SavingTarget, ResumingTarget, BootCode
<1>5. ASSUME frame'.mstatus = frame.mstatus, frame.mcause # "irq",
             frame'.mepc = Target(expected'.word),
             \A r \in Regs : frame'.x[r] = expected'.x[r],
             pc' = Monitor("handler") \/ pc' = Monitor("restore")
      PROVE  Undisturbed'
  <2>1. InFrame' /\ Saved(Regs, frame.mstatus)'
    BY <1>3, <1>5 DEF InFrame, Returns, Saved
  <2> QED
    BY <2>1, <1>5, <1>a
    DEF Undisturbed, Booting, InTarget, SavingTarget, ResumingTarget, BootCode
<1>6. CASE ExitCall
  <2>1. /\ frame'.mstatus = frame.mstatus /\ frame'.mepc = frame.mepc /\ frame'.x = frame.x
        /\ expected' = expected /\ pc' = pc /\ frame.mcause # "irq"
    BY <1>6 DEF ExitCall, InHandler, TypeOK
  <2> QED
    BY <2>1, <1>1, <1>3, <1>5
<1>7. ASSUME NEW v \in Values \cup {frame.x["a0"]}, HandleCall(v)
      PROVE  Undisturbed'
  <2>1. /\ frame'.mstatus = frame.mstatus /\ frame'.mepc = Target(frame.mepc.word + 1)
        /\ frame'.x = [frame.x EXCEPT !["a0"] = v] /\ frame.mcause # "irq"
    BY <1>7 DEF HandleCall, InHandler, TypeOK
  <2>2. /\ expected'.x = [expected.x EXCEPT !["a0"] = v] /\ expected'.word = expected.word + 1
        /\ pc' = Monitor("restore")
    BY <1>7 DEF HandleCall, Resumes, GoesTo
  <2>3. frame.mepc.word = expected.word
    BY <2>1, <1>3 DEF Target
  <2>4. \A r \in Regs : frame'.x[r] = expected'.x[r]
    BY <2>1, <2>2, <1>3, <1>r
  <2> QED
    BY <2>1, <2>2, <2>3, <2>4, <1>5
<1>8. ASSUME NEW r \in Regs, NEW v \in Values, SetRegister(r, v)
      PROVE  Undisturbed'
  <2>1. /\ frame'.mstatus = frame.mstatus /\ frame'.mepc = frame.mepc
        /\ frame'.x = [frame.x EXCEPT ![r] = v] /\ frame.mcause # "irq"
    BY <1>8 DEF SetRegister, InHandler, TypeOK
  <2>2. /\ expected'.x = [expected.x EXCEPT ![r] = v] /\ expected'.word = expected.word
        /\ pc' = pc
    BY <1>8 DEF SetRegister, TypeOK
  <2>3. \A q \in Regs : frame'.x[q] = expected'.x[q]
    BY <2>1, <2>2, <1>3, <1>r
  <2> QED
    BY <2>1, <2>2, <2>3, <1>1, <1>3, <1>5
<1>9. ASSUME NEW w \in Words, ResumeAt(w)
      PROVE  Undisturbed'
  <2>1. /\ frame'.mstatus = frame.mstatus /\ frame'.mepc = Target(w)
        /\ frame'.x = frame.x /\ frame.mcause # "irq"
    BY <1>9 DEF ResumeAt, InHandler, TypeOK
  <2>2. expected'.x = expected.x /\ expected'.word = w /\ pc' = Monitor("restore")
    BY <1>9 DEF ResumeAt, Resumes, GoesTo, TypeOK
  <2> QED
    BY <2>1, <2>2, <1>3, <1>5
<1>10. ASSUME NEW v \in Values, NEW w \in Words, RunTargetAt(v, w)
       PROVE  Undisturbed'
  <2>1. /\ frame'.mstatus = frame.mstatus /\ frame'.mepc = Target(w)
        /\ frame'.x = expected'.x /\ frame.mcause # "irq"
    BY <1>10 DEF RunTargetAt, InHandler, TypeOK
  <2>2. expected'.word = w /\ pc' = Monitor("restore")
    BY <1>10 DEF RunTargetAt, Resumes, GoesTo
  <2> QED
    BY <2>1, <2>2, <1>5
<1> QED
  BY <1>4, <1>6, <1>7, <1>8, <1>9, <1>10 DEF Handler

(* resume_user brings the frame back, its own scratch registers last.      *)
LEMMA ResumeStep ==
  ASSUME TypeOK, Sealed, ContextHeld, gap = {}, Undisturbed, Resume
  PROVE  Undisturbed'
<1>a. \A c : Monitor(c).code = c /\ Monitor(c).word = 0
  BY DEF Monitor
<1>r. /\ Regs = {"sp", "t0", "t1", "t6", "a0", "fcsr"}
      /\ x \in [Regs -> Contents] /\ frame.x \in [Regs -> Contents]
  BY DEF Regs, TypeOK
<1>1. CASE Restore
  <2>1. pc.code = "restore"
    BY <1>1, <1>a DEF Restore
  <2>2. InFrame /\ Saved(Regs, frame.mstatus)
    BY <2>1 DEF Undisturbed, ResumingTarget
  <2>3. \A r \in Regs \ {"t6", "fcsr"} : x'[r] = frame.x[r]
    BY <1>1, <1>r DEF Restore
  <2>4. /\ InFrame' /\ Saved(Regs, frame.mstatus)'
        /\ Live(Regs \ {"t6", "fcsr"}, frame.mstatus)'
    BY <1>1, <2>2, <2>3 DEF Restore, InFrame, Returns, Saved, Live
  <2>5. pc' = Monitor("restore_csr")
    BY <1>1 DEF Restore, GoesTo
  <2> QED
    BY <2>4, <2>5, <1>a
    DEF Undisturbed, Booting, InTarget, SavingTarget, ResumingTarget, BootCode
<1>2. CASE RestoreCsrs
  <2>1. pc.code = "restore_csr"
    BY <1>2, <1>a DEF RestoreCsrs
  <2>2. /\ InFrame /\ Saved(Regs, frame.mstatus)
        /\ Live(Regs \ {"t6", "fcsr"}, frame.mstatus)
    BY <2>1 DEF Undisturbed, ResumingTarget
  <2>3. x'["fcsr"] = frame.x["fcsr"] /\ \A r \in Regs \ {"fcsr", "t0"} : x'[r] = x[r]
    BY <1>2, <1>r DEF RestoreCsrs
  <2>4. /\ InFrame' /\ Saved(Regs, frame.mstatus)'
        /\ Live(Regs \ {"t6", "t0"}, frame.mstatus)'
    BY <1>2, <2>2, <2>3, <1>r DEF RestoreCsrs, InFrame, Returns, Saved, Live
  <2>5. pc' = Monitor("restore_t0") /\ mepc' = frame'.mepc /\ mstatus' = frame'.mstatus
    BY <1>2 DEF RestoreCsrs, GoesTo
  <2> QED
    BY <2>4, <2>5, <1>a
    DEF Undisturbed, Booting, InTarget, SavingTarget, ResumingTarget, BootCode
<1>3. CASE RestoreT0
  <2>1. pc.code = "restore_t0"
    BY <1>3, <1>a DEF RestoreT0
  <2>2. /\ InFrame /\ Saved(Regs, frame.mstatus)
        /\ Live(Regs \ {"t6", "t0"}, frame.mstatus)
        /\ mepc = frame.mepc /\ mstatus = frame.mstatus
    BY <2>1 DEF Undisturbed, ResumingTarget
  <2>3. /\ x'["t0"] = frame.x["t0"] /\ x'["t6"] = frame.x["t6"]
        /\ \A r \in Regs \ {"t6", "t0"} : x'[r] = x[r]
    BY <1>3, <1>r DEF RestoreT0
  <2>4. Live(Regs, mstatus)'
    BY <1>3, <2>2, <2>3, <1>r DEF RestoreT0, Saved, Live
  <2>5. Returns(mepc, mstatus, frame.mcause)'
    BY <1>3, <2>2 DEF RestoreT0, InFrame, Returns
  <2>6. pc' = Monitor("restore_mret")
    BY <1>3 DEF RestoreT0, GoesTo
  <2> QED
    BY <2>4, <2>5, <2>6, <1>a
    DEF Undisturbed, Booting, InTarget, SavingTarget, ResumingTarget, BootCode
<1>4. CASE ResumeMret
  <2>1. pc.code = "restore_mret"
    BY <1>4, <1>a DEF ResumeMret
  <2>2. Returns(mepc, mstatus, frame.mcause) /\ Live(Regs, mstatus)
    BY <2>1 DEF Undisturbed, ResumingTarget
  <2>3. UNCHANGED <<x, expected>> /\ pc' = mepc /\ priv' = mstatus.mpp
    BY <1>4 DEF ResumeMret, Mret
  <2>4. CASE mstatus.mpp = "U" /\ mepc = Target(expected.word)
    <3>1. \A r \in Regs : x[r] = expected.x[r]
      BY <2>2, <2>4 DEF Live
    <3>2. x = expected.x
      BY <3>1 DEF TypeOK
    <3>3. pc'.code = "target" /\ pc'.word = expected'.word /\ priv' = "U" /\ x' = expected'.x
      BY <2>3, <2>4, <3>2 DEF Target
    <3> QED
      BY <3>3, <1>a
      DEF Undisturbed, Booting, InTarget, SavingTarget, ResumingTarget, BootCode
  <2>5. CASE mstatus.mpp = "M" /\ mepc = Monitor("enter")
    <3>1. pc' = Monitor("enter") /\ priv' = "M"
      BY <2>3, <2>5
    <3> QED
      BY <3>1, <1>a
      DEF Undisturbed, Booting, InTarget, SavingTarget, ResumingTarget, BootCode
  <2> QED
    BY <2>2, <2>4, <2>5 DEF Returns
<1> QED
  BY <1>1, <1>2, <1>3, <1>4 DEF Resume

(* An instruction moves the target and what is expected of it together; a  *)
(* trap of the target, or an interrupt, begins a passage.                  *)
LEMMA TargetStep ==
  ASSUME TypeOK, Sealed, gap = {}, Undisturbed, TargetRuns \/ Interrupt, gap' = {}
  PROVE  Undisturbed'
<1>a. \A c : Monitor(c).code = c
  BY DEF Monitor
<1>p. /\ pc.code \in BootCode \cup TrapCode \cup {"target"}
      /\ pc.code \in BootCode => pc = Monitor(pc.code) /\ priv = "M"
      /\ pc.code = "target" => priv = "U"
  BY DEF TypeOK, Places, Undisturbed, Booting, InTarget, Monitor
<1>1. ASSUME NEW r \in Regs, NEW v \in Values, NEW w \in Words, Instruction(r, v, w)
      PROVE  Undisturbed'
  <2>1. priv' = "U" /\ pc'.code = "target" /\ pc'.word = expected'.word
    BY <1>1 DEF Instruction, Target
  <2>2. x' = expected'.x
    BY <1>1 DEF Instruction, Undisturbed, InTarget
  <2> QED
    BY <2>1, <2>2 DEF Undisturbed, Booting, InTarget, SavingTarget, ResumingTarget, BootCode,
                      Monitor
<1>2. ASSUME NEW c, Trap(c), UNCHANGED <<x, expected>>,
             \/ priv = "U" /\ pc.code = "target"
             \/ priv = "M" /\ pc = Monitor("enter") /\ c = "irq"
      PROVE  Undisturbed'
  <2>1. /\ pc' = Monitor("trap_entry")
        /\ InCsrs' /\ Live(Regs, mstatus)'
    BY <1>2, TrapBeginsPassage DEF Undisturbed, InCsrs
  <2> QED
    BY <2>1, <1>a
    DEF Undisturbed, Booting, InTarget, SavingTarget, ResumingTarget, BootCode
<1>3. ASSUME NEW c \in {"ecall", "break", "illegal"}, TargetTraps(c)
      PROVE  Undisturbed'
  BY <1>2, <1>3 DEF TargetTraps
<1>4. CASE MonitorTextInUserMode
  <2>1. FALSE
    BY <1>4, <1>p DEF MonitorTextInUserMode, Sealed
  <2> QED
    BY <2>1
<1>5. CASE Interrupt
  <2>1. CASE priv = "U"
    <3>1. pc.code = "target"
      BY <2>1, <1>p DEF Sealed
    <3> QED
      BY <1>2, <1>5, <2>1, <3>1 DEF Interrupt
  <2>2. CASE priv # "U"
    <3>1. mstatus.mie /\ meie /\ priv = "M"
      BY <1>5, <2>2 DEF Interrupt, TypeOK
    <3>2. pc.code \in BootCode /\ pc.code # "main"
      BY <3>1, <2>2, <1>p DEF Sealed, Undisturbed, Booting
    <3>3. pc.code \notin {"enter_mstatus", "enter_sp", "enter_mret"}
      BY <1>5, <3>1 DEF Interrupt
    <3>4. pc = Monitor("enter")
      BY <3>2, <3>3, <1>p DEF BootCode
    <3> QED
      BY <1>2, <1>5, <3>1, <3>4 DEF Interrupt
  <2> QED
    BY <2>1, <2>2
<1> QED
  BY <1>1, <1>3, <1>4, <1>5 DEF TargetRuns

LEMMA UndisturbedStep ==
  ASSUME TypeOK, Sealed, ContextHeld, Undisturbed, [Next]_vars
  PROVE  Undisturbed'
<1>1. SUFFICES ASSUME gap' = {}
               PROVE  Undisturbed'
  BY DEF Undisturbed
<1>2. CASE Next
  <2>1. gap = {}
    BY <1>1, <1>2
    DEF Next, Boot, EnableInterrupts, EnterEpc, EnterMstatus, EnterSp, EnterMret,
        TargetRuns, Instruction, TargetTraps, MonitorTextInUserMode, Interrupt,
        Entry, TrapEntry, Save, SaveT0, SaveCsrs, CallRustTrap, PushFaults,
        Handler, HandleInterrupt, ExitCall, HandleCall, SetRegister, ResumeAt, RunTargetAt,
        Resumes, Resume, Restore, RestoreCsrs, RestoreT0, ResumeMret
  <2> QED
    BY <1>1, <1>2, <2>1, BootStep, EntryStep, HandlerStep, ResumeStep, TargetStep DEF Next
<1>3. CASE UNCHANGED vars
  BY <1>3 DEF vars, csrs, Undisturbed, Booting, InTarget, SavingTarget, ResumingTarget,
              InCsrs, InFrame, Returns, Live, Saved
<1> QED
  BY <1>2, <1>3

-----------------------------------------------------------------------------
LEMMA InvInit == Init => Inv
<1> SUFFICES ASSUME Init
             PROVE  Inv
  OBVIOUS
<1>1. /\ Junk \in Contents /\ Private \in Contents /\ Context \in Contents
      /\ "main" \in BootCode
  BY ValueAssumption DEF Contents, BootCode
<1>2. Monitor("main") \in Places /\ Target(0) \in Places
  BY <1>1, PlacesAreTyped
<1>3. x \in [Regs -> Contents]
  BY <1>1 DEF Init
<1>4. mstatus \in Status /\ "none" \in Causes
  BY DEF Init, Status, Causes
<1>5. TypeOK
  BY <1>1, <1>2, <1>3, <1>4, PlacesAreTyped DEF Init, TypeOK
<1>6. Sealed /\ ContextHeld /\ Undisturbed
  BY DEF Init, Sealed, ContextHeld, Undisturbed, Booting, InTarget, SavingTarget,
         ResumingTarget, BootCode, TrapCode, Monitor, Target
<1> QED
  BY <1>5, <1>6 DEF Inv

LEMMA InvStep == Inv /\ [Next]_vars => Inv'
  BY TypeStep, SealedStep, HeldStep, UndisturbedStep DEF Inv

(* The inductive invariant of the trap path holds.                         *)
THEOREM Invariance == Spec => []Inv
  BY InvInit, InvStep, PTL DEF Spec

(* Every register, CSR and slot of the context keeps its type.             *)
THEOREM TypeCorrect == Spec => []TypeOK
<1>1. Inv => TypeOK
  BY DEF Inv
<1> QED
  BY <1>1, Invariance, PTL

(* A stopped target is resumed at its word with all its registers, scratch *)
(* registers of trap_entry and resume_user included, as the service or the *)
(* command that resumed it left them.                                      *)
THEOREM TargetIsUndisturbed == Spec => []TargetUndisturbed
<1>1. Inv => TargetUndisturbed
  <2> SUFFICES ASSUME Inv, gap = {}, priv = "U"
               PROVE  pc = Target(expected.word) /\ x = expected.x
    BY DEF TargetUndisturbed
  <2>1. pc.code = "target"
    BY DEF Inv, TypeOK, Places, Sealed, Undisturbed, Booting
  <2> QED
    BY <2>1 DEF Inv, TypeOK, Places, Undisturbed, InTarget, Target
<1> QED
  BY <1>1, Invariance, PTL

(* trap_entry saves into the context unless a push on the target's stack   *)
(* has faulted.                                                            *)
THEOREM ContextIsAlwaysFound == Spec => []ContextIsFound
<1>1. Inv => ContextIsFound
  <2> SUFFICES ASSUME Inv, "push" \notin gap
               PROVE  /\ priv = "U" \/ pc.code \in BootCode => mscratch = Context
                      /\ SavesInContext
    BY DEF ContextIsFound
  <2>1. priv = "U" => pc.code \in BootCode \cup {"target"}
    BY DEF Inv, TypeOK, Places, Sealed
  <2> QED
    BY <2>1 DEF Inv, ContextHeld, SavesInContext
<1> QED
  BY <1>1, Invariance, PTL

(* No interrupt nests inside the path, whatever gap was taken.             *)
THEOREM PathIsNotNested == Spec => []NotNested
<1>1. Inv => NotNested
  BY DEF Inv, Sealed, NotNested
<1> QED
  BY <1>1, Invariance, PTL
=============================================================================
