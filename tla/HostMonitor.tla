------------------------------ MODULE HostMonitor ------------------------------
(***************************************************************************)
(* The host monitor (crates/monitor, `Monitor`): a debugger that owns its  *)
(* simulated machine.  A command is executed to its end before the next is *)
(* read; a command that runs the target takes one action per turn of its   *)
(* loop.  What only draws the screen (views, marks, the register baseline, *)
(* the last diagnostic) is left out.                                       *)
(***************************************************************************)
EXTENDS HostTarget, FiniteSets

CONSTANTS Programs,        \* name -> [words, start]: what assembles, and the offset of _start
          Lines,           \* one-line sources: name -> words
          MaxRunSteps,     \* max_run_steps (1000)
          MaxHistory,      \* MAX_HISTORY_ENTRIES (4096)
          MaxUndo          \* MAX_UNDO_ENTRIES (64)

ASSUME MonitorAssumption == MaxRunSteps \in Nat /\ MaxHistory \in Nat \ {0} /\ MaxUndo \in Nat \ {0}

VARIABLES machine, source, symbols, undo, breaks, conditions, watches, ids,
          history, frames, task, said, disk

vars == <<machine, source, symbols, undo, breaks, conditions, watches, ids,
          history, frames, task, said, disk>>

tables == <<breaks, conditions, watches, ids>>
memory == <<source, symbols, undo>>
trail  == <<history, frames>>

EmptyFunction == [a \in {} |-> a]
Without(f, a) == [b \in DOMAIN f \ {a} |-> f[b]]
Adding(f, a, v) == [b \in DOMAIN f \cup {a} |-> IF b = a THEN v ELSE f[b]]
Idle    == [kind |-> "idle"]
NoFile  == [kind |-> "missing"]
Ready   == task = Idle
Answer(word) == said' = word /\ task' = Idle
Refuse  == Answer("error") /\ UNCHANGED <<machine, memory, tables, trail, disk>>

Init == /\ machine = NewMachine
        /\ source = "none" /\ symbols = "none"
        /\ undo = <<>> /\ history = <<>> /\ frames = <<>>
        /\ breaks = EmptyFunction /\ conditions = EmptyFunction /\ watches = EmptyFunction
        /\ ids = [break |-> 1, watch |-> 1]
        /\ task = Idle /\ said = "none"      \* disk: whatever earlier runs have left

-----------------------------------------------------------------------------
(* Loading programs *)

\* assemble: one line, loaded at pc.  The source text changes first; the load
\* stops at the end of memory with what fits already stored.
Assemble(line) ==
  /\ source' = line
  /\ IF line \notin DOMAIN Lines
     THEN Answer("error") /\ UNCHANGED machine
     ELSE /\ machine' = [machine EXCEPT !.mem = Load(@, machine.pc, Lines[line])]
          /\ Answer(IF Fits(machine.pc, Lines[line]) THEN "ok" ELSE "error")
  /\ UNCHANGED <<symbols, undo, tables, trail, disk>>

\* assemble-program: a fresh machine, the text loaded at `entry`, which is the
\* offset of _start in the text.  If the text does not fit the command ends
\* there, with the fresh machine and the tables of the old one.
AssembleProgram(name) ==
  /\ source' = name
  /\ IF name \notin DOMAIN Programs
     THEN Answer("error") /\ UNCHANGED <<machine, symbols, undo, tables, trail>>
     ELSE LET p == Programs[name]
              loaded == [NewMachine EXCEPT !.mem = Load(@, p.start, p.words)] IN
          IF ~Fits(p.start, p.words)
          THEN Answer("error") /\ machine' = loaded /\ UNCHANGED <<symbols, undo, tables, trail>>
          ELSE /\ machine' = [loaded EXCEPT !.pc = p.start]
               /\ symbols' = name
               /\ undo' = <<>> /\ history' = <<>> /\ frames' = <<>>
               /\ breaks' = EmptyFunction /\ conditions' = EmptyFunction /\ watches' = EmptyFunction
               /\ UNCHANGED ids
               /\ Answer("ok")
  /\ UNCHANGED disk

\* Mutant: reset forgets the frames.
ResetKeepsFrames ==
  /\ machine' = NewMachine
  /\ source' = "none" /\ symbols' = "none"
  /\ undo' = <<>> /\ history' = <<>>
  /\ breaks' = EmptyFunction /\ conditions' = EmptyFunction /\ watches' = EmptyFunction
  /\ Answer("ok")
  /\ UNCHANGED <<frames, ids, disk>>

\* reset: everything but the numbers of the next breakpoint and watchpoint.
Reset ==
  /\ machine' = NewMachine
  /\ source' = "none" /\ symbols' = "none"
  /\ undo' = <<>> /\ history' = <<>> /\ frames' = <<>>
  /\ breaks' = EmptyFunction /\ conditions' = EmptyFunction /\ watches' = EmptyFunction
  /\ Answer("ok")
  /\ UNCHANGED <<ids, disk>>

-----------------------------------------------------------------------------
(* Memory, registers, breakpoints, watchpoints *)

PushUndo(entry) == Append(IF Len(undo) = MaxUndo THEN Tail(undo) ELSE undo, entry)

\* edit, fill and copy write a range that must lie in memory and remember what was there.
WriteRange(at, words) ==
  IF InRange(at, Len(words))
  THEN /\ machine' = [machine EXCEPT !.mem = Load(@, at, words)]
       /\ undo' = PushUndo([address |-> at, previous |-> Image(machine.mem, at, Len(words))])
       /\ Answer("ok")
       /\ UNCHANGED <<source, symbols, tables, trail, disk>>
  ELSE Refuse

EditMemory(at, word) == WriteRange(at, <<word>>)
FillMemory(at, n, word) == IF n = 0 THEN Refuse ELSE WriteRange(at, [k \in 1 .. n |-> word])
CopyMemory(from, at, n) ==
  IF n = 0 \/ ~InRange(from, n) THEN Refuse ELSE WriteRange(at, Image(machine.mem, from, n))

\* undo: the entry is dropped once its bytes are back.
UndoMemory ==
  IF undo = <<>> THEN Refuse
  ELSE LET last == undo[Len(undo)] IN
       IF ~InRange(last.address, Len(last.previous)) THEN Refuse
       ELSE /\ machine' = [machine EXCEPT !.mem = Load(@, last.address, last.previous)]
            /\ undo' = SubSeq(undo, 1, Len(undo) - 1)
            /\ Answer("ok")
            /\ UNCHANGED <<source, symbols, tables, trail, disk>>

SetRegister(r, value) ==
  IF r = "zero" THEN Refuse
  ELSE /\ machine' = [machine EXCEPT !.x[r] = value]
       /\ Answer("ok")
       /\ UNCHANGED <<memory, tables, trail, disk>>

\* break: an address that has one keeps it.  A condition is "always", a
\* register (does it differ from zero?), "unknown" (a name that does not
\* resolve when it is evaluated) or "malformed" (it does not parse).
AddBreakpoint(at, condition) ==
  IF at \in DOMAIN breaks
  THEN Answer("ok") /\ UNCHANGED <<machine, memory, tables, trail, disk>>
  ELSE IF condition = "malformed" THEN Refuse
  ELSE /\ breaks' = Adding(breaks, at, ids.break)
       /\ conditions' = IF condition = "always" THEN conditions ELSE Adding(conditions, at, condition)
       /\ ids' = [ids EXCEPT !.break = @ + 1]
       /\ Answer("ok")
       /\ UNCHANGED <<machine, memory, watches, trail, disk>>

AddWatchpoint(at, kind) ==
  /\ watches' = Adding(watches, ids.watch, [address |-> at, kind |-> kind])
  /\ ids' = [ids EXCEPT !.watch = @ + 1]
  /\ Answer("ok")
  /\ UNCHANGED <<machine, memory, breaks, conditions, trail, disk>>

DeleteBreakpoint(id) ==
  IF \A at \in DOMAIN breaks : breaks[at] # id THEN Refuse
  ELSE LET at == CHOOSE a \in DOMAIN breaks : breaks[a] = id IN
       /\ breaks' = Without(breaks, at)
       /\ conditions' = Without(conditions, at)
       /\ Answer("ok")
       /\ UNCHANGED <<machine, memory, watches, ids, trail, disk>>

DeleteWatchpoint(id) ==
  IF id \notin DOMAIN watches THEN Refuse
  ELSE /\ watches' = Without(watches, id)
       /\ Answer("ok")
       /\ UNCHANGED <<machine, memory, breaks, conditions, ids, trail, disk>>

-----------------------------------------------------------------------------
(* Files *)

\* snapshot_bytes: machine and debugger tables, not the source, the history or the undo list.
SnapshotBytes == [kind |-> "snapshot", machine |-> machine, symbols |-> symbols, breaks |-> breaks,
                  conditions |-> conditions, watches |-> watches, ids |-> ids, frames |-> frames]

SaveSnapshot ==
  /\ disk' = [disk EXCEPT !.snapshot = SnapshotBytes]
  /\ Answer("ok") /\ UNCHANGED <<machine, memory, tables, trail>>

SaveProject ==
  /\ disk' = [disk EXCEPT !.project = [kind |-> "project", source |-> source,
                                       snapshot |-> SnapshotBytes]]
  /\ Answer("ok") /\ UNCHANGED <<machine, memory, tables, trail>>

\* Mutants: the history survives a restore; the next numbers are not restored.
ApplyKeepsHistory(file) ==
  /\ machine' = file.machine /\ symbols' = file.symbols
  /\ breaks' = file.breaks /\ conditions' = file.conditions /\ watches' = file.watches
  /\ ids' = file.ids /\ frames' = file.frames
  /\ undo' = <<>> /\ UNCHANGED history

ApplyKeepsIds(file) ==
  /\ machine' = file.machine /\ symbols' = file.symbols
  /\ breaks' = file.breaks /\ conditions' = file.conditions /\ watches' = file.watches
  /\ frames' = file.frames
  /\ undo' = <<>> /\ history' = <<>> /\ UNCHANGED ids

\* apply_snapshot
ApplySnapshot(file) ==
  /\ machine' = file.machine /\ symbols' = file.symbols
  /\ breaks' = file.breaks /\ conditions' = file.conditions /\ watches' = file.watches
  /\ ids' = file.ids /\ frames' = file.frames
  /\ undo' = <<>> /\ history' = <<>>

RestoreSnapshot ==
  IF disk.snapshot = NoFile THEN Refuse
  ELSE ApplySnapshot(disk.snapshot) /\ Answer("ok") /\ UNCHANGED <<source, disk>>

LoadProject ==
  IF disk.project = NoFile THEN Refuse
  ELSE /\ ApplySnapshot(disk.project.snapshot)
       /\ source' = disk.project.source
       /\ Answer("ok") /\ UNCHANGED disk

-----------------------------------------------------------------------------
(* Execution *)

\* breakpoint_condition_holds; "unknown" is the error of the evaluation.
Condition(at) == IF at \notin DOMAIN conditions THEN "holds"
                 ELSE IF conditions[at] = "unknown" THEN "error"
                 ELSE IF machine.x[conditions[at]] # 0 THEN "holds" ELSE "fails"

\* watchpoint_hit
WatchHit(access) ==
  access # NoAccess /\ \E id \in DOMAIN watches :
    /\ watches[id].address = access.address
    /\ watches[id].kind \in {"access", access.kind}

\* record_retired: the bounded history, and the frames inferred from jal ra and jalr x0,0(ra).
RecordRetired(after) ==
  LET i == machine.mem[machine.pc] IN
  /\ history' = Append(IF Len(history) = MaxHistory THEN Tail(history) ELSE history,
                       [sequence |-> after.count, before |-> machine.pc, after |-> after.pc])
  /\ frames' = IF i.op = "jal" /\ i.rd = "ra"
               THEN Append(frames, [return_pc |-> machine.pc + 1, target |-> machine.pc + i.imm])
               ELSE IF i.op = "jalr" /\ i.rd = "zero" /\ i.rs1 = "ra" /\ frames # <<>>
               THEN SubSeq(frames, 1, Len(frames) - 1)
               ELSE frames

Retire == /\ machine' = Step(machine).m
          /\ RecordRetired(Step(machine).m)
          /\ UNCHANGED <<memory, tables, disk>>

\* step: neither breakpoints nor watchpoints are looked at.
StepOnce == IF Step(machine).ok THEN Retire /\ Answer("ok") ELSE Refuse

Start(t) == /\ task' = t /\ said' = "running"
            /\ UNCHANGED <<machine, memory, tables, trail, disk>>

\* run_until_pc remembers where it goes and the count it started from.  The
\* model's own notes: `began`, the count when the command started, and `depth`,
\* how deep the calls were.
RunUntil(op, target) ==
  Start([kind |-> "until", op |-> op, target |-> target, from |-> machine.count,
         left |-> MaxRunSteps, began |-> machine.count, depth |-> Len(machine.live)])

StepOver == IF machine.pc \notin Addresses THEN Refuse
            ELSE IF ~IsCall(machine.mem[machine.pc]) THEN StepOnce
            ELSE RunUntil("step-over", machine.pc + 1)

\* Mutant: step-out takes the entry of the call for its return address.
StepOutToEntry == IF frames = <<>> THEN Refuse
                  ELSE RunUntil("step-out", frames[Len(frames)].target)

StepOut == IF frames = <<>> THEN Refuse
           ELSE RunUntil("step-out", frames[Len(frames)].return_pc)

Run(limit)      == Start([kind |-> "run", op |-> "run", left |-> limit, began |-> machine.count,
                          bypass |-> FALSE])
Continue(limit) == Start([kind |-> "run", op |-> "continue", left |-> limit, began |-> machine.count,
                          bypass |-> machine.pc \in DOMAIN breaks])
StepState(n)    == IF n = 0 THEN Refuse ELSE Start([kind |-> "stepidp", op |-> "stepidp", left |-> n])

\* One turn of the loop of run_with_limit.
Turn(bypass, next) ==
  LET here == IF bypass \/ machine.pc \notin DOMAIN breaks THEN "fails" ELSE Condition(machine.pc) IN
  IF here = "holds"
  THEN Answer("stopped") /\ UNCHANGED <<machine, memory, tables, trail, disk>>
  ELSE IF here = "error" \/ ~Step(machine).ok THEN Refuse
  ELSE /\ Retire
       /\ IF WatchHit(Step(machine).access) THEN Answer("stopped")
          ELSE task' = next /\ UNCHANGED said

Ends(word) == Answer(word) /\ UNCHANGED <<machine, memory, tables, trail, disk>>

\* Mutant: the first breakpoint stays bypassed.
RunTurnBypasses == /\ task.kind = "run"
                   /\ IF task.left = 0 THEN Ends("ran")
                      ELSE Turn(task.bypass, [task EXCEPT !.left = @ - 1])

RunTurn == /\ task.kind = "run"
           /\ IF task.left = 0 THEN Ends("ran")
              ELSE Turn(task.bypass, [task EXCEPT !.left = @ - 1, !.bypass = FALSE])

\* run_until_pc looks for its target before each step, not after the last.
UntilTurn ==
  /\ task.kind = "until"
  /\ IF task.left = 0 THEN Ends("error")
     ELSE IF machine.pc = task.target /\ machine.count # task.from THEN Ends(task.op)
     ELSE Turn(machine.count = task.from /\ machine.pc \in DOMAIN breaks, [task EXCEPT !.left = @ - 1])

StepStateTurn == /\ task.kind = "stepidp"
                 /\ IF task.left = 0 THEN Ends("ok")
                    ELSE IF ~Step(machine).ok THEN Refuse
                    ELSE Retire /\ task' = [task EXCEPT !.left = @ - 1] /\ UNCHANGED said

Turns == RunTurn \/ UntilTurn \/ StepStateTurn

-----------------------------------------------------------------------------
\* Monitor::execute: the command that was typed.
Execute(c) ==
  /\ Ready
  /\ \/ c.name = "assemble"         /\ Assemble(c.line)
     \/ c.name = "assemble-program" /\ AssembleProgram(c.program)
     \/ c.name = "set"              /\ SetRegister(c.register, c.value)
     \/ c.name = "step"             /\ StepOnce
     \/ c.name = "stepidp"          /\ StepState(c.count)
     \/ c.name = "step-over"        /\ StepOver
     \/ c.name = "step-out"         /\ StepOut
     \/ c.name = "run"              /\ Run(c.count)
     \/ c.name = "continue"         /\ Continue(c.count)
     \/ c.name = "edit"             /\ EditMemory(c.at, c.word)
     \/ c.name = "fill"             /\ FillMemory(c.at, c.count, c.word)
     \/ c.name = "copy"             /\ CopyMemory(c.from, c.at, c.count)
     \/ c.name = "undo"             /\ UndoMemory
     \/ c.name = "break"            /\ AddBreakpoint(c.at, c.condition)
     \/ c.name = "watch"            /\ AddWatchpoint(c.at, c.kind)
     \/ c.name = "delete break"     /\ DeleteBreakpoint(c.id)
     \/ c.name = "delete watch"     /\ DeleteWatchpoint(c.id)
     \/ c.name = "snapshot"         /\ SaveSnapshot
     \/ c.name = "restore"          /\ RestoreSnapshot
     \/ c.name = "project-save"     /\ SaveProject
     \/ c.name = "project-load"     /\ LoadProject
     \/ c.name = "reset"            /\ Reset
=============================================================================
