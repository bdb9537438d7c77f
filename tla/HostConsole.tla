------------------------------ MODULE HostConsole ------------------------------
(***************************************************************************)
(* BackendConsole (crates/monitor): the debugger for a target it does not  *)
(* own.  The target is either the simulated machine or, with `remote`, one *)
(* behind a GDB connection (crates/qemu-backend): GdbRemote keeps a copy   *)
(* of the registers, refreshed after each step, answers every step with    *)
(* "stopped", reports no memory access, and fails once the link is lost.   *)
(***************************************************************************)
EXTENDS HostTarget, FiniteSets

CONSTANTS Programs, Lines, MaxRunSteps, MaxHistory, MaxUndo,   \* as in HostMonitor
          TrapVector       \* where a remote target goes when it refuses an instruction

VARIABLES remote, link, cache,
          machine, source, symbols, undo, breaks, watches, ids,
          history, sequence, frames, task, said, disk

target == <<remote, link, cache, machine>>
tables == <<breaks, watches, ids>>
memory == <<source, symbols, undo>>
trail  == <<history, sequence, frames>>
vars   == <<target, source, symbols, undo, breaks, watches, ids, trail, task, said, disk>>

EmptyFunction == [a \in {} |-> a]
Without(f, a) == [b \in DOMAIN f \ {a} |-> f[b]]
Adding(f, a, v) == [b \in DOMAIN f \cup {a} |-> IF b = a THEN v ELSE f[b]]
Idle    == [kind |-> "idle"]
NoFile  == [kind |-> "missing"]
Ready   == task = Idle
Answer(word) == said' = word /\ task' = Idle
Refuse  == Answer("error") /\ UNCHANGED <<target, memory, tables, trail, disk>>

Registers_(m) == [pc |-> m.pc, x |-> m.x]

Init == /\ remote \in BOOLEAN /\ link = "up"
        /\ machine = NewMachine /\ cache = Registers_(NewMachine)
        /\ source = "none" /\ symbols = "none"
        /\ undo = <<>> /\ history = <<>> /\ frames = <<>> /\ sequence = 1
        /\ breaks = EmptyFunction /\ watches = EmptyFunction
        /\ ids = [break |-> 1, watch |-> 1]
        /\ task = Idle /\ said = "none"      \* disk: whatever earlier runs have left

-----------------------------------------------------------------------------
(* The target behind the interface *)

\* TargetBackend::context: the machine's own registers, or the copy kept for the remote one.
Context == IF remote THEN cache ELSE Registers_(machine)

\* A packet that is not answered is an error, and nothing is answered once the link is lost.
Reachable == ~remote \/ link = "up"

CanAccess(at, n) == Reachable /\ InRange(at, n)

\* write_memory of either target.
Write(at, words) == /\ machine' = [machine EXCEPT !.mem = Load(@, at, words)]
                    /\ UNCHANGED <<remote, link, cache>>

\* What "s" does to a remote target: an instruction it refuses is a trap there.
RemoteStep == IF Step(machine).ok THEN Step(machine).m
              ELSE [machine EXCEPT !.pc = TrapVector]

\* GdbRemote::step when the link holds: "s", its stop reply, "g", the new copy.
RemoteStepped == /\ machine' = RemoteStep
                 /\ cache' = Registers_(RemoteStep)
                 /\ UNCHANGED <<remote, link>>

\* The link is lost between commands, or between "s" and "g": then the target
\* has moved, the copy has not and the step is an error.
LinkLost == /\ remote /\ link = "up"
            /\ link' = "down"
            /\ UNCHANGED <<remote, cache, machine, memory, tables, trail, task, said, disk>>

LostInStep == /\ remote /\ link = "up"
              /\ link' = "down"
              /\ machine' = RemoteStep
              /\ Answer("error")
              /\ UNCHANGED <<remote, cache, memory, tables, trail, disk>>

-----------------------------------------------------------------------------
(* Loading programs: written at the pc, which stays where it is. *)

Assemble(line) ==
  /\ source' = line
  /\ IF line \in DOMAIN Lines /\ CanAccess(Context.pc, Len(Lines[line]))
     THEN Write(Context.pc, Lines[line]) /\ Answer("ok")
     ELSE UNCHANGED target /\ Answer("error")
  /\ UNCHANGED <<symbols, undo, tables, trail, disk>>

AssembleProgram(name) ==
  /\ source' = name
  /\ IF name \in DOMAIN Programs /\ CanAccess(Context.pc, Len(Programs[name].words))
     THEN Write(Context.pc, Programs[name].words) /\ symbols' = name /\ Answer("ok")
     ELSE UNCHANGED <<target, symbols>> /\ Answer("error")
  /\ UNCHANGED <<undo, tables, trail, disk>>

-----------------------------------------------------------------------------
(* Memory, breakpoints, watchpoints *)

\* Mutant: only the first word is remembered.
EntryShort(at, n) == [address |-> at, previous |-> Image(machine.mem, at, 1)]

Entry(at, n) == [address |-> at, previous |-> Image(machine.mem, at, n)]

\* edit remembers without a limit; fill and copy drop the oldest entry at exactly the limit.
Edit(at, word) ==
  IF CanAccess(at, 1)
  THEN /\ Write(at, <<word>>)
       /\ undo' = Append(undo, Entry(at, 1))
       /\ Answer("ok")
       /\ UNCHANGED <<source, symbols, tables, trail, disk>>
  ELSE Refuse

PushMemoryUndo(entry) == Append(IF Len(undo) = MaxUndo THEN Tail(undo) ELSE undo, entry)

WriteRange(at, words) ==
  IF CanAccess(at, Len(words))
  THEN /\ Write(at, words)
       /\ undo' = PushMemoryUndo(Entry(at, Len(words)))
       /\ Answer("ok")
       /\ UNCHANGED <<source, symbols, tables, trail, disk>>
  ELSE Refuse

FillMemory(at, n, word) == IF n = 0 THEN Refuse ELSE WriteRange(at, [k \in 1 .. n |-> word])
CopyMemory(from, at, n) ==
  IF n = 0 \/ ~CanAccess(from, n) THEN Refuse ELSE WriteRange(at, Image(machine.mem, from, n))

\* undo_edit takes the entry off before the write, which may fail.
UndoEdit ==
  IF undo = <<>> THEN Refuse
  ELSE LET last == undo[Len(undo)] IN
       /\ undo' = SubSeq(undo, 1, Len(undo) - 1)
       /\ IF CanAccess(last.address, Len(last.previous))
          THEN Write(last.address, last.previous) /\ Answer("ok")
          ELSE UNCHANGED target /\ Answer("error")
       /\ UNCHANGED <<source, symbols, tables, trail, disk>>

\* break: a second one at an address is an error; a condition that does not
\* parse has already used a number.
AddBreakpoint(at, condition) ==
  IF at \in DOMAIN breaks THEN Refuse
  ELSE /\ ids' = [ids EXCEPT !.break = @ + 1]
       /\ IF condition = "malformed"
          THEN Answer("error") /\ UNCHANGED breaks
          ELSE /\ breaks' = Adding(breaks, at, [id |-> ids.break, condition |-> condition])
               /\ Answer("ok")
       /\ UNCHANGED <<target, memory, watches, trail, disk>>

AddWatchpoint(at, kind) ==
  IF remote THEN Refuse            \* supports_watchpoints
  ELSE /\ watches' = Adding(watches, ids.watch, [address |-> at, kind |-> kind])
       /\ ids' = [ids EXCEPT !.watch = @ + 1]
       /\ Answer("ok")
       /\ UNCHANGED <<target, memory, breaks, trail, disk>>

DeleteBreakpoint(id) ==
  IF \A at \in DOMAIN breaks : breaks[at].id # id THEN Refuse
  ELSE /\ breaks' = Without(breaks, CHOOSE a \in DOMAIN breaks : breaks[a].id = id)
       /\ Answer("ok")
       /\ UNCHANGED <<target, memory, watches, ids, trail, disk>>

DeleteWatchpoint(id) ==
  IF id \notin DOMAIN watches THEN Refuse
  ELSE /\ watches' = Without(watches, id)
       /\ Answer("ok")
       /\ UNCHANGED <<target, memory, breaks, ids, trail, disk>>

-----------------------------------------------------------------------------
(* Files: the session holds what the console keeps, the snapshot what the target keeps. *)

SaveSession ==
  /\ disk' = [disk EXCEPT !.project =
                [kind |-> "session", source |-> source, symbols |-> symbols, breaks |-> breaks,
                 watches |-> watches, ids |-> ids, frames |-> frames]]
  /\ Answer("ok") /\ UNCHANGED <<target, memory, tables, trail>>

LoadSession ==
  IF disk.project = NoFile THEN Refuse
  ELSE LET file == disk.project IN
       /\ source' = file.source /\ symbols' = file.symbols
       /\ breaks' = file.breaks /\ watches' = file.watches /\ ids' = file.ids
       /\ frames' = file.frames
       /\ undo' = <<>> /\ history' = <<>> /\ sequence' = 1
       /\ Answer("ok") /\ UNCHANGED <<target, disk>>

SaveSnapshot ==
  IF remote THEN Refuse
  ELSE /\ disk' = [disk EXCEPT !.snapshot = [kind |-> "machine", machine |-> machine]]
       /\ Answer("ok") /\ UNCHANGED <<target, memory, tables, trail>>

RestoreSnapshot ==
  IF remote \/ disk.snapshot = NoFile THEN Refuse
  ELSE /\ machine' = disk.snapshot.machine
       /\ undo' = <<>> /\ history' = <<>> /\ sequence' = 1 /\ frames' = <<>>
       /\ Answer("ok")
       /\ UNCHANGED <<remote, link, cache, source, symbols, tables, disk>>

-----------------------------------------------------------------------------
(* Execution *)

Condition(at) == IF breaks[at].condition = "always" THEN "holds"
                 ELSE IF breaks[at].condition = "unknown" THEN "error"
                 ELSE IF Context.x[breaks[at].condition] # 0 THEN "holds" ELSE "fails"

WatchHit(access) ==
  access # NoAccess /\ \E id \in DOMAIN watches :
    /\ watches[id].address = access.address
    /\ watches[id].kind \in {"access", access.kind}

RecordRetired(after) ==
  LET i == machine.mem[machine.pc] IN
  /\ history' = Append(IF Len(history) = MaxHistory THEN Tail(history) ELSE history,
                       [sequence |-> sequence, before |-> machine.pc, after |-> after.pc])
  /\ sequence' = sequence + 1
  /\ frames' = IF i.op = "jal" /\ i.rd = "ra"
               THEN Append(frames, [return_pc |-> machine.pc + 1, target |-> machine.pc + i.imm])
               ELSE IF i.op = "jalr" /\ i.rd = "zero" /\ i.rs1 = "ra" /\ frames # <<>>
               THEN SubSeq(frames, 1, Len(frames) - 1)
               ELSE frames

Retire == /\ machine' = Step(machine).m
          /\ RecordRetired(Step(machine).m)
          /\ UNCHANGED <<remote, link, cache, memory, tables, disk>>

\* The word at pc is read through the interface before any step.
CanFetch == CanAccess(Context.pc, 1)
CanStep  == CanFetch /\ (remote \/ Step(machine).ok)

\* An instruction of the remote target: it has stopped, and nothing is recorded.
Stopped(word, next) ==
  \/ RemoteStepped /\ said' = word /\ task' = next /\ UNCHANGED <<memory, tables, trail, disk>>
  \/ LostInStep

\* step looks for watchpoints, not for breakpoints.
StepOnce ==
  IF ~CanStep THEN Refuse
  ELSE IF remote THEN Stopped("ok", Idle)
  ELSE Retire /\ Answer(IF WatchHit(Step(machine).access) THEN "stopped" ELSE "ok")

Start(t) == /\ task' = t /\ said' = "running"
            /\ UNCHANGED <<target, memory, tables, trail, disk>>

\* `began` and `depth` are the model's own notes, as in HostMonitor.
RunUntil(op, address) ==
  Start([kind |-> "until", op |-> op, target |-> address, from |-> sequence,
         left |-> MaxRunSteps, began |-> machine.count, depth |-> Len(machine.live)])

StepOver == IF ~CanFetch THEN Refuse
            ELSE IF ~IsCall(machine.mem[Context.pc]) THEN StepOnce
            ELSE RunUntil("step-over", Context.pc + 1)

StepOut == IF frames = <<>> THEN Refuse
           ELSE RunUntil("step-out", frames[Len(frames)].return_pc)

Run(limit)      == Start([kind |-> "run", op |-> "run", left |-> limit, began |-> machine.count,
                          bypass |-> FALSE])
Continue(limit) == Start([kind |-> "run", op |-> "continue", left |-> limit, began |-> machine.count,
                          bypass |-> Context.pc \in DOMAIN breaks])
StepState(n)    == IF n = 0 THEN Refuse ELSE Start([kind |-> "stepidp", op |-> "stepidp", left |-> n])

Ends(word) == Answer(word) /\ UNCHANGED <<target, memory, tables, trail, disk>>

\* One turn of the loop of run_with_limit.
Turn(bypass, next) ==
  LET here == IF bypass \/ Context.pc \notin DOMAIN breaks THEN "fails" ELSE Condition(Context.pc) IN
  IF here = "holds" THEN Ends("stopped")
  ELSE IF here = "error" \/ ~CanStep THEN Refuse
  ELSE IF remote THEN Stopped("stopped", Idle)
  ELSE /\ Retire
       /\ IF WatchHit(Step(machine).access) THEN Answer("stopped")
          ELSE task' = next /\ UNCHANGED said

RunTurn == /\ task.kind = "run"
           /\ IF task.left = 0 THEN Ends("ran")
              ELSE Turn(task.bypass, [task EXCEPT !.left = @ - 1, !.bypass = FALSE])

\* Progress is seen in the numbers of the history.
UntilTurn ==
  /\ task.kind = "until"
  /\ IF task.left = 0 THEN Ends("error")
     ELSE IF Context.pc = task.target /\ sequence # task.from THEN Ends(task.op)
     ELSE Turn(sequence = task.from /\ Context.pc \in DOMAIN breaks, [task EXCEPT !.left = @ - 1])

StepStateTurn == /\ task.kind = "stepidp"
                 /\ IF task.left = 0 THEN Ends("ok")
                    ELSE IF ~CanStep THEN Refuse
                    ELSE IF remote THEN Stopped("running", [task EXCEPT !.left = @ - 1])
                    ELSE Retire /\ task' = [task EXCEPT !.left = @ - 1] /\ UNCHANGED said

Turns == RunTurn \/ UntilTurn \/ StepStateTurn

-----------------------------------------------------------------------------
\* BackendConsole::execute; "set" and "reset" are unknown commands here.
Execute(c) ==
  /\ Ready
  /\ \/ c.name = "assemble"             /\ Assemble(c.line)
     \/ c.name = "assemble-program"     /\ AssembleProgram(c.program)
     \/ c.name \in {"set", "reset"}     /\ Refuse
     \/ c.name = "step"                 /\ StepOnce
     \/ c.name = "stepidp"              /\ StepState(c.count)
     \/ c.name = "step-over"            /\ StepOver
     \/ c.name = "step-out"             /\ StepOut
     \/ c.name = "run"                  /\ Run(c.count)
     \/ c.name = "continue"             /\ Continue(c.count)
     \/ c.name = "edit"                 /\ Edit(c.at, c.word)
     \/ c.name = "fill"                 /\ FillMemory(c.at, c.count, c.word)
     \/ c.name = "copy"                 /\ CopyMemory(c.from, c.at, c.count)
     \/ c.name = "undo"                 /\ UndoEdit
     \/ c.name = "break"                /\ AddBreakpoint(c.at, c.condition)
     \/ c.name = "watch"                /\ AddWatchpoint(c.at, c.kind)
     \/ c.name = "delete break"         /\ DeleteBreakpoint(c.id)
     \/ c.name = "delete watch"         /\ DeleteWatchpoint(c.id)
     \/ c.name = "snapshot"             /\ SaveSnapshot
     \/ c.name = "restore"              /\ RestoreSnapshot
     \/ c.name = "project-save"         /\ SaveSession
     \/ c.name = "project-load"         /\ LoadSession
=============================================================================
