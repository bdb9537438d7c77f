# rvmon: specifications, checks and proofs

rvmon is a RISC-V machine-language monitor in two halves. A **guest monitor** runs in M-mode on
the QEMU `virt` board, owns the serial line, and debugs one U-mode target by patching its text
(`crates/guest-monitor`). A **host monitor** drives a simulated hart, or a QEMU gdb stub, from a
terminal (`crates/monitor`, `crates/machine`, `crates/qemu-backend`), and moves snapshots between the
host and a guest over TCP (`crates/snapshot-format`, `crates/app`). The modules here are TLA+
models of that code, the `.cfg` files the instances TLC checks, and the `*Proofs` and
`*Refinement` modules the results TLAPS proves for every value of the constants.

Twelve runs. Ten pass: `guest_core`, `guest_edit`, `guest_watch`, `trap_context`, `uart_input`, `guest_snapshot`,
`snapshot_transfer`, `host_debuggers`, `machine_float` and `assembler`. Two, `find_project_import` and `find_label_drift`, check a
sentence of a document that the code does not keep, and end in a counterexample. Thirteen more configurations named `find_...`
do the same and are kept beside the runs, to be tried when the code changes: see Findings.

## Reading order

| module | what it is |
|---|---|
| `GuestDebug` | the guest's debug engine: breakpoints, stepping, counts, watchpoints, undo, every command that writes memory |
| `DebugContract` | what that engine promises, with no patch in sight |
| `GuestDebugProofs` | type correctness, the inductive invariant and what follows from it; a count given to `step`, `run` or `stepidp` is a bound, a counted step looks at the watchpoints |
| `GuestDebugRefinement` | the engine implements the contract |
| `MCGuestDebug` | the small programs and register files its runs use |
| `TrapContext` | how the target's registers get from the hart to `CONTEXT` and back: `entry.S` and its interrupts |
| `TrapContextProofs` | the round trip loses nothing, for any register contents |
| `UartRx` | serial input: the device, the interrupt, the ring, and everyone who reads it |
| `LossyInput` | what the readers of that input may count on |
| `UartRxProofs` | the ring is sound and delivers in order, no overrun is hidden, no Ctrl-C forgotten, no character vanishes, and the whole implements `LossyInput`, for every capacity |
| `GuestSnapshot` | the guest's snapshot slot beside its debug engine |
| `SnapshotContract` | what save, patch and restore promise of the program: `DebugContract` with a saved state |
| `GuestSnapshotProofs` | the slot keeps the invariant and the contract |
| `MCGuestSnapshot` | its instance |
| `SnapshotFormat` | the three file formats, encoded by the host and decoded by both sides |
| `SnapshotTransfer` | the tool, the serial line and the guest's snapshot commands |
| `SnapshotTransferProofs` | encoders and decoders undo each other; no payload, chunk or manifest is overrun |
| `MCSnapshotTransfer` | small programs, files and typed lines |
| `HostTarget` | the simulated machine as the host debuggers see it |
| `HostMonitor`, `HostConsole` | the two host debuggers, `Monitor` and `BackendConsole` |
| `HostDebuggers` | both given the same commands: what each guarantees, where they must agree |
| `HostDebuggersProofs` | both keep their numbers, history, frames and breakpoints, and agree, over any programs and commands |
| `MCHostDebuggers` | its programs and commands |
| `MachineFloat` | the floating-point arithmetic of the simulated machine, on bit patterns |
| `FloatReference` | the same answers by rounding an exact number |
| `MCMachineFloat` | two small formats |
| `Isa` | instruction words: how the fields and immediates are scattered, and read back |
| `AssemblerSource` | includes, conditionals and macros |
| `Assembler` | the two passes over the expanded program |
| `AssemblerProofs` | the decoder undoes the encoders; the two passes agree; labels are reached, for every source |
| `MCAssembler` | lines, files and options |

## Inventory

### Guest debug engine (`crates/guest-monitor/src/main.rs`)
*State*: `TEMPORARY_BREAKPOINT`, four `PERMANENT_BREAKPOINTS`, `STEPPED_PERMANENT_BREAKPOINT`,
`RUN_REMAINING`, `STEPIDP_*`, four `WATCHPOINTS`, `MEMORY_UNDO`, `CONTEXT`, and target RAM.
*Operations*: `rust_trap` (the stop of a step, of a count, of a breakpoint; the services of
`ecall`) and some forty commands of `monitor_loop`. *Interaction*: a command ends by resuming the
target (`resume_target`, never returns) and the target comes back through `trap_entry` to
`rust_trap`, which may resume again by itself or call `monitor_loop`. *Hard*: one instruction is stepped
by moving EBREAKs in the text of a program that can read, overwrite and jump into them; the state
of the step survives in statics across the trap; every error path enters `monitor_loop` with
whatever has been done so far. *Correct* means: no word of the program is ever lost, a listed
breakpoint fires, a count is kept, and nothing of a step is left when the user types.

### Guest trap entry (`entry.S`, `rust_main`, `resume_target`)
*State*: the hart's registers and CSRs, `CONTEXT`, `mscratch`, the stacks. *Operations*:
`_start`/`install_trap`, `enter_user`, `trap_entry`, `resume_user`. *Hard*: an interrupt between any
two instructions while `mstatus.MIE` is set; registers used as scratch while they are restored;
the handler runs on whatever stack pointer it finds. *Correct*: a trap and a resume leave the target's
registers as they were; U-mode starts at `target_entry`; handlers run on the monitor's stack.

### Guest serial input (`uart16550.rs`, `plic.rs`, the services of `ecall`)
*State*: the 16-byte FIFO of the device, the 4096-byte ring, the Ctrl-C flag, counters, the claim of
the PLIC. *Operations*: `poll_rx`, `get`, `peek`, `take`, `put`, `service_interrupt`,
`target_read_char`, `target_poll_char`, `target_poll_break`. *Hard*: bytes arrive at any
moment; three readers (prompt, target, break detector); Ctrl-C is out of band. *Correct*: bytes are read
once, in order, and are lost only when a queue is full and counted; a Ctrl-C reaches the program.

### Guest snapshot slot (`main.rs`, `snapshot` commands)
*State*: one slot (`GUEST_SNAPSHOT`: workspace, data, context, breakpoints, watchpoints, source, symbols), the buffer
of binary payloads. *Operations*: save, patch, patch-binary, patch-rle, metadata apply, restore, and the
manifests and dumps that read it. *Hard*: it saves memory with EBREAKs in it, and restores tables and memory that may
belong to another moment. *Correct*: after a restore the tables agree with memory, and the target is the one that
was saved.

### Snapshot transfer (`crates/snapshot-format`, `crates/app`, the guest's command loop)
*State*: a file, the tool's place in a dialogue, what is on the line in each direction, the guest's slot.
*Operations*: export and import of a snapshot or a project, each some tens of commands over a text prompt, some
followed by a binary payload. *Hard*: any command may be refused, the connection may end anywhere, a user's
terminal uses the same line, and what the guest has already done stays done. *Correct*: what is exported is what the
target holds, what is imported is what the file holds, and the tool ends.

### Host monitor (`crates/monitor`)
`Monitor` over a simulated `Machine`, and `BackendConsole<B>` over any `TargetBackend`, with the same commands
written twice. *State*: breakpoints with conditions, watchpoints, a bounded undo stack, a bounded history, the
inferred call stack, source and symbols, the files of a session. *Operations*: step, stepidp, step-over,
step-out, run, continue, memory and register edits, assemble, save and load. *Hard*: loops that step a target whose every step may
fail, with conditions, watchpoints and budgets to test in some order; a call stack inferred from the words executed;
files saved at one moment and loaded at another. *Correct*: a stop is where it should be, undo restores, history and
frames tell what happened, the two debuggers agree.

### Machine and memory (`crates/machine`, `crates/memory`)
A one-hart interpreter over a byte array, with binary16 to binary128 arithmetic done on whole numbers. *Correct*: a
refused instruction changes nothing; a transaction commits wholly or not at all; a floating result is the exact one,
rounded once.

### QEMU backend (`crates/qemu-backend`)
A gdb-remote client. *State*: a byte stream, a cached context. *Correct*: the context shown is
that of the target after the last command that succeeded.

### Host assembler (`crates/assembler`, `crates/isa`)
*State*, while a program is assembled: the conditionals open, the macros defined, the lines expanded, and in each
pass the section, the program counter, the symbols. *Hard*: two passes that must count the same bytes by different
code; names whose meaning depends on where they are read. *Correct*: every label is the address of its line, every
word decodes to the instruction written.

### Text and tables
`asm-lexer`, `disassembler`, `floatfmt`, `diag`, `abi`, `target-api`, the guest's own assembler and MiniBASIC: pure
functions of text, types, and a U-mode interpreter that is a program like another for the debugger.

## Plan

All steps are written; each is a module (or a few), its instance, its runs and its mutants.

1. **GuestDebug**, **DebugContract**: the engine, its invariant, the refinement; all proved.
2. **TrapContext**: `entry.S` block by block, with interrupts; the round trip is proved.
3. **UartRx**, **LossyInput**: FIFO, ring, interrupt, prompt and target readers. The ring,
   order, single delivery, the account of the losses, overruns, Ctrl-C and the refinement are proved.
4. **GuestSnapshot**, **SnapshotContract**: the slot composed with the debug engine; proved.
5. **SnapshotTransfer** over **SnapshotFormat**: the dialogue between tool and guest. The types of the
   dialogue and the round trips of the three formats are proved.
6. **HostDebuggers** over **HostMonitor**, **HostConsole** and **HostTarget**. Numbers, history, frames,
   breakpoints and the agreement of the two are proved.
7. **MachineFloat** against **FloatReference**.
8. **Assembler** over **AssemblerSource** and **Isa**. The encoders, the types of the source, the agreement of
   the two passes and the labels are proved.

What would come next: the packets of `qemu-backend` against a stub; the multiplication, division, square root and
fused operations of the machine on the rounding already modelled; the guest's own line assembler against `Isa`, whose
lemmas would serve it as they are.

## GuestDebug and the code

One action per handler and per command. `mode` says who has the hart; the handlers and the
commands run in M-mode with interrupts off, so each is atomic (an external interrupt of the target resumes it
without touching the debugger's state: it is a stutter here). `pc` is both
`context.pc` and `context.mepc`, which are equal whenever either is read.

| code | model |
|---|---|
| `rust_trap` | `RustTrap`: `ServiceResume`, `ServiceStop`, `StepidpNext`, `StepidpDone`, `RunNext`, `TrapStop` |
| `resume_single_step` | `ResumeSingleStep`, its five outcomes `StepPermanent`, `StepIntoEbreak`, `StepTemporary`, `StepWatched`, `StepRefused` |
| `prepare_permanent_breakpoint_step`, `install_temporary_breakpoint` | `PreparePermanentStep`, `InstallTemporary` |
| the two restores | `TemporaryRestored`, `SteppedRearmed`, composed in `Restored` |
| `monitor_loop`'s commands | `Resuming`, `Launching`, `Editing`, `Tables` |
| the hart in U-mode | `Execute`, `Store`, `TrapEntry` (external: from the privileged architecture the code relies on) |

Instruction words are abstract. `Kind`, `Succ` and `Effective` say what the hart does with one, so that a
proof holds for any instruction set; a cell of `Ram` is an aligned word. Failures of range
and alignment that the code refuses before it changes anything are stutters and left out. History
variables (`image`, `fresh`, `retired`, `order`, `stale`, `breach`) record what the user and
the program wrote, what was ordered and what has retired; no action reads them but to update them.
`breach` records the four places where the code bypasses its own records, each of them a real path:

* `service`: an `ecall` stops at the prompt (exit, or an unknown service) in the middle of a step;
* `overwrite`: the program, `basic` or `payload-clear-data` writes under an enabled breakpoint;
* `restore`, `patch`: the snapshot slot, see `GuestSnapshot`.

The properties that hold with `breach = {}` say what the design guarantees, and nothing of what follows a gap: they
exclude it, they do not catch it. What catches it are configurations that TLC refutes: `find_lost_word` (`service`) and
`find_runaway` (`overwrite`). The gaps of the slot contradict no document, and nothing is claimed after them.
`BudgetKept` excludes in the same way the counts left behind by a refused command (`stale`), which
`find_break_passed` shows.

### Runs

| run | what it shows | instance |
|---|---|---|
| `guest_core` | text preserved, breakpoints armed, quiet prompt, disjoint records, counts kept, contract implemented | four-word programs with a jump to itself, an `ebreak`, an unsupported jump and an `ecall`; two slots, counts 1 and 2 |
| `guest_edit` | the inductive invariant, `undo` clear of breakpoints being a part of it, and the contract under all memory commands | programs that store over their own text, and a payload; one breakpoint |
| `guest_watch` | steps that cross no permanent breakpoint honour the watchpoints, and a bounded command gives the prompt back unless the program writes over a breakpoint | loops that load or store, what is stored being a legal branch; one breakpoint, one watchpoint |

*Bounds.* Text interacts only through "same word or not", "next word" and "jump target", so three to
four words hold every relation between a breakpoint, a temporary one, the current pc and its successor; two
slots are the smallest number with which a step can land on another breakpoint; counts of 1 and 2 are
the two sides of the `> 1` in `rust_trap`. `RetireCap` only saturates a history counter, above the largest count.

*Fairness.* `FairSpec` assumes that the hart goes on executing (`WF(Target)`) and that `rust_trap` ends
(`WF(RustTrap)`): the handler has no loop but the wait for a character, whose end rests on the user.
Nothing is assumed of the user: commands are never forced.

### What is proved

For every value of the constants that satisfies the named assumptions (`RamAssumption`,
`WordAssumption`, `BoundAssumption`: addresses are in RAM, EBREAK is the one word that breaks, an
`ecall` falls through to the next word):

* `TypeCorrect`, by one lemma per group of actions.
* `Invariance`: `Inv` is inductive. `ProgramIntact` alone is not: that the records hold
  the right words depends on memory having an EBREAK at the patched words *and nowhere else*
  (`PatchesExact`), which in turn needs, in the middle of a step over a permanent breakpoint, that the
  disarmed one is the breakpoint at `pc` and that its successor is patched (`SteppedCrossing`): otherwise
  the target could run away with a breakpoint disarmed. `TrapExplained` carries the reason of the trap
  into `rust_trap`, for the services. The proof reduces every handler to two shapes, a resume and a
  return to the prompt, both from a *settled* memory: `RestoredSettled` shows that
  the two restores of `rust_trap` reach one, `PromptSettled` that the prompt has one.
* `ProgramIsIntact`, `BreakpointsAreArmed`, `PromptIsQuiet`, `BreakpointsStayDisjoint`: corollaries.
* `Refinement`: `Spec => Contract!Spec`, step by step under the mapping of `GuestDebug!Contract`.

* `BudgetIsKept`: `BudgetKept` says nothing of how a count is met; `BudgetInv` does, in three
  parts. `Landing`: while a counted command runs, either the instruction at `pc` is still to retire and the word after
  it is patched, or it has retired and `pc` is on the patch, so one resume retires at most one instruction. `OwnCount`:
  the counter in use is the one the command has set. `Count`: what has retired, what the resume under way may still
  retire and the resumes left never exceed the count. The last two hold while no count of an earlier command was
  left behind (`stale`), the first while no gap was taken (`breach`): `rust_trap` counts traps, not instructions.

* `StepsAreWatched`: from `Landing`, the only instruction a counted step can retire is the one `resume_single_step` has
  looked at (`WatchReady`), or the one that crosses a permanent breakpoint.

Only model-checked: `BoundedRunReturns`, liveness being out of the prover's reach. It ends where `breach` begins: a program
that stores a branch over the EBREAK of its own step never meets it, and `RUN_REMAINING` stands still. The same sentence without the
exception is the tutorial's (`RunReturnsToPrompt`), and `find_runaway` refutes it over the same programs.

## TrapContext and the code

`GuestDebug` takes for granted that a trap puts the target's registers in `CONTEXT` and that
`resume_target` puts them back. `TrapContext` is that path: `enter_user`, `trap_entry` and `resume_user`,
cut at each point where a scratch register or a CSR changes its meaning, and between them what `rust_trap`, the
services and the prompt do to the frame.

| code | model |
|---|---|
| `rust_main`, `enter_user` | `EnableInterrupts`, `EnterEpc`, `EnterMstatus`, `EnterSp`, `EnterMret` |
| `trap_entry` | `TrapEntry`, `Save`, `SaveT0`, `SaveCsrs`, `CallRustTrap` or `PushFaults` |
| the interrupt handler and the services | `HandleInterrupt`, `HandleCall`, `ExitCall` |
| `set`, `setf`, `run-at`, and every command that resumes | `SetRegister`, `RunTargetAt`, `ResumeAt` |
| `resume_user` | `Restore`, `RestoreCsrs`, `RestoreT0`, `ResumeMret` |
| the hart | `Trap`, `Mret`, `Interrupt`, `Instruction`, `TargetTraps` (external) |

An interrupt may come at every point the architecture allows: always in U-mode, in M-mode when `mstatus.MIE` is
set. The registers kept apart are those the path treats differently (`sp`, `t0`, `t1`, `t6`, `fcsr`); `a0`,
the argument of `rust_trap` and of `resume_user`, also stands for the ones that are only copied. `expected` is the
history: what the target should find, from its own instructions and from what was ordered.
`gap` names the two ways in which the path itself lets the target down. The three properties exclude what follows them;
`find_boot_interrupt` and `find_monitor_stack` show each against the sentence it contradicts:

* `early`: an interrupt inside `enter_user`, which is setting the CSRs that a trap overwrites;
* `push`: the first push of `rust_trap` faults, because `sp` is still the target's. After that `mscratch`
  no longer holds the context, and every further save goes through the target's `t0`.

`Usable` says below which values of `sp` memory can be pushed. A push that succeeds is taken to
overwrite nothing the monitor keeps: a target whose `sp` points into the monitor's own data is left out.

*Run.* `trap_context`: two target values, one of them unusable as a stack, and two words. The
path compares no two values and treats each register in one way, so two values tell every
register from every other in some state. The system never stops (a push that faults is taken again and
again), so deadlock is checked.

*Proved*, for any values and any number of words: `TypeCorrect`, `TargetIsUndisturbed`,
`ContextIsAlwaysFound`, `PathIsNotNested`. None of them is inductive. `Inv` adds three parts, one lemma
each: `Sealed` (traps and `mret` never lead back into the path, unless a push has faulted, after which the
path is never left), `ContextHeld` (at each place, which of `mscratch`, `t0`, `a0`, `t6` is the
context) and `Undisturbed` (at each place, which registers are still live, which are in the frame, and
where the last `mret` goes: into the target, or back to the first instruction of `enter_user`). Liveness is
not stated.

## UartRx and the code

| code | model |
|---|---|
| the 16550A, the PLIC gateway | `Arrive`, `Raise` (external) |
| `poll_rx` | `ReadStatus`, then `ReadByte` as long as there is one: a character may arrive between the two |
| `pop_rx`, the loops of `get` and `put` | `Pop`, `PollAgain` |
| `handle_machine_external_interrupt`, `plic.rs` | `Interrupt`, the driver, `InterruptEnd` |
| `target_read_char`, `target_poll_char`, `target_poll_break`, `write_char` | `Service`, `ServiceBreak`, `ReadEnd`, `PollCharEnd`, `PollBreakEnd` |
| `monitor_loop`, `uart_read_line` | `MonitorLoop`, `Prompt`, `PromptEnd`, `Continue` |

A character is its number on the line, so that order, duplication and loss can be told; `ctrl` is the set of
those that are Ctrl-C. `taken`, `lost` and `unanswered` are history. Parity, framing and the statistics about them
are left out.

*Run.* `uart_input`: a ring of two, a FIFO of two, four characters. Both queues fill, overflow and wrap, and
characters of both kinds are lost in every place where one can be. The names of the bounds are the
CONSTANTS `Capacity`, `FifoSize` (4096 and 16 in the code) and `Characters`.

*Fairness* (`FairSpec`). `WF(Driver)`: M-mode code runs. `WF(Raise)`: a level that stays up reaches the PLIC.
`SF(Interrupt)`: an interrupt that is pending again and again is taken; the target may call services for ever, each
of them masking it for a moment, but interrupts are recognised between two instructions of U-mode.
`WF(PromptServes)`: at the prompt the monitor reads lines or resumes; `uart_read_line` never returns to anything else.
Nothing is assumed of the sender, nor that the target calls a service.

*Proved*, for every capacity and FIFO size:

* `UartInvariance`, and from it `RingIsSound` (the indexes agree with the count wherever the ring wraps) and
  `DeliveryIsInOrder`. `Inv` joins the order of the three queues with what each holds having been sent, and with
  `poll_rx` reading RX only when LSR said so.
* `OverrunsAreKnown`: what the FIFO lost is a finite set of characters sent, so that one more is one more overflow.
* `BreakIsKept`, which is inductive by itself.
* `CharactersAreAccounted`. Each step moves one character, so the sum is kept if that character
  was not where it goes: `LossesAreOlder` says that what was dropped or swallowed is older than what
  still waits, `LineIsSent` that a character that arrives is new.
* `DriverIsLossyInput`: `Spec => ImplementsQueue`. The queue of `LossyInput` is the *set* of ordinary characters that
  wait (`Waiting`: in the ring, in the FIFO, or in the RX register just read), characters being numbered as they are sent; what it
  promises is which of them may leave. A character that leaves for a reader is the head of the ring, hence the oldest
  (`HeadIsOldest`, from `Inv`); one the driver drops has the whole ring before it and nothing else (`MembersCounted`: a ring of
  strictly increasing numbers has as many members as entries), so exactly `Capacity` are older, which is the guard of `Drop`;
  and a character moved from the FIFO to the ring stays in the set, a stutter (`QueueReadByte`).

Only model-checked: `FifoIsDrained`, which is liveness.

## GuestSnapshot and the code

`GuestSnapshot` extends `GuestDebug`: every command and handler of the engine is kept, and four are added at the
prompt.

| code | model |
|---|---|
| `save_guest_snapshot` | `SaveSnapshot`: the two regions with the enabled patches taken out, the tables, the context |
| `snapshot_patch`, `_binary`, `_rle` | `PatchSnapshot`: a word of the slot's text |
| `snapshot_metadata_apply` | `ApplyMetadata`: the slot's context |
| `restore_guest_snapshot` | `RestoreSnapshot`: memory with the saved patches in, tables, context, counts and undo cleared |

Two gaps are the slot's own, and are recorded in `breach` like those of the engine: `restore` (a live breakpoint
outside the two regions is forgotten with its EBREAK in memory) and `patch` (the text of the slot was changed under
a saved breakpoint, whose record keeps the old word). `STEPIDP_ACTIVE` survives a restore, as in the code.

*Run.* `guest_snapshot`: three words, one of them outside the regions, one slot of breakpoints, programs that store and
that break by themselves. States after a gap are reached and not left (`Unbroken`): nothing is
promised there. One region word and one other are enough to tell whether a patch is saved, lost or armed. The
constraint keeps the run small; the proofs do not use it.

*Proved*, for every region, program and number of slots: `SnapshotInvariance` (the engine's inductive invariant with
`SlotRecords`: the saved records are of words the slot covers, no two alike) and
`SnapshotRefinement` (`SnapSpec => SnapshotContract`): each step maps to one of the contract or to a stutter. Every
lemma about the engine's own steps is taken over from `GuestDebugProofs` and `GuestDebugRefinement`.

## SnapshotTransfer and the code

| code | model |
|---|---|
| `SnapshotImage`, `SnapshotMetadata`, `SnapshotProject`: encode, decode | `ImageEncode` ... `ProjectDecode`; a decoder answers a set, empty where the code returns an error |
| `build_snapshot_metadata`, `decode_guest_metadata` | `GuestMetadata`, `GuestDecode`: the guest's own, with its own limits |
| the `snapshot` commands of `monitor_loop` | `GuestCommand`; a line is one message, its answer another |
| the payload loops of patch-binary, patch-rle, metadata apply | `GuestByte`, and `GuestLineAsPayload` when a line is eaten as bytes |
| `TcpGuestCommandTransport` | `Marker`, `ToolHear`: what the tool waits for, and drops |
| `apply_*`, `fetch_*`, `export_*`, `import_*` | `HearSave` ... `HearRestore`, `Applying` |
| the user, the network, the disk | `ToolStart`, `TerminalType`, `Drop`, `Corrupt` (external) |

Faults: a connection that ends with any prefix of what was sent delivered; a tool killed anywhere; a file damaged in one
field, cut or lengthened; lines typed by a user before or between two runs of the tool, unfinished ones
included. The guest is never restarted: it keeps its slot in memory only.

*Run.* `snapshot_transfer`: regions of five and three cells, chunks of four, so that a region takes two chunks and
one; four programs (one that packs, one with a byte 3 in it, one stopped by a fault, one beyond the host's
limits), an empty and a foreign file; two runs of the tool and two events (`Runs`, `Events`). Two runs
are needed for anything one connection leaves to the next, two events to damage what an interrupted run left. The
system stops when the bounds are used up, hence no deadlock check.

*Fairness.* `WF(Guest)`: the command loop polls its line. `WF(ToolHear)`: the tool reads its socket. The user and the
network owe nothing. `ToolEnds` has four exceptions, each a path of the code: `NoPromptToCome` (a second
connection waits for a prompt the guest sends only after a command), `PayloadOfAnother` (the guest still counts the
bytes of an interrupted payload), `swallowed` (a byte 3 was taken for a Ctrl-C) and a guest that panicked over metadata
longer than its buffer (`main.rs:2080`, `2096-2104`). There is no time-out in `read_until_markers`. These four are excluded, not
caught: the run shows that nothing else keeps the tool. The third is refuted by `find_project_import`.

`ExportedIsLive` excludes a connection that starts on an unfinished typed line (`typeahead`): the guest then answers
`error: unknown command` to `snapshot save`, which the tool does not take for an error (`app/src/main.rs:126` looks for
`error [`), and it exports the slot of an earlier save. `ExportIsFaithful` is the same property without the exception, and `find_stale_export.cfg`
refutes it.

*Proved*, of the formats, for every file, region, text and limits (`FormatAssumption`: the limits are natural numbers, a
region and a pair hold at least one cell):

* `RunsRoundTrip`: the guest unpacks from the pairs of `rle_encode` exactly the cells they were made of.
* `ImageRoundTrip`, `MetadataRoundTrip`, `ProjectRoundTrip`: what is written within the limits is read back, and nothing else is.
* `ImageFileUnique`, `MetadataFileUnique`: a file that is read is the one its contents are written as, so that an accepted
  file has no byte the program does not account for: no gap, no trailing bytes, no second length.
* `TextRoundTrip`, `GuestKeepsMetadata`, `GuestReturnsTheFile`: the guest splits the text into lines and joins them again without
  loss, and sends back any metadata it accepts as they came. `GuestMetadata` is empty when an answer cannot hold them.

The encoders and decoders are recursive functions of a place in a sequence. That such a function exists, and what it is at each
place, is shown by induction with a *set* (`SetInduction`, from the well-foundedness of `<` on `Nat`): the places at which the
claim holds are all places.

*Proved*, of the dialogue, for regions, chunks, programs, files, typed lines, runs and events of any size and number
(`TransferAssumption`): `TransferIsTyped`, the invariant `TypeOK`. It is about more than types: a payload is never longer than its
command announced, and only under a command that takes one (`Reads`); a chunk written or taken lies in its region; the tool's place in a
dialogue is one its manifest or file has. The inductive invariant adds what each step relies on: an answer on the line has the fields of its
kind, each stage of the tool has what its next step reads, the chunks of a region lie one after the other, and the cells
received end where the next chunk starts. All of it holds whatever lines are typed between, and wherever the connection ends.

Only model-checked: `ToolEnds`, which is liveness, and `ExportedIsLive`, `RestoresTheFile`, `ImportedIsLive`. The last
three say that what arrived is what was sent, which rests on a checksum telling a damaged file from the genuine one: true of one
field changed, and not for all files and any number of changes.

Out of the model: the stack `decode_guest_metadata` needs; that source and metadata have no checksum; that an import
leaves the old `original_word` in the breakpoint records (`GuestSnapshot` has that, as the gap `patch`).

## HostDebuggers and the code

| code | model |
|---|---|
| `Machine::step`, `Machine::load`, `Memory::range` | `HostTarget`: `Step`, `Load`, `Fits`; the instructions a debugger tells apart |
| `Monitor::execute` and each command | `HostMonitor!Execute` |
| `run_with_limit`, `run_until_pc` | `RunTurn` and `UntilTurn`: one action per turn of the loop |
| `snapshot_bytes`, `apply_snapshot`, `save_project`, `load_project` | `SnapshotBytes`, `ApplySnapshot` and the two files of `disk` |
| `BackendConsole<B>::execute` | `HostConsole!Execute`, with `remote` for a `GdbRemote` behind it |
| `GdbRemote` | `cache`, `link`, `LinkLost`, `LostInStep`: any request may be the last one answered |

`HostDebuggers` types the same commands into both. `live` and `indirect` are history kept with the machine: the calls the
program is really inside. `PartsWays` lists the commands on which the two differ by design, or by an accident named
in its comment; from then on `SameDebugger` says nothing. `torn` is the set of what belongs to a machine that a failed load has
replaced: the live history, the live frames, the frames of the snapshot file or of the project file (saved while they
were torn, and torn again when restored). `adrift` says that the console's files set its frames apart from the target.
The two share nothing, so while both run a loop they take its turns together (`TakeTurns`), and `SameDebugger` compares them
after every turn.

| property | what could break it |
|---|---|
| `BreakpointsStop` | the bypass of the breakpoint a command resumes from reaches the next turn, or a plain run |
| `HistoryIsPath` | a restore, a reset, a load or the limit of the history leaves entries of another run |
| `FramesAreCalls` | frames saved, restored and reset apart from the machine; a call or a return missed |
| `StepsReturn` | a step-over or step-out that reports its address inside the call it had to leave |
| `SameDebugger` | an operation changed in one of the two copies |
| `IdsAreFresh` | numbers restored from a file that is older than the tables |

*Run.* `host_debuggers`: a program that calls a leaf and stores, one that calls through a register and whose entry is
not its first word, one that does not fit; five commands out of all of them, at most one load, two of breakpoints and
watchpoints, three that run, one edit and two of files (`MCBudget`); the first is a load. A history of four and an undo list of two
are overrun in five commands. The project of an earlier run may be on the disk, saved with other numbers.
The session ends when its commands are used up, hence no deadlock check.

*Proved*, for every memory, set of programs, words, commands, budget, limit of the history and of the undo list
(`CommandsAssumption`: the counts of `fill` and `copy` are natural numbers, as the parser makes them). No type is assumed of pcs, registers
and words: a debugger moves them and compares them, so the theorems hold of any instruction set. Each invariant is
made of parts of the same shape, a fact about the debuggers and the same fact about *every file they may load*, which is what the
properties themselves leave out. `MachinesOK` (machines are records with a count) goes along with each of them.

* `HostIdsAreFresh`, from `NumbersFresh`: the numbers in the tables are below the next ones and each in use once, in both
  debuggers, in the snapshot and in both kinds of project.
* `HostHistoryIsPath`, from `HistoryFollows`: the path ends where the machine is, with its count as the number of the last
  entry; the console's with its own count, and empty over a remote target. The limit (`Forgetting`) takes the oldest entry only.
* `HostFramesAreCalls`, from `FramesFollow`. The property alone is not inductive, and with `torn` a mere flag it was not
  true: fail a load half way, save a snapshot, load well, restore. The frames of the failed load come back with the file, which no short run
  of commands shows; hence the set.
* `HostBreakpointsStop`, an action property, from `TasksFollow` (what a loop knows of the instruction it began with) and
  `CacheFollows` (the cached registers of a remote target are its registers while the link holds).
* `HostSameDebugger`, from `Alike`: besides what the property compares, the same numbers, the same conditions under the same
  breakpoints, undo entries that fit memory, history entries in step, the same task in the same turn (`SameTask`). One lemma per
  command and one per loop shows that the two copies of its code come to the same.

Only model-checked: `StepsReturn`. It is about programs that return where they were called from; one that changes `ra` before its
`ret` pops the frame and goes elsewhere, and a step-out then reports an address in no call it has left. It holds of the programs
of the instance, not of all.

## MachineFloat and the code

The machine computes with magnitudes (`BigUint`) and shifts, by cases: normal, subnormal, overflow, carry. The module
follows those cases on bit patterns; `FloatReference` says what they must deliver: the exact value, counted in units fine
enough for both formats, rounded once. The five rounding modes, dynamic and reserved ones, NaN boxing, signalling NaNs, signed
zeros and infinities, the flags, and the four integer targets are in.

*Run.* `machine_float`: formats with two exponent and two fraction bits and with four and five, integers of five and ten
bits. Every pattern of the small format in pairs, every pattern of the large one in conversions, and the pairs of its
boundary numbers. The code is generic in the widths (`BinaryFormat`), and each of its cases is met at those: what a
wider format adds is more of the same numbers. `MaxInstructions` is 1: an instruction depends on registers and `fcsr`
only, all of which are enumerated. Deadlock is not checked for that reason.

Only model-checked: both properties. They compare shifts by variable distances with a choice among the numbers of a format, whose
sizes are powers of two: the solver's arithmetic has neither.

*Underflow.* `Rounded` raises `UF` as the manual's chapter F asks, from the value rounded to the precision of the format with an
unbounded exponent, and not as the code does, from the result it delivers. The two differ on one case: a tiny number that is rounded up to
the smallest normal one. `CorrectlyRounded` leaves that flag open there (`DeliversRounded`) and asks for both at every other
result, so it holds of the code as it is and of the code corrected; `UnderflowAsInTheManual` is the requirement itself, which
`find_underflow` refutes. A sum that is tiny is exact, so only a conversion can show it.

*Exceptions.* NaNs are outside the two properties: the canonical NaN of a sum is fixed by the module's definitions. A
NaN with its sign bit set converts to the least integer (zero, unsigned) where the ISA manual says the greatest.

## Assembler and the code

| code | model |
|---|---|
| include expansion, conditionals, macro definition and expansion | `AssemblerSource`: one action per line read |
| `assemble_program_with_options`, first pass | `Collect` with `define_labels` (`Labelled`) and `line_size` (`LineSize`) |
| second pass | `Emit`, with `EmitSection`, `EmitSet`, `EmitBytes` |
| `assemble_parsed`, `encode_generated_instruction`, `assemble_directive` | `AssembleInstruction`, `EncodeGeneratedInstruction`, `AssembleDirective` |
| `encode_branch` and the other encoders of `isa` | `Isa`, with the decoding of `isa-core` and the machine |

A line is a record the parser would give: labels, mnemonic, operands. `LabelsAreReached` compares three
things the code never does: the first pass's symbols with the second pass's listing, each word *decoded* with the
source line, and each number with the meaning its names have where it stands.

An instruction whose operands do not have the shape of its own encoder goes to the generic one, which fills the fields of its table row
in order and takes more than the syntax of the ISA. The model takes the same: `add f1, 4(x2)` is `add x1, x2, x1` (the
operand `f1` serves as `rd` and as `rs2`, the offset is dropped), so are `mul` and the comparisons `feq`, `flt`, `fle` with an address; `flw f1, f2, 5`,
`lw f1, f2, 5`, `jalr f1, f2, 5` are loads and jumps written like `addi`; `addi f1, 4(x2)` is an `addi`. `f1` and `x1` are
the same number there. So "the instruction on the line" means: its mnemonic, the number of each register operand, and the
immediate as far as the instruction has one; what an address loses to an instruction without an offset, and a store to one
too large, is `OffsetsNeverWrap`, which `find_offset_lost` refutes.

*Run.* `assembler`: every main text of up to four lines (`MaxLines`) out of a pool of 24, with four files to include: a macro
that branches to its argument, one of two parts by the value of a symbol (and a macro whose body has a label made of its parameter), an
instruction of every encoding, operands that only the generic encoder takes, a file that includes itself. A million states. Four lines hold a label, a padding that makes the distance long, a use, and what may come between. Limits of the code
(32 macros deep, 256 definitions) are reached at one or two. An assembly ends, hence no deadlock check.

*Proved* (`AssemblerProofs`), for any lines, include files, options and limits; of the constants nothing is assumed
but that lines are lines and limits numbers (`SourceAssumption`):

* `RowsAreApart`: no word matches two rows of the table, so the order in which `decode` tries them does not matter. Each row is
  reduced to the slices it fixes; the formats are told apart by `op`, the rest by `f3`, `f7` and `rs2`.
* `AssembledReads`: whichever encoder the shape of the operands selects, `decode` gives back the mnemonic, and for the instructions whose
  fields it gives, the number of each register and the whole immediate; of an address given to `add` or `sub`, its
  register only, as said above. The instructions of which `decode` gives the mnemonic only (multiplications, fused operations, float
  comparisons, float loads and stores) are held to that. Under it lies one
  lemma per format (`Imm13Read`, `UpperRead`, `Imm21Read`, ...): slicing a number and joining the slices is the identity within
  the range the encoder lets through, and the guards let nothing else through.
* `SourceIsTyped`: `SourceTypes` is the invariant of the preprocessor. No `.macro` gets into the expanded program,
  what replaces a parameter is an operand, and only files that exist are open.
* `PassesAgree`: `Passes` is the inductive invariant. While the first pass runs, there are records
  `t[0] .. t[m]` of it, each `FirstStep` from the one before. They outlive it: in the second pass line `i` has the scope and,
  by `Second(t, n, i)`, the symbols of record `i`, and all labels besides; and while no floating datum of other than four bytes
  was emitted, line `i` stands at `t[i - 1].pc` and has emitted what it says with those symbols (`Placed`). The step needs
  that the second pass emits as many bytes as the first reckoned, although it sees more symbols: an expression that has a value keeps it when
  symbols are added (`SameValue`), and a padding whose exponent is not known yet stops the first pass.
* `LabelsReached`: where labels, branches and numbers are concerned it says all of `LabelsAreReached`; of each instruction it says
  what `AssembledReads` says. The property speaks of `Known`, which is defined from the source alone, without passes. A function
  recursive over the lines is unique where it exists: that the records satisfy its equation is proved by induction over the set
  of lines at which the two agree.

`Passes` says that records exist, which TLC cannot enumerate; it checks `LabelsAreReached` itself. Left out of
the theorem, as of the property, are the programs of the finding `LabelsAreAtTheirLines`.

*Bounds of the model.* The includes are expanded as lines are read, where the code does so beforehand: only which error comes first
differs. An exponent of `.align` above `MaxExponent` is not tried (the code allocates the padding). `substitute_macro_line` replaces
parameters in the text of a body line: in operands any (`Param`), in labels and mnemonics where the whole word is one (`Holes`); an argument that
takes the place of a label or mnemonic is a plain name.

## Findings

Fifteen configurations that TLC refutes, in a second to a quarter of a minute each: each checks one sentence of the documentation, and its
counterexample is a path of the code. The first two are runs of the project. A change of the code can be checked
against any of them: `tlc -config find_step_out.cfg MCHostDebuggers`.

| configuration | module | property | what the code does, and the sentence it does not keep |
|---|---|---|---|
| `find_project_import` | `MCSnapshotTransfer` | `ProjectImportEnds` | a snapshot is only saved at a breakpoint, whose `mcause` is 3; `poll_rx` keeps every byte 3 for the Ctrl-C request, so the metadata of an exported project never arrive complete (`uart16550.rs:208`); `TUTORIAL-GUEST.md:549`, quoted in PROJECT.json |
| `find_label_drift` | `MCAssembler` | `LabelsAreAtTheirLines` | `line_size` counts every floating datum as four bytes, `float_values` emits two to sixteen: labels below a `.double` are four bytes too low (`assembler/src/lib.rs:2032`); « mêmes bytes avec ou sans labels équivalents » (`BACKLOG.md:890`) |
| `find_lost_word` | `MCGuestDebug` | `TextRecoverable` | `ECALL_EXIT` during a step leaves the temporary EBREAK in the text; the next step records it as the program's word (`main.rs:367`); breakpoints are made « en remplaçant temporairement le mot d’instruction cible » (`TUTORIAL-GUEST.md:608`) |
| `find_break_passed` | `MCGuestDebug` | `ContinueStopsAtBreakpoint` | a refused `stepidp` stays active; the next `continue` passes a breakpoint (`main.rs:276`); `continue` is answered by « trap: breakpoint #1 » (`TUTORIAL-GUEST.md:631-632`) |
| `find_runaway` | `MCGuestDebug` | `RunReturnsToPrompt` | a program that writes a branch over its step's EBREAK is never stopped by `run <count>` (`main.rs:297`); « sinon le moniteur revient au prompt avec `run: budget exhausted` » (`TUTORIAL-GUEST.md:405-408`) |
| `find_watch_crossing` | `MCGuestDebug` | `WatchedAccessStops` | stepping over a breakpoint does not look at the watchpoints (`main.rs:3441`); « évalués avant l’exécution de l’instruction » (`TUTORIAL-GUEST.md:586`) |
| `find_boot_interrupt` | `TrapContext` | `EntersTarget` | a character received inside `enter_user` makes the first `mret` enter the monitor's own text in U-mode (`main.rs:245`); "Interrupt delivery is used while U-mode runs" (`uart16550.rs:4`) |
| `find_monitor_stack` | `TrapContext` | `SavesInContext` | the handler runs on the target's `sp`; when the push faults, the next save goes elsewhere (`entry.S:233`); « Pile privée M-mode », for « trap/IRQ M-mode » (`MEMORY_MAP.md:19`) |
| `find_break_waits` | `UartRx` | `ReadReturnsBreak` | a `read_char` that waits is not woken by Ctrl-C (`uart16550.rs:125`); Ctrl-C « est retourné par `read_char` » (`TUTORIAL-GUEST.md:110-111`) |
| `find_char_swallowed` | `UartRx` | `NothingIsSwallowed` | `read_char` takes a character, then answers the Ctrl-C that came meanwhile (`main.rs:413`); « Les caractères reçus sont ainsi tamponnés » (`TUTORIAL-GUEST.md:76-78`) |
| `find_stale_export` | `MCSnapshotTransfer` | `ExportIsFaithful` | the tool takes `error: unknown command` for a success and exports the slot of an earlier save (`app/src/main.rs:126`); it « exécute `snapshot save`, collecte les blocs » (`TUTORIAL-GUEST.md:543`) |
| `find_step_out` | `MCHostDebuggers` | `StepOutLeaves` | in a recursion step-out stops at the first return to its address (`lib.rs:585`); « `step-out` surveille la profondeur `ra/sp` » (`SPEC.md:214`) |
| `find_remote_step_over` | `MCHostDebuggers` | `StepOverCrosses` | over a remote target step-over ends after one instruction: every step answers `Stopped` (`qemu-backend/src/lib.rs:282-292`); "execute a call and stop at its return address" (`monitor/src/lib.rs:2984`) |
| `find_underflow` | `MCMachineFloat` | `UnderflowAsInTheManual` | the underflow flag follows the result delivered, not the one rounded with an unbounded exponent (`machine/src/lib.rs:1090`); flags « selon R1, chapitre F » (`SPEC.md:190`) |
| `find_offset_lost` | `MCAssembler` | `OffsetsNeverWrap` | `fsw`, `fsd` and the other generated stores take any offset their operand may have and wrap it to twelve bits; an instruction without an offset field drops it (`assembler/src/lib.rs:545`); « Les valeurs hors largeur sont erreurs […], jamais wrap implicite » (`SPEC.md:170`) |

Their instances are those of the passing runs, cut to the case: `find_break_passed` has no services, `find_stale_export` one run of the tool and three
events, the two of the host debuggers a recursive program with longer loops (`MCRecursive`, `MCDeepCommands`). `find_runaway`,
`find_break_waits` and `find_project_import` are liveness under the `FairSpec` of their modules.

More was seen while modelling, and is in the models as the code has it:

* a `run` or `stepidp` refused on its way leaves its count to the next `step`; a jump to itself consumes the
  budget of `run` without retiring (`BudgetKept` states what is kept despite them);
* `run_until_pc` reports the budget exceeded when its last step reaches the target (`lib.rs:584`);
* `assemble-program` loads the text at the image's entry and lists the symbols with the offset of `_start` counted twice
  (`lib.rs:325-336`); one that does not fit leaves a fresh machine under the old tables;
* the console clears its frames on `restore`, `TUTORIAL.md:74` says snapshots hold the call stack; its undo list is bounded
  by fill and copy only; a condition that does not parse uses up a number there and not in the Monitor;
* `Monitor::assemble` stores what fits of a line at the end of memory before it fails;
* a duplicate macro parameter is noticed only next to its twin; `.include` is expanded
  inside a false `.if`; labels and the `.set` of a macro are unknown to `.if`.

## Not modelled

* Wording and layout of what is printed, the parsing of command lines and of assembler lines, the line editors, the
  tokens, the disassembler, the printing of floats: functions of text without state of their own.
* The guest's own assembler: what an accepted program does to memory is in `GuestDebug`.
* MiniBASIC: a U-mode program; `GuestDebug` runs arbitrary ones.
* The depth of the monitor's stack: `monitor_loop` calls itself on every refused resume.
* `_start`, the PMP set-up, the parity, framing and break counters of the UART.
* The packets of the gdb protocol: the client gives up at the first bad one, which `HostConsole` has as a lost link.
* Multiplication, division, square root, fused operations and binary16 and binary128 of the machine: their
  results pass through the rounding modelled, their own arithmetic is large numbers. Atomics, vector and system instructions of machine
  and assembler.
* CRC-32: `Checksum` is one that tells the instance's files apart by position and value; collisions are no property of the code.
