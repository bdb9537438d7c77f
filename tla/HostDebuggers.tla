----------------------------- MODULE HostDebuggers -----------------------------
(***************************************************************************)
(* The two host debuggers given the same commands: the Monitor that owns   *)
(* its machine, and the BackendConsole over the same kind of machine or    *)
(* over a remote one.  crates/monitor keeps both (the second is to replace *)
(* the first) with every operation written twice; this module says what    *)
(* each must guarantee and where they must agree.                          *)
(***************************************************************************)
EXTENDS HostMonitor

CONSTANTS Commands,        \* what may be typed
          Budget,          \* how many commands of each class: "load", "stop", "run", "edit", "file"
          Class(_),        \* the class of a command
          MaxCommands,     \* and how many in all
          Opening,         \* the classes of the first command
          Earlier,         \* the program of the project an earlier run may have left on the disk
          TrapVector

\* The counts of fill and copy are parsed as unsigned numbers.
ASSUME CommandsAssumption == \A c \in Commands : c.name \in {"fill", "copy"} => c.count \in Nat

\* The variables of the console.
VARIABLES remote, link, cache, cmachine, csource, csymbols, cundo, cbreaks, cwatches, cids,
          chistory, csequence, cframes, ctask, csaid, cdisk

\* What the model remembers to state the properties.
VARIABLES spent,           \* commands typed so far, by class
          typed,           \* and in all
          parted,          \* a command on which the two differ by design was typed
          torn,            \* what belongs to a machine that a failed load has replaced: the
                           \* "history", the "frames", the frames in the "snapshot" or "project" file
          adrift           \* the console's frames were loaded or cleared apart from its target

C == INSTANCE HostConsole WITH
       machine <- cmachine, source <- csource, symbols <- csymbols, undo <- cundo,
       breaks <- cbreaks, watches <- cwatches, ids <- cids, history <- chistory,
       sequence <- csequence, frames <- cframes, task <- ctask, said <- csaid, disk <- cdisk

consoleVars == <<remote, link, cache, cmachine, csource, csymbols, cundo, cbreaks, cwatches, cids,
                 chistory, csequence, cframes, ctask, csaid, cdisk>>
notes   == <<spent, typed, parted, torn, adrift>>
allVars == <<vars, consoleVars, notes>>

\* An earlier run loaded its program, set two breakpoints, deleted the first
\* and saved its project.
EarlierProject ==
  [kind |-> "project", source |-> Earlier,
   snapshot |-> [kind |-> "snapshot", symbols |-> Earlier, frames |-> <<>>,
                 machine |-> [NewMachine EXCEPT !.mem = Load(@, 0, Programs[Earlier].words)],
                 breaks |-> [at \in {1} |-> 2], conditions |-> EmptyFunction,
                 watches |-> EmptyFunction, ids |-> [break |-> 3, watch |-> 1]]]
EarlierSession ==
  [kind |-> "session", source |-> Earlier, symbols |-> Earlier, frames |-> <<>>,
   breaks |-> [at \in {1} |-> [id |-> 2, condition |-> "always"]],
   watches |-> EmptyFunction, ids |-> [break |-> 3, watch |-> 1]]

DebugInit == /\ Init /\ C!Init
             /\ \/ /\ disk  = [snapshot |-> NoFile, project |-> NoFile]
                   /\ cdisk = [snapshot |-> NoFile, project |-> NoFile]
                \/ /\ disk  = [snapshot |-> NoFile, project |-> EarlierProject]
                   /\ cdisk = [snapshot |-> NoFile, project |-> EarlierSession]
             /\ spent = [k \in DOMAIN Budget |-> 0] /\ typed = 0
             /\ parted = remote /\ torn = {} /\ adrift = FALSE

\* Where the two are not meant to agree: the Monitor loads a program at its
\* own entry on a fresh machine, "set" and "reset" are its own, files hold
\* different things, numbers are used differently for a condition that does
\* not parse, and only fill and copy bound the console's undo list.
PartsWays(c) ==
  \/ c.name \in {"set", "reset", "restore", "project-load"}
  \/ c.name = "assemble-program" /\ (\/ machine # NewMachine \/ undo # <<>>
                                     \/ DOMAIN breaks \cup DOMAIN watches # {}
                                     \/ c.program \notin DOMAIN Programs
                                     \/ Programs[c.program].start # 0
                                     \/ ~Fits(0, Programs[c.program].words))
  \/ c.name = "assemble" /\ c.line \in DOMAIN Lines /\ ~Fits(machine.pc, Lines[c.line])
  \/ c.name = "break" /\ c.condition = "malformed"
  \/ c.name = "edit" /\ Len(cundo) >= MaxUndo

\* assemble-program may fail with the new machine already in place: the tables
\* are then the old one's.  The frames go into a file and out of it as they are.
Copied(things, from, to) == IF from \in things THEN things \cup {to} ELSE things \ {to}

TornAfter(c, answer) ==
  CASE c.name = "assemble-program" /\ answer # "ok" /\ c.program \in DOMAIN Programs
                                   -> torn \cup {"history", "frames"}
    [] c.name \in {"assemble-program", "reset"} /\ answer = "ok"
                                   -> torn \ {"history", "frames"}
    [] c.name = "restore" /\ answer = "ok"
                                   -> Copied(torn \ {"history"}, "snapshot", "frames")
    [] c.name = "project-load" /\ answer = "ok"
                                   -> Copied(torn \ {"history"}, "project", "frames")
    [] c.name = "snapshot"         -> Copied(torn, "frames", "snapshot")
    [] c.name = "project-save"     -> Copied(torn, "frames", "project")
    [] OTHER                       -> torn

Type(c) ==
  /\ spent[Class(c)] < Budget[Class(c)]
  /\ typed = 0 => Class(c) \in Opening
  /\ typed < MaxCommands /\ typed' = typed + 1
  /\ Execute(c) /\ C!Execute(c)
  /\ spent'  = [spent EXCEPT ![Class(c)] = @ + 1]
  /\ parted' = (parted \/ PartsWays(c))
  /\ torn'   = TornAfter(c, said')
  /\ adrift' = (adrift \/ c.name \in {"restore", "project-load"})

\* Each runs its command to the end before it reads the next.  The two share
\* nothing, so they take their turns together as long as both are running.
TakeTurns == /\ \/ Turns /\ C!Turns
                \/ Turns /\ C!Ready /\ UNCHANGED consoleVars
                \/ Ready /\ UNCHANGED vars /\ C!Turns
             /\ UNCHANGED notes
LinkLost    == Ready /\ C!Ready /\ C!LinkLost /\ UNCHANGED <<vars, notes>>

DebugNext == (\E c \in Commands : Type(c)) \/ TakeTurns \/ LinkLost
DebugSpec == DebugInit /\ [][DebugNext]_allVars

-----------------------------------------------------------------------------
\* A run executes an instruction whose breakpoint holds only as the very first
\* instruction of a command that resumes from it (continue, step-over,
\* step-out), never later and never in a plain run, in either debugger.
PassesBreakpoint(t, m, holds) ==
  holds /\ ~(t.op \in {"continue", "step-over", "step-out"} /\ m.count = t.began)

BreakpointsStop ==
  [][/\ machine'.count > machine.count /\ task.kind \in {"run", "until"}
          => ~PassesBreakpoint(task, machine,
                               machine.pc \in DOMAIN breaks /\ Condition(machine.pc) = "holds")
     /\ cmachine'.count > cmachine.count /\ ctask.kind \in {"run", "until"}
          => ~PassesBreakpoint(ctask, cmachine,
                               cmachine.pc \in DOMAIN cbreaks /\ C!Condition(cmachine.pc) = "holds")
    ]_allVars

\* The history is one unbroken path that ends where the target is, whatever
\* was loaded, restored, reset or forgotten at its limit in between.  A load
\* that failed half way is the one exception.
IsPath(h, pc) == /\ \A k \in 1 .. Len(h) - 1 : /\ h[k].after = h[k + 1].before
                                               /\ h[k + 1].sequence = h[k].sequence + 1
                 /\ h # <<>> => h[Len(h)].after = pc

HistoryIsPath == /\ "history" \notin torn => IsPath(history, machine.pc)
                 /\ "history" \notin torn /\ history # <<>> => history[Len(history)].sequence = machine.count
                 /\ IsPath(chistory, cmachine.pc)

\* The frames shown are the calls the program is inside, through every save,
\* restore and reset of the Monitor; in the console as long as no file set
\* them apart from the target.
FramesAreCalls ==
  /\ "frames" \notin torn /\ ~machine.indirect => frames = machine.live
  /\ ~remote /\ ~adrift /\ ~cmachine.indirect => cframes = cmachine.live

\* A step-over or step-out that reports its address has come out of the calls
\* it had to come out of, unless the same call is still open further out.
Returned(t, m) ==
  \/ \E k \in DOMAIN m.live : m.live[k].return_pc = t.target
  \/ Len(m.live) = (IF t.op = "step-over" THEN t.depth ELSE t.depth - 1)

StepsReturn ==
  [][/\ task.kind = "until" /\ said' = task.op /\ ~machine.indirect /\ "frames" \notin torn
          => Returned(task, machine)
     /\ ctask.kind = "until" /\ csaid' = ctask.op /\ ~cmachine.indirect /\ ~adrift
          => Returned(ctask, cmachine)
    ]_allVars

\* Given the same commands the two debuggers are in the same state, after each
\* turn of a command as after each command.
SameDebugger ==
  ~parted =>
    /\ Ready <=> C!Ready
    /\ cmachine = machine /\ csource = source /\ csymbols = symbols
    /\ cframes = frames /\ cundo = undo /\ cwatches = watches
    /\ Len(chistory) = Len(history)
    /\ \A k \in DOMAIN history : chistory[k].before = history[k].before
    /\ DOMAIN cbreaks = DOMAIN breaks
    /\ \A at \in DOMAIN breaks : /\ cbreaks[at].id = breaks[at]
                                 /\ C!Condition(at) = Condition(at)

\* No number is given twice: the tables and the next numbers agree, also after
\* files saved at different times are loaded in any order.
IdsAreFresh ==
  /\ \A a, b \in DOMAIN breaks : breaks[a] < ids.break /\ (breaks[a] = breaks[b] => a = b)
  /\ \A a, b \in DOMAIN cbreaks : /\ cbreaks[a].id < cids.break
                                  /\ cbreaks[a].id = cbreaks[b].id => a = b
  /\ \A id \in DOMAIN watches  : id < ids.watch
  /\ \A id \in DOMAIN cwatches : id < cids.watch

\* What the help, the tutorial and the specification say and the code does not do.

\* docs/SPEC.md: step-out watches the depth of the calls.
StepOutLeaves ==
  [][task.kind = "until" /\ task.op = "step-out" /\ said' = "step-out" /\ ~machine.indirect
       => Len(machine.live) < task.depth]_allVars

\* backend_help: step-over executes a call and stops at its return address.
StepOverCrosses ==
  [][ctask.kind = "until" /\ ctask.op = "step-over" /\ ctask' # ctask
        /\ link = "up" /\ csaid' = "stopped" /\ DOMAIN cbreaks = {} /\ DOMAIN cwatches = {}
       => cmachine'.pc = ctask.target]_allVars
=============================================================================
