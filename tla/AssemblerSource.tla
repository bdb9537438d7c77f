---------------------------- MODULE AssemblerSource ----------------------------
(***************************************************************************)
(* What the host assembler does to a source text before its two passes     *)
(* (crates/assembler): included files, conditional assembly, macro         *)
(* definitions and their expansion, one line per step.                     *)
(*                                                                         *)
(* A line is a record: its labels, its mnemonic ("none" for a label alone) *)
(* and its operands, which the parser (not modelled) gives.  The main text *)
(* is any sequence of at most MaxLines lines of Pool, chosen as it is      *)
(* read.  The code expands every include before it looks at any other      *)
(* line; here both happen as the lines are read, which differs only in     *)
(* which error is reported first.                                          *)
(***************************************************************************)
EXTENDS Integers, Sequences, FiniteSets, SequencesExt

CONSTANTS Pool,              \* the lines a main text is made of
          MaxLines,          \* bound: lines of the main text
          Files,             \* name -> [lines, bytes]: what lies below the include roots
          Options,           \* sets of assembler options
          Holes,             \* a word \p in the place of a label or a mnemonic -> its parameter p
          LocalNames,        \* the names that start with ".L"
          MaxDefinitions,    \* MAX_MACRO_DEFINITIONS (256)
          MaxBody,           \* MAX_MACRO_BODY_LINES (4096)
          MaxParameters,     \* MAX_MACRO_PARAMETERS (32)
          MaxMacroDepth,     \* MAX_MACRO_DEPTH (32)
          MaxExpanded,       \* MAX_EXPANDED_LINES (65536)
          MaxConditional,    \* MAX_CONDITIONAL_DEPTH (32)
          MaxIncludeDepth, MaxIncludeBytes, MaxIncludeFiles

(* What the parser gives: operands, and lines of them; the operands of     *)
(* .macro are its name and its parameters.                                 *)
Operand ==
  [t : {"reg"}, file : {"x", "f"}, n : Nat] \cup [t : {"expr"}, sym : STRING, plus : Int] \cup
  [t : {"mem"}, sym : STRING, plus : Int, base : Nat] \cup [t : {"text"}, word : STRING, len : Nat] \cup
  [t : {"pattern"}, width : Nat] \cup [t : {"param"}, name : STRING]
Statement == [labels : Seq(STRING), m : STRING \ {".macro"}, ops : Seq(Operand)]
Header == [labels : Seq(STRING), m : {".macro"}, ops : Seq(STRING)]
ParsedLine == Header \cup Statement

ASSUME SourceAssumption ==
  /\ Pool \subseteq ParsedLine
  /\ \A name \in DOMAIN Files : Files[name].lines \in Seq(ParsedLine)
  /\ \A word \in DOMAIN Holes : word \in STRING /\ Holes[word] \in STRING
  /\ {MaxLines, MaxDefinitions, MaxBody, MaxParameters, MaxMacroDepth, MaxExpanded, MaxConditional} \subseteq Nat
  /\ {MaxIncludeDepth, MaxIncludeBytes, MaxIncludeFiles} \subseteq Nat

VARIABLES stage,       \* "new", "read", "expand", "collect", "emit", "done" or "failed"
          options,
          include,     \* the open files, and what was loaded so far
          macros,      \* the definitions, the one being read, the nesting of a skipped one
          branches,    \* the open .if, and the symbols that .if can see
          pending,     \* retained lines, each with the macros it comes out of
          lines        \* the expanded program

sourceVars == <<stage, options, include, macros, branches, pending, lines>>

Nothing == [k \in {} |-> k]
NoMacro == [name |-> "none"]
NoOptions == [roots |-> {}]

\* Operands
Reg(file, n)        == [t |-> "reg", file |-> file, n |-> n]
Expr(sym, plus)     == [t |-> "expr", sym |-> sym, plus |-> plus]
Mem(sym, plus, base) == [t |-> "mem", sym |-> sym, plus |-> plus, base |-> base]
Text(word, len)     == [t |-> "text", word |-> word, len |-> len]
Pattern(width)      == [t |-> "pattern", width |-> width]
Param(name)         == [t |-> "param", name |-> name]
Line(labels, m, ops) == [labels |-> labels, m |-> m, ops |-> ops]

-----------------------------------------------------------------------------
(* Symbols.  A local name belongs to the last global label above it.       *)

Key(name, global) == IF name \in LocalNames THEN <<global, name>> ELSE <<"", name>>
Unscoped(name, global) == name \in LocalNames /\ global = ""

\* A label alone or several; a local one needs a global one before it.
GlobalLabels(labels) == {i \in DOMAIN labels : labels[i] \notin LocalNames}
LastGlobal(labels) == labels[Max(GlobalLabels(labels))]
ScopeAfter(labels, global) == IF GlobalLabels(labels) = {} THEN global ELSE LastGlobal(labels)
ScopeFails(labels, global) ==
  \E i \in DOMAIN labels : Unscoped(labels[i], ScopeAfter(SubSeq(labels, 1, i - 1), global))

\* An expression is a symbol plus a number; scope gives the symbol's key.
HasValue(e, values, global) ==
  e.t \in {"expr", "mem"} /\ (e.sym = "" \/ Key(e.sym, global) \in DOMAIN values)
ValueOf(e, values, global) ==
  IF e.sym = "" THEN e.plus ELSE e.plus + values[Key(e.sym, global)]

Put(f, k, v) == [x \in DOMAIN f \cup {k} |-> IF x = k THEN v ELSE f[x]]

\* .equ and .set
Defines(line) == line.m \in {".equ", ".set"}
WellFormed(line) == Len(line.ops) = 2 /\ line.ops[1].t = "expr" /\ line.ops[2].t = "expr"
DefinedKey(line, global) == Key(line.ops[1].sym, global)

DefinitionFails(line, global, labels, values, equs) ==
  /\ Defines(line)
  /\ \/ ~WellFormed(line)
     \/ Unscoped(line.ops[1].sym, global)
     \/ LET key == DefinedKey(line, global) IN
        \/ key \in labels
        \/ IF line.m = ".equ" THEN key \in DOMAIN values ELSE key \in DOMAIN equs
     \/ ~HasValue(line.ops[2], values, global)

Define(line, global, values, f) ==
  IF Defines(line) THEN Put(f, DefinedKey(line, global), ValueOf(line.ops[2], values, global)) ELSE f

-----------------------------------------------------------------------------
Clear ==
  /\ include' = [open |-> <<>>, read |-> 0, files |-> 0, bytes |-> 0]
  /\ macros' = [known |-> Nothing, active |-> NoMacro, skipped |-> 0]
  /\ branches' = [frames |-> <<>>, values |-> Nothing, equs |-> Nothing, global |-> ""]
  /\ options' = NoOptions

\* An error ends the assembly; nothing of the program is left.
Fail == stage' = "failed" /\ Clear /\ pending' = <<>> /\ lines' = <<>>

SourceInit ==
  /\ stage = "new" /\ options = NoOptions
  /\ include = [open |-> <<>>, read |-> 0, files |-> 0, bytes |-> 0]
  /\ macros = [known |-> Nothing, active |-> NoMacro, skipped |-> 0]
  /\ branches = [frames |-> <<>>, values |-> Nothing, equs |-> Nothing, global |-> ""]
  /\ pending = <<>> /\ lines = <<>>

\* The limits may only be lowered, the roots must be directories, and the
\* source file must lie below one of them.
OptionsFail(o) ==
  \/ o.depth \notin 1 .. MaxIncludeDepth
  \/ o.bytes \notin 1 .. MaxIncludeBytes
  \/ o.files \notin 1 .. MaxIncludeFiles
  \/ \E r \in o.roots : r = "missing"
  \/ o.roots # {} /\ o.base = "outside"

Start ==
  /\ stage = "new"
  /\ \E o \in Options :
       IF OptionsFail(o) THEN Fail
       ELSE /\ stage' = "read" /\ options' = o
            /\ include' = [include EXCEPT !.open = <<[file |-> o.source, next |-> 1]>>]
            /\ UNCHANGED <<macros, branches, pending, lines>>

-----------------------------------------------------------------------------
(* Included files *)

Depth == Len(include.open) - 1
Top == include.open[Depth + 1]
Active(file) == \E i \in DOMAIN include.open : include.open[i].file = file

Read == IF Depth = 0 THEN [include EXCEPT !.read = @ + 1]
        ELSE [include EXCEPT !.open[Depth + 1].next = @ + 1]

\* The name was found, below a root, and is not already open.
Resolves(file) ==
  /\ options.roots # {}
  /\ Depth + 1 <= options.depth
  /\ file \in DOMAIN Files
  /\ ~Active(file)

IncludeFails(line) ==
  \/ Len(line.ops) # 1 \/ line.ops[1].t # "text"
  \/ ~Resolves(line.ops[1].word)
  \/ include.files >= options.files
  \/ include.bytes + Files[line.ops[1].word].bytes > options.bytes

Include(line) ==
  IF IncludeFails(line) THEN Fail
  ELSE /\ include' = [Read EXCEPT !.open = Append(@, [file |-> line.ops[1].word, next |-> 1]),
                                  !.files = @ + 1,
                                  !.bytes = @ + Files[line.ops[1].word].bytes]
       /\ UNCHANGED <<stage, options, macros, branches, pending, lines>>

EndOfFile ==
  /\ stage = "read" /\ Depth > 0 /\ Top.next > Len(Files[Top.file].lines)
  /\ include' = [include EXCEPT !.open = SubSeq(@, 1, Depth)]
  /\ UNCHANGED <<stage, options, macros, branches, pending, lines>>

-----------------------------------------------------------------------------
(* Conditionals and macro definitions: the tests one line goes through, in *)
(* their order.                                                            *)

Conditionals == {".if", ".else", ".endif"}
Frames == branches.frames
AllActive == \A i \in DOMAIN Frames : Frames[i].branch

Keep(m, b, p) == /\ macros' = m /\ branches' = b /\ pending' = p
                 /\ include' = Read /\ UNCHANGED <<stage, options, lines>>
Drop == Keep(macros, branches, pending)

Skipping(line) ==
  Keep([macros EXCEPT !.skipped = CASE line.m = ".macro" -> @ + 1
                                    [] line.m = ".endm" -> @ - 1
                                    [] OTHER -> @], branches, pending)

InMacro(line) ==
  LET d == macros.active IN
  IF line.m = ".endm"
  THEN Keep([macros EXCEPT !.active = NoMacro,
                           !.known = Put(@, d.name, [params |-> d.params, body |-> d.body])], branches, pending)
  ELSE IF line.m \in {".macro"} \cup Conditionals \/ Len(d.body) >= MaxBody THEN Fail
  ELSE Keep([macros EXCEPT !.active.body = Append(@, line)], branches, pending)

\* A condition is evaluated only where the enclosing branches are active.
If(line) ==
  LET wanted == AllActive IN
  IF \/ line.ops = <<>>
     \/ Len(Frames) >= MaxConditional
     \/ wanted /\ ~HasValue(line.ops[1], branches.values, branches.global)
  THEN Fail
  ELSE LET holds == wanted /\ ValueOf(line.ops[1], branches.values, branches.global) # 0 IN
       Keep(macros, [branches EXCEPT !.frames =
              Append(@, [parent |-> wanted, holds |-> holds, branch |-> wanted /\ holds, else |-> FALSE])], pending)

Else(line) ==
  IF line.ops # <<>> \/ Frames = <<>> \/ (Frames # <<>> /\ Last(Frames).else) THEN Fail
  ELSE Keep(macros, [branches EXCEPT !.frames[Len(Frames)].else = TRUE,
                                     !.frames[Len(Frames)].branch = Last(Frames).parent /\ ~Last(Frames).holds], pending)

EndIf(line) ==
  IF line.ops # <<>> \/ Frames = <<>> THEN Fail
  ELSE Keep(macros, [branches EXCEPT !.frames = Front(@)], pending)

\* .macro in an inactive branch is skipped up to its .endm.  Two equal
\* parameters are noticed only side by side.
HeaderFails(line) ==
  \/ line.ops = <<>>
  \/ LET params == Tail(line.ops) IN
     \/ Len(params) > MaxParameters
     \/ \E i \in 1 .. Len(params) - 1 : params[i] = params[i + 1]
     \/ Head(line.ops) \in DOMAIN macros.known
     \/ Cardinality(DOMAIN macros.known) >= MaxDefinitions

MacroHeader(line) ==
  IF ~AllActive THEN Keep([macros EXCEPT !.skipped = 1], branches, pending)
  ELSE IF HeaderFails(line) THEN Fail
  ELSE Keep([macros EXCEPT !.active = [name |-> Head(line.ops), params |-> Tail(line.ops), body |-> <<>>]],
            branches, pending)

\* A line that stays.  Its constants become visible to the next .if; its
\* labels only move the scope.
Retain(line) ==
  LET b == branches  global == ScopeAfter(line.labels, b.global)
      looked == line.labels # <<>> \/ Defines(line)
  IN IF looked /\ (ScopeFails(line.labels, b.global) \/ DefinitionFails(line, global, {}, b.values, b.equs))
     THEN Fail
     ELSE Keep(macros,
               [b EXCEPT !.global = global,
                         !.values = Define(line, global, b.values, @),
                         !.equs = IF line.m = ".equ" THEN Define(line, global, b.values, @) ELSE @],
               Append(pending, [line |-> line, under |-> <<>>]))

Preprocess(line) ==
  CASE macros.skipped # 0 -> Skipping(line)
    [] macros.skipped = 0 /\ macros.active # NoMacro -> InMacro(line)
    [] OTHER -> CASE line.m = ".if"    -> If(line)
                  [] line.m = ".else"  -> Else(line)
                  [] line.m = ".endif" -> EndIf(line)
                  [] line.m = ".macro" -> MacroHeader(line)
                  [] line.m = ".endm"  -> Fail
                  [] OTHER -> IF AllActive THEN Retain(line) ELSE Drop

\* Includes are expanded even where everything else is skipped.
Take(line) == IF line.m = ".include" THEN Include(line) ELSE Preprocess(line)

ReadMain == stage = "read" /\ Depth = 0 /\ include.read < MaxLines /\ \E line \in Pool : Take(line)
ReadIncluded == /\ stage = "read" /\ Depth > 0 /\ Top.next <= Len(Files[Top.file].lines)
                /\ Take(Files[Top.file].lines[Top.next])

EndOfSource ==
  /\ stage = "read" /\ Depth = 0
  /\ IF macros.active # NoMacro \/ macros.skipped # 0 \/ Frames # <<>> THEN Fail
     ELSE /\ stage' = "expand"
          /\ include' = [open |-> <<>>, read |-> 0, files |-> 0, bytes |-> 0]
          /\ branches' = [frames |-> <<>>, values |-> Nothing, equs |-> Nothing, global |-> ""]
          /\ options' = NoOptions
          /\ UNCHANGED <<macros, pending, lines>>

-----------------------------------------------------------------------------
(* Macro expansion, depth first *)

Replace(op, params, args) ==
  IF op.t = "param" /\ \E i \in DOMAIN params : params[i] = op.name
  THEN args[CHOOSE i \in DOMAIN params : params[i] = op.name] ELSE op

\* The argument in the place of a label or a mnemonic is a plain name here.
PlainName(op) == op.t = "expr" /\ op.plus = 0 /\ op.sym \notin {"", "none", ".macro"}
Filler(word, params, args) ==
  {i \in DOMAIN params \cap DOMAIN args : word \in DOMAIN Holes /\ params[i] = Holes[word] /\ PlainName(args[i])}
Named(word, params, args) ==
  IF Filler(word, params, args) = {} THEN word ELSE args[CHOOSE i \in Filler(word, params, args) : TRUE].sym

\* The argument takes the place of its parameter anywhere in the line.
Substitute(line, params, args) ==
  [labels |-> [i \in DOMAIN line.labels |-> Named(line.labels[i], params, args)],
   m |-> Named(line.m, params, args),
   ops |-> [i \in DOMAIN line.ops |-> Replace(line.ops[i], params, args)]]

\* What the parser refuses of a line that is expanded.
Unparsed(line) == line.m \in DOMAIN Holes \/ \E i \in DOMAIN line.labels : line.labels[i] \in DOMAIN Holes

\* The first word of a line that has no label may be the name of a macro,
\* even the name of an instruction.
Invokes(line) == line.labels = <<>> /\ line.m \in DOMAIN macros.known

Expand ==
  /\ stage = "expand" /\ pending # <<>>
  /\ LET p == Head(pending)  line == p.line IN
     IF ~Invokes(line)
     THEN IF Len(lines) >= MaxExpanded \/ Unparsed(line) THEN Fail
          ELSE /\ lines' = Append(lines, line) /\ pending' = Tail(pending)
               /\ UNCHANGED <<stage, options, include, macros, branches>>
     ELSE LET d == macros.known[line.m]
              entry(l) == [line |-> Substitute(l, d.params, line.ops), under |-> Append(p.under, line.m)]
          IN IF \/ \E i \in DOMAIN p.under : p.under[i] = line.m
                \/ Len(p.under) >= MaxMacroDepth
                \/ Len(line.ops) # Len(d.params)
             THEN Fail
             ELSE /\ pending' = [i \in 1 .. Len(d.body) |-> entry(d.body[i])] \o Tail(pending)
                  /\ UNCHANGED <<stage, options, include, macros, branches, lines>>

Expanded ==
  /\ stage = "expand" /\ pending = <<>>
  /\ stage' = "collect" /\ Clear /\ UNCHANGED <<pending, lines>>

SourceNext == Start \/ ReadMain \/ ReadIncluded \/ EndOfFile \/ EndOfSource \/ Expand \/ Expanded
=============================================================================
