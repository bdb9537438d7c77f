------------------------------- MODULE Assembler -------------------------------
(***************************************************************************)
(* The two passes of the host assembler over the expanded program          *)
(* (crates/assembler, assemble_program_with_options).  The first gives     *)
(* every label its address by counting the bytes each line will emit; the  *)
(* second emits them.  Only the code of line_size and of the encoders      *)
(* makes the two counts agree.                                             *)
(***************************************************************************)
EXTENDS AssemblerSource, Isa

VARIABLES cursor,     \* of the current pass: next line, pc, last global label
          table,      \* what the first pass found
          image       \* what the second pass emitted

vars == <<sourceVars, cursor, table, image>>

TopOfProgram == [index |-> 1, pc |-> 0, global |-> ""]
NoAddress == -1
Section(name, flags) ==
  [name |-> name, flags |-> flags, address |-> NoAddress, alignment |-> 1, bytes |-> 0]
DefaultSections == <<Section(".text", "ax")>>
NoTable == [symbols |-> Nothing, values |-> Nothing, constants |-> Nothing, equs |-> Nothing,
            sections |-> DefaultSections]
NoImage == [listing |-> <<>>, sections |-> DefaultSections, section |-> 1, values |-> Nothing]

-----------------------------------------------------------------------------
(* One instruction.  env holds the symbols and the scope they are read in; *)
(* 32 stands for an operand that is no register of the file wanted, which  *)
(* no encoder accepts.                                                     *)

Env(values, global) == [values |-> values, global |-> global]
X(o) == IF o.t = "reg" /\ o.file = "x" THEN o.n ELSE 32
F(o) == IF o.t = "reg" /\ o.file = "f" THEN o.n ELSE 32
Value(o, env) == ValueOf(o, env.values, env.global)
IsImmediate(o, low, high, env) ==
  o.t = "expr" /\ HasValue(o, env.values, env.global) /\ Value(o, env) \in low .. high
IsMemory(o, env) ==
  o.t = "mem" /\ HasValue(o, env.values, env.global) /\ Value(o, env) \in -(2^15) .. 2^15 - 1

IntegerResult  == ToInteger \cup {"fmv.x.w", "fmv.x.d", "feq.s"}
IntegerOperand == FromInteger \cup {"fmv.w.x", "fmv.d.x"}

\* The generic encoder takes every register for a floating one, except where
\* the mnemonic says otherwise.
GeneratedRegisterIsFloat(m, field) ==
  ~(field = "rd" /\ m \in IntegerResult) /\ ~(field = "rs1" /\ m \in IntegerOperand)
GeneratedRegister(o, float) == IF float THEN F(o) ELSE X(o)

\* A value that its field cannot hold spoils the word; -1 fits none.
FieldWidth(field) ==
  CASE field = "rm" -> 3 [] field = "imm12" -> 12 [] field = "imm12hi" -> 7 [] OTHER -> 5
EncodeGeneratedField(w, field, v) ==
  IF w = NoWord \/ v \notin 0 .. 2^FieldWidth(field) - 1 THEN NoWord
  ELSE CASE field \in {"rd", "imm12lo"} -> [w EXCEPT !.rd = v]
         [] field = "rs1"     -> [w EXCEPT !.rs1 = v]
         [] field = "rs2"     -> [w EXCEPT !.rs2 = v]
         [] field = "rs3"     -> [w EXCEPT !.f7 = @ + 4 * v]
         [] field = "rm"      -> [w EXCEPT !.f3 = v]
         [] field = "imm12"   -> [w EXCEPT !.f7 = v \div 32, !.rs2 = v % 32]
         [] field = "imm12hi" -> [w EXCEPT !.f7 = v]

\* imm(register), for any row: rd and rs2 are both the first operand, the
\* halves of a store offset are cut out of it unchecked, and a row without a
\* field for the offset loses it.
GeneratedMemoryField(field, o, offset) ==
  CASE field \in {"rd", "rs2"} -> F(o[1])
    [] field = "rs1"     -> X(Reg("x", o[2].base))
    [] field = "imm12"   -> IF offset \in -(2^11) .. 2^11 - 1 THEN Bits(offset, 11, 0) ELSE -1
    [] field = "imm12hi" -> Bits(offset, 11, 5)
    [] field = "imm12lo" -> Bits(offset, 4, 0)
    [] OTHER -> -1

\* One operand per field; a rounding mode that is left out is dynamic.
GeneratedField(m, field, o, i, env) ==
  CASE field \in {"rd", "rs1", "rs2", "rs3"} -> GeneratedRegister(o[i], GeneratedRegisterIsFloat(m, field))
    [] field = "rm" /\ i > Len(o) -> 7
    [] field = "rm" /\ i <= Len(o) -> IF IsImmediate(o[i], 0, 7, env) THEN Value(o[i], env) ELSE -1
    [] field = "imm12" -> IF IsImmediate(o[i], -(2^11), 2^11 - 1, env) THEN Bits(Value(o[i], env), 11, 0) ELSE -1
    [] OTHER -> -1

\* The fields of a row put into its word from the first to the last.
WithFields(m, values) ==
  LET word[i \in 0 .. Len(Fields(m))] ==
        IF i = 0 THEN Match(m) ELSE EncodeGeneratedField(word[i - 1], Fields(m)[i], values[i])
  IN word[Len(Fields(m))]

HasMemory(o) == \E i \in 1 .. Len(o) : o[i].t = "mem"

EncodeGeneratedInstruction(m, o, env) ==
  LET fields == Fields(m)  n == Len(fields) IN
  IF HasMemory(o)
  THEN IF Len(o) # 2 \/ ~IsMemory(o[2], env) THEN NoWord
       ELSE WithFields(m, [i \in 1 .. n |-> GeneratedMemoryField(fields[i], o, Value(o[2], env))])
  ELSE IF Len(o) \notin (IF fields[n] = "rm" THEN {n - 1, n} ELSE {n}) THEN NoWord
  ELSE WithFields(m, [i \in 1 .. n |-> GeneratedField(m, fields[i], o, i, env)])

\* An instruction goes to its own encoder if it has as many operands as that
\* one takes, and with any other number to the generic one.
AssembleFloat(line, env) ==
  LET m == line.m  o == line.ops  n == Len(o)
      rd == GeneratedRegister(o[1], m \notin IntegerResult)
      rs1 == GeneratedRegister(o[2], m \notin IntegerOperand)
  IN CASE m \in {"fadd.s", "fadd.d"} /\ n = 3
            -> EncodeFr(m, [rd |-> F(o[1]), rs1 |-> F(o[2]), rs2 |-> F(o[3]), rm |-> 7])
       [] Form(m) = "move" /\ n = 2 -> EncodeFMove(m, [rd |-> rd, rs1 |-> rs1])
       [] Form(m) = "convert" /\ n = 2 -> EncodeFConvert(m, [rd |-> rd, rs1 |-> rs1, rm |-> 7])
       [] OTHER -> EncodeGeneratedInstruction(m, o, env)

Checked(accepted, w) == IF accepted THEN w ELSE NoWord

AssembleInstruction(line, env) ==
  LET m == line.m  o == line.ops  n == Len(o)  form == IF m \in DOMAIN Opcodes THEN Form(m) ELSE "none"
      imm(i) == Value(o[i], env)
  IN CASE form = "addi" /\ n = 3
            -> Checked(IsImmediate(o[3], -(2^15), 2^15 - 1, env),
                       EncodeAddi([rd |-> X(o[1]), rs1 |-> X(o[2]), imm |-> imm(3)]))
       [] m \in {"add", "sub"} /\ n = 3
            -> EncodeRType(m, [rd |-> X(o[1]), rs1 |-> X(o[2]), rs2 |-> X(o[3])])
       [] form = "u" /\ n = 2
            -> Checked(IsImmediate(o[2], 0, 2^20 - 1, env), EncodeU(m, [rd |-> X(o[1]), imm |-> imm(2)]))
       [] form = "load" /\ n = 2
            -> Checked(IsMemory(o[2], env), EncodeLoad(m, [rd |-> X(o[1]), rs1 |-> o[2].base, imm |-> imm(2)]))
       [] form = "store" /\ n = 2
            -> Checked(IsMemory(o[2], env), EncodeStore(m, [rs2 |-> X(o[1]), rs1 |-> o[2].base, imm |-> imm(2)]))
       [] form = "branch" /\ n = 3
            -> Checked(IsImmediate(o[3], -(2^15), 2^15 - 1, env),
                       EncodeBranch(m, [rs1 |-> X(o[1]), rs2 |-> X(o[2]), imm |-> imm(3)]))
       [] form = "jal" /\ n = 2
            -> Checked(o[2].t = "expr" /\ HasValue(o[2], env.values, env.global),
                       EncodeJal([rd |-> X(o[1]), imm |-> imm(2)]))
       [] form = "jalr" /\ n = 2
            -> Checked(IsMemory(o[2], env), EncodeJalr([rd |-> X(o[1]), rs1 |-> o[2].base, imm |-> imm(2)]))
       [] OTHER -> IF form = "none" THEN NoWord ELSE AssembleFloat(line, env)

-----------------------------------------------------------------------------
(* What a line emits: its length, and the word if it is an instruction.    *)

Emits(n) == [len |-> n, word |-> NoWord, data |-> <<>>]
Wrong == Emits(-1)
DataWidth(m) == CASE m = ".byte" -> 1 [] m = ".half" -> 2 [] m = ".word" -> 4 [] m = ".dword" -> 8
FloatWidth(m) == CASE m = ".binary16" -> 2 [] m = ".float" -> 4 [] m = ".double" -> 8 [] m = ".binary128" -> 16
IntegerData == {".byte", ".half", ".word", ".dword"}
FloatData == {".binary16", ".float", ".double", ".binary128"}
TextData == {".ascii", ".asciz", ".string"}
SectionDirectives == {".text", ".rodata", ".data", ".bss", ".section"}
Alignments == {".align", ".balign"}

\* TLC's integers have 32 bits: every number of the model fits the wider data.
DataFits(v, m) ==
  DataWidth(m) >= 4 \/ v \in -(2^(8 * DataWidth(m) - 1)) .. 2^(8 * DataWidth(m)) - 1

DataValues(line, env) ==
  LET o == line.ops IN
  IF \A i \in DOMAIN o : o[i].t = "expr" /\ HasValue(o[i], env.values, env.global) /\ DataFits(Value(o[i], env), line.m)
  THEN [Emits(DataWidth(line.m) * Len(o)) EXCEPT !.data = [i \in DOMAIN o |-> Value(o[i], env)]]
  ELSE Wrong

\* A literal of any format, or a bit pattern of the directive's own width.
FloatValues(line) ==
  LET width == FloatWidth(line.m) IN
  IF \A i \in DOMAIN line.ops : \/ line.ops[i].t = "expr" /\ line.ops[i].sym = ""
                                \/ line.ops[i].t = "pattern" /\ line.ops[i].width = 8 * width
  THEN Emits(width * Len(line.ops)) ELSE Wrong

\* All but .ascii end each text with a zero.
TextSize(line) ==
  LET size[i \in 0 .. Len(line.ops)] ==
        IF i = 0 THEN 0 ELSE size[i - 1] + line.ops[i].len + (IF line.m = ".ascii" THEN 0 ELSE 1)
  IN size[Len(line.ops)]
TextValues(line) ==
  IF \A i \in DOMAIN line.ops : line.ops[i].t = "text" THEN Emits(TextSize(line)) ELSE Wrong

AlignmentPadding(pc, boundary) == (boundary - (pc % boundary)) % boundary

\* .align gives an exponent (at most MaxExponent here), .balign a number.
MaxExponent == 12
BoundaryFails(line, env) ==
  \/ Len(line.ops) # 1
  \/ ~(IF line.m = ".align" THEN IsImmediate(line.ops[1], 0, MaxExponent, env)
       ELSE IsImmediate(line.ops[1], 1, 2^30, env))
Boundary(line, env) ==
  IF line.m = ".align" THEN 2^Value(line.ops[1], env) ELSE Value(line.ops[1], env)
Padding(line, pc, env) ==
  IF BoundaryFails(line, env) THEN Wrong ELSE Emits(AlignmentPadding(pc, Boundary(line, env)))

AssembleDirective(line, pc, env) ==
  CASE Defines(line) -> Emits(0)
    [] line.m \in IntegerData -> DataValues(line, env)
    [] line.m \in FloatData   -> FloatValues(line)
    [] line.m \in TextData    -> TextValues(line)
    [] line.m \in Alignments  -> Padding(line, pc, env)

Directives == {".equ", ".set"} \cup IntegerData \cup FloatData \cup TextData \cup Alignments
AssembleParsed(line, pc, env) ==
  IF line.m \in Directives THEN AssembleDirective(line, pc, env)
  ELSE LET w == AssembleInstruction(line, env) IN
       IF w = NoWord THEN Wrong ELSE [Emits(4) EXCEPT !.word = w]

\* beq, bne and jal name their target: the offset to it takes its place.
TargetOperand(m) == CASE m \in {"beq", "bne"} -> 3 [] m = "jal" -> 2 [] OTHER -> 0
NamesTarget(line) ==
  LET i == TargetOperand(line.m) IN i \in DOMAIN line.ops /\ line.ops[i].t = "expr" /\ line.ops[i].sym # ""
ResolveControlLabel(line, pc, env) ==
  LET i == TargetOperand(line.m) IN
  IF NamesTarget(line) /\ HasValue(line.ops[i], env.values, env.global)
  THEN Line(line.labels, line.m, [line.ops EXCEPT ![i] = Expr("", Value(@, env) - pc)]) ELSE line

-----------------------------------------------------------------------------
(* Sections *)

SectionFails(line) ==
  CASE line.m \in SectionDirectives \ {".section"} -> line.ops # <<>>
    [] line.m = ".section" -> \/ Len(line.ops) # 2 \/ line.ops[1].t # "text" \/ line.ops[2].t # "text"
                              \/ line.ops[1].word = "" \/ line.ops[2].word = ""
    [] OTHER -> FALSE
IsSection(line) == line.m \in SectionDirectives
SectionSpec(line) ==
  CASE line.m = ".text" -> <<".text", "ax">>
    [] line.m = ".rodata" -> <<".rodata", "a">>
    [] line.m \in {".data", ".bss"} -> <<line.m, "aw">>
    [] line.m = ".section" -> <<line.ops[1].word, line.ops[2].word>>

\* The flags of a section are those of its first declaration.
Index(sections, name) == SelectInSeq(sections, LAMBDA s : s.name = name)
FlagsClash(sections, spec) ==
  Index(sections, spec[1]) # 0 /\ sections[Index(sections, spec[1])].flags # spec[2]
SelectSection(sections, spec) ==
  IF Index(sections, spec[1]) # 0 THEN sections ELSE Append(sections, Section(spec[1], spec[2]))

-----------------------------------------------------------------------------
(* First pass: one line *)

\* Each label of the line in turn, at the pc of the line.
LabelKeys(labels, global) ==
  [i \in DOMAIN labels |-> Key(labels[i], ScopeAfter(SubSeq(labels, 1, i), global))]
LabelsFail(labels, global, values) ==
  LET keys == LabelKeys(labels, global) IN
  \/ ScopeFails(labels, global)
  \/ \E i \in DOMAIN keys : keys[i] \in DOMAIN values \/ \E j \in 1 .. i - 1 : keys[j] = keys[i]
Labelled(f, keys, pc) ==
  LET new == {keys[i] : i \in DOMAIN keys} IN [k \in DOMAIN f \cup new |-> IF k \in new THEN pc ELSE f[k]]

\* line_size: what the line will emit, as the first pass reckons it.
LineSize(line, pc, env) ==
  CASE IsSection(line) \/ Defines(line) -> 0
    [] line.m \in IntegerData -> DataWidth(line.m) * Len(line.ops)
    [] line.m \in TextData    -> TextValues(line).len
    [] line.m \in Alignments  -> Padding(line, pc, env).len
    [] OTHER -> 4

FailAll == Fail /\ cursor' = TopOfProgram /\ table' = NoTable /\ image' = NoImage
SourceStays == UNCHANGED sourceVars
AtEnd == cursor.index > Len(lines)
Current == lines[cursor.index]

Collect ==
  /\ stage = "collect" /\ ~AtEnd
  /\ LET line == Current
         global == ScopeAfter(line.labels, cursor.global)
         keys == LabelKeys(line.labels, cursor.global)
         symbols == Labelled(table.symbols, keys, cursor.pc)
         labelled == Labelled(table.values, keys, cursor.pc)
         values == Define(line, global, labelled, labelled)
         size == IF line.m = "none" THEN 0 ELSE LineSize(line, cursor.pc, Env(values, global))
     IN IF \/ SectionFails(line) \/ (IsSection(line) /\ FlagsClash(table.sections, SectionSpec(line)))
           \/ LabelsFail(line.labels, cursor.global, table.values)
           \/ DefinitionFails(line, global, DOMAIN symbols, labelled, table.equs)
           \/ size = -1
        THEN FailAll
        ELSE /\ table' = [symbols |-> symbols, values |-> values,
                          constants |-> Define(line, global, labelled, table.constants),
                          equs |-> IF line.m = ".equ" THEN Define(line, global, labelled, table.equs) ELSE table.equs,
                          sections |-> IF IsSection(line) THEN SelectSection(table.sections, SectionSpec(line))
                                       ELSE table.sections]
             /\ cursor' = [index |-> cursor.index + 1, pc |-> cursor.pc + size, global |-> global]
             /\ SourceStays /\ UNCHANGED image

\* The second pass starts from the labels and the .equ constants; .set takes
\* its values line by line again.
Collected ==
  /\ stage = "collect" /\ AtEnd
  /\ stage' = "emit" /\ cursor' = TopOfProgram
  /\ image' = [NoImage EXCEPT !.sections[1].address = 0,
                              !.values = [k \in DOMAIN table.symbols \cup DOMAIN table.equs |->
                                 IF k \in DOMAIN table.equs THEN table.equs[k] ELSE table.symbols[k]]]
  /\ UNCHANGED <<options, include, macros, branches, pending, lines, table>>

-----------------------------------------------------------------------------
(* Second pass: one line *)

Entry(section, bytes) == [address |-> cursor.pc, section |-> section, bytes |-> bytes]

\* Shared by every line: its entry in the listing, and the section it is in.
List(global, section, sections, values, bytes) ==
  /\ image' = [listing |-> Append(image.listing, Entry(sections[section].name, bytes)),
               sections |-> sections, section |-> section, values |-> values]
  /\ cursor' = [index |-> cursor.index + 1, pc |-> cursor.pc + bytes.len, global |-> global]
  /\ SourceStays /\ UNCHANGED table

Opened(sections, i) ==
  [sections EXCEPT ![i].address = IF @ = NoAddress THEN cursor.pc ELSE @]

EmitSection(line, global) ==
  LET spec == SectionSpec(line) IN
  IF FlagsClash(image.sections, spec) THEN FailAll
  ELSE LET sections == SelectSection(image.sections, spec)  i == Index(sections, spec[1]) IN
       List(global, i, Opened(sections, i), image.values, Emits(0))

SetFails(line, global) ==
  \/ DefinedKey(line, global) \in DOMAIN table.symbols \cup DOMAIN table.equs
  \/ ~HasValue(line.ops[2], image.values, global)
EmitSet(line, global) ==
  IF SetFails(line, global) THEN FailAll
  ELSE List(global, image.section, Opened(image.sections, image.section),
            Define(line, global, image.values, image.values), Emits(0))

EmitBytes(line, global) ==
  LET env == Env(image.values, global)
      resolved == ResolveControlLabel(line, cursor.pc, env)
      bytes == AssembleParsed(resolved, cursor.pc, env)
      sections == Opened(image.sections, image.section)
      aligned == IF line.m \in Alignments THEN Boundary(line, env) ELSE 1
  IN IF bytes = Wrong THEN FailAll
     ELSE List(global, image.section,
               [sections EXCEPT ![image.section].bytes = @ + bytes.len,
                                ![image.section].alignment = IF aligned > @ THEN aligned ELSE @],
               image.values, bytes)

Emit ==
  /\ stage = "emit" /\ ~AtEnd
  /\ LET line == Current  global == ScopeAfter(line.labels, cursor.global) IN
     CASE IsSection(line) -> EmitSection(line, global)
       [] line.m \in {"none", ".equ"} ->
            List(global, image.section, Opened(image.sections, image.section), image.values, Emits(0))
       [] line.m = ".set" -> EmitSet(line, global)
       [] OTHER -> EmitBytes(line, global)

\* Sections that nothing was emitted in lie at the end; entry is _start.
Finish ==
  /\ stage = "emit" /\ AtEnd
  /\ stage' = "done"
  /\ image' = [image EXCEPT !.sections =
                 [i \in DOMAIN @ |-> [@[i] EXCEPT !.address = IF @ = NoAddress THEN cursor.pc ELSE @]]]
  /\ UNCHANGED <<options, include, macros, branches, pending, lines, cursor, table>>

Init == SourceInit /\ cursor = TopOfProgram /\ table = NoTable /\ image = NoImage
Next == \/ SourceNext /\ UNCHANGED <<cursor, table, image>>
        \/ Collect \/ Collected \/ Emit \/ Finish
Spec == Init /\ [][Next]_vars

-----------------------------------------------------------------------------
(* What the program means, read off its listing: a label is the place where *)
(* its line was emitted, a constant what its definition gives there.        *)

Address(i) == image.listing[i].address
Program == DOMAIN lines

GlobalOf(i) ==
  LET named == {j \in 1 .. i : \E l \in ToSet(lines[j].labels) : l \notin LocalNames}
  IN IF named = {} THEN "" ELSE LastGlobal(lines[Max(named)].labels)

\* The j-th label of line i belongs to the last global one up to itself.
LabelScope(i, j) ==
  LET labels == SubSeq(lines[i].labels, 1, j)
  IN IF GlobalLabels(labels) = {} THEN GlobalOf(i - 1) ELSE LastGlobal(labels)

LabelLines(key) ==
  {i \in Program : \E j \in DOMAIN lines[i].labels : key = Key(lines[i].labels[j], LabelScope(i, j))}
At(key) == Address(CHOOSE i \in LabelLines(key) : TRUE)

\* The symbols after each line, the labels from the start.
Known ==
  LET known[i \in {0} \cup Program] ==
        IF i = 0 THEN [k \in DOMAIN table.symbols |-> At(k)]
        ELSE Define(lines[i], GlobalOf(i), known[i - 1], known[i - 1])
  IN known

\* An .equ counts in the whole text, a .set from its line on.
Meaning(e, i, known) ==
  LET key == Key(e.sym, GlobalOf(i)) IN
  IF e.sym = "" THEN e.plus
  ELSE e.plus + (IF key \in DOMAIN table.equs THEN known[Len(lines)][key] ELSE known[i][key])

\* What each operand of an instruction says: an address is a register and
\* an offset, except to add, sub and mul, which take the register alone.
Written(line) ==
  LET form == Form(line.m)  memory == HasMemory(line.ops) IN
  CASE form \in {"addi", "load", "jalr"} -> IF memory THEN <<"rd", "imm(rs1)">> ELSE <<"rd", "rs1", "imm">>
    [] form = "r" -> IF memory THEN <<"rd", "(rs1)">> ELSE <<"rd", "rs1", "rs2">>
    [] form = "fr" -> <<"rd", "rs1", "rs2">>
    [] form = "u" -> <<"rd", "imm">>
    [] form = "store" -> <<"rs2", "imm(rs1)">>
    [] form = "branch" -> <<"rs1", "rs2", "target">>
    [] form = "jal" -> <<"rd", "target">>
    [] OTHER -> <<"rd", "rs1">>

\* The word the machine will fetch there is the instruction on the line.
DecodesToLine(i, known) ==
  LET line == lines[i]  d == Decode(image.listing[i].bytes.word) IN
  /\ d.m = line.m
  /\ d.m \in IntegerMnemonics \cup FloatMnemonics =>
       \A k \in DOMAIN Written(line) :
         LET o == line.ops[k]  field == Written(line)[k] IN
         CASE field = "imm"      -> d.imm = Meaning(o, i, known)
           [] field = "imm(rs1)" -> d.imm = Meaning(o, i, known) /\ d.rs1 = o.base
           [] field = "(rs1)"    -> d.rs1 = o.base
           [] field = "target"   -> d.imm = IF NamesTarget(line) THEN Meaning(o, i, known) - Address(i) ELSE Meaning(o, i, known)
           [] OTHER -> d[field] = o.n

HoldsItsValues(i, known) ==
  image.listing[i].bytes.data = [k \in DOMAIN lines[i].ops |-> Meaning(lines[i].ops[k], i, known)]

\* The lines whose size line_size reckons wrongly.
OddFloats == {i \in Program : lines[i].m \in FloatData /\ image.listing[i].bytes.len # 4}

\* In a program that was assembled, the address of each label is where its
\* line was emitted, every branch and jump lands on the line it names, each
\* number of the image is the one of the source, and each instruction reads
\* back as its line: its mnemonic, and where the decoder gives the fields,
\* the immediate and the number of each register (the generic encoder takes
\* f1 for x1).  This with macros, conditionals, includes, local labels and
\* paddings between a label and its uses.  Programs with a floating datum of
\* other than four bytes are left to LabelsAreAtTheirLines, the offsets of
\* instructions of which only the mnemonic is decoded to OffsetsNeverWrap.
LabelsAreReached ==
  stage = "done" /\ OddFloats = {} =>
    \E known \in {Known} :
      /\ \A k \in DOMAIN table.symbols : table.symbols[k] = At(k)
      /\ \A i \in Program : lines[i].m \in DOMAIN Opcodes => DecodesToLine(i, known)
      /\ \A i \in Program : lines[i].m \in IntegerData => HoldsItsValues(i, known)

\* Every label is where its line was emitted, whatever the lines before it
\* are: numbers in place of the labels would give the same bytes.
LabelsAreAtTheirLines == stage = "done" => \A k \in DOMAIN table.symbols : table.symbols[k] = At(k)

\* An offset that its field cannot hold is an error: the field of an assembled
\* instruction holds the whole offset of its imm(register), never a part.
OffsetsNeverWrap ==
  stage = "done" =>
    \E known \in {Known} :
      \A i \in Program : \A k \in DOMAIN lines[i].ops :
        LET line == lines[i]  w == image.listing[i].bytes.word  offset == Meaning(line.ops[k], i, known) IN
        line.m \in DOMAIN Opcodes /\ line.ops[k].t = "mem" =>
          /\ Form(line.m) \in {"addi", "load", "jalr", "float load"} => HighImm(w) = offset
          /\ Form(line.m) \in {"store", "float store"} => StoreImm(w) = offset
=============================================================================
