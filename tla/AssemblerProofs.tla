--------------------------- MODULE AssemblerProofs ---------------------------
(***************************************************************************)
(* What is proved of the host assembler.  First the instruction formats:   *)
(* the rows of the table are apart, so a word has one row, and every word  *)
(* that an encoder gives is read back by the decoder as the line it was    *)
(* made from.  Then the source: whatever is read, what is expanded is a    *)
(* program.  Then the two passes: the second follows records of the first, *)
(* line by line, and at the end every label, branch and number of the      *)
(* image is the one of the source.                                         *)
(***************************************************************************)
EXTENDS Assembler, SequenceTheorems, FiniteSetTheorems, WellFoundedInduction, TLAPS

-----------------------------------------------------------------------------
(* The table of opcodes: no word matches two rows.                         *)

LEMMA Tables ==
  Integers64 \cap Floats = {} /\ Integers64 \cap Conversions = {} /\ Floats \cap Conversions = {}
BY DEF Integers64, Floats, Conversions, ToInteger, FromInteger

\* The table of all mnemonics is the three tables together.
LEMMA Rows ==
  /\ \A m \in Integers64 : m \in DOMAIN Opcodes /\ Opcodes[m] = Integer64(m)
  /\ \A m \in Floats : m \in DOMAIN Opcodes /\ Opcodes[m] = Float(m)
  /\ \A m \in Conversions : m \in DOMAIN Opcodes /\ Opcodes[m] = Conversion(m)
  /\ DOMAIN Opcodes = Integers64 \cup Floats \cup Conversions
BY Tables DEF Opcodes

Is(m, form, f7, rs2, f3, op) ==
  m \in DOMAIN Opcodes /\ Form(m) = form /\ Match(m) = Slices(f7, rs2, 0, f3, 0, op)

\* Form and fixed slices of a row.
LEMMA RowIs ==
  ASSUME NEW form, NEW f7, NEW rs2, NEW f3, NEW op,
         NEW m \in DOMAIN Opcodes, Opcodes[m] = Row(form, f7, rs2, f3, op)
  PROVE  Is(m, form, f7, rs2, f3, op)
BY DEF Is, Row, Form, Match

\* The rows of the integer instructions.
LEMMA IntegerRows ==
  /\ Is("addi", "addi", 0, 0, 0, 19) /\ Is("add", "r", 0, 0, 0, 51)
  /\ Is("sub", "r", 32, 0, 0, 51) /\ Is("mul", "r", 1, 0, 0, 51)
  /\ Is("lui", "u", 0, 0, 0, 55) /\ Is("auipc", "u", 0, 0, 0, 23)
  /\ Is("lw", "load", 0, 0, 2, 3) /\ Is("ld", "load", 0, 0, 3, 3)
  /\ Is("sw", "store", 0, 0, 2, 35) /\ Is("sd", "store", 0, 0, 3, 35)
  /\ Is("beq", "branch", 0, 0, 0, 99) /\ Is("bne", "branch", 0, 0, 1, 99)
  /\ Is("jal", "jal", 0, 0, 0, 111) /\ Is("jalr", "jalr", 0, 0, 0, 103)
<1>1. \A m \in Integers64 : m \in DOMAIN Opcodes /\ Opcodes[m] = Integer64(m)
  BY Rows
<1>2. Integers64 = {"addi", "add", "sub", "mul", "lui", "auipc", "lw", "ld", "sw", "sd", "beq", "bne",
            "jal", "jalr"}
  BY DEF Integers64
<1>3. /\ Is("addi", "addi", 0, 0, 0, 19) /\ Is("add", "r", 0, 0, 0, 51)
      /\ Is("sub", "r", 32, 0, 0, 51) /\ Is("mul", "r", 1, 0, 0, 51)
      /\ Is("lui", "u", 0, 0, 0, 55) /\ Is("auipc", "u", 0, 0, 0, 23)
      /\ Is("lw", "load", 0, 0, 2, 3)
  <2>1. /\ Integer64("addi") = Row("addi", 0, 0, 0, 19) /\ Integer64("add") = Row("r", 0, 0, 0, 51)
        /\ Integer64("sub") = Row("r", 32, 0, 0, 51) /\ Integer64("mul") = Row("r", 1, 0, 0, 51)
        /\ Integer64("lui") = Row("u", 0, 0, 0, 55) /\ Integer64("auipc") = Row("u", 0, 0, 0, 23)
        /\ Integer64("lw") = Row("load", 0, 0, 2, 3)
    BY DEF Integer64
  <2>2. /\ "addi" \in Integers64 /\ "add" \in Integers64 /\ "sub" \in Integers64 /\ "mul" \in Integers64
        /\ "lui" \in Integers64 /\ "auipc" \in Integers64 /\ "lw" \in Integers64
    BY <1>2
  <2>3. /\ "addi" \in DOMAIN Opcodes /\ "add" \in DOMAIN Opcodes /\ "sub" \in DOMAIN Opcodes
        /\ "mul" \in DOMAIN Opcodes /\ "lui" \in DOMAIN Opcodes /\ "auipc" \in DOMAIN Opcodes
        /\ "lw" \in DOMAIN Opcodes
    BY <1>1, <2>2
  <2>4. /\ Opcodes["addi"] = Row("addi", 0, 0, 0, 19) /\ Opcodes["add"] = Row("r", 0, 0, 0, 51)
        /\ Opcodes["sub"] = Row("r", 32, 0, 0, 51) /\ Opcodes["mul"] = Row("r", 1, 0, 0, 51)
        /\ Opcodes["lui"] = Row("u", 0, 0, 0, 55) /\ Opcodes["auipc"] = Row("u", 0, 0, 0, 23)
        /\ Opcodes["lw"] = Row("load", 0, 0, 2, 3)
    BY <1>1, <2>1, <2>2
  <2> QED
    <3>1. Is("addi", "addi", 0, 0, 0, 19)
      BY <2>3, <2>4, RowIs
    <3>2. Is("add", "r", 0, 0, 0, 51)
      BY <2>3, <2>4, RowIs
    <3>3. Is("sub", "r", 32, 0, 0, 51)
      BY <2>3, <2>4, RowIs
    <3>4. Is("mul", "r", 1, 0, 0, 51)
      BY <2>3, <2>4, RowIs
    <3>5. Is("lui", "u", 0, 0, 0, 55)
      BY <2>3, <2>4, RowIs
    <3>6. Is("auipc", "u", 0, 0, 0, 23)
      BY <2>3, <2>4, RowIs
    <3>7. Is("lw", "load", 0, 0, 2, 3)
      BY <2>3, <2>4, RowIs
    <3> QED
      BY <3>1, <3>2, <3>3, <3>4, <3>5, <3>6, <3>7
<1>4. /\ Is("ld", "load", 0, 0, 3, 3) /\ Is("sw", "store", 0, 0, 2, 35)
      /\ Is("sd", "store", 0, 0, 3, 35) /\ Is("beq", "branch", 0, 0, 0, 99)
      /\ Is("bne", "branch", 0, 0, 1, 99) /\ Is("jal", "jal", 0, 0, 0, 111)
      /\ Is("jalr", "jalr", 0, 0, 0, 103)
  <2>1. /\ Integer64("ld") = Row("load", 0, 0, 3, 3) /\ Integer64("sw") = Row("store", 0, 0, 2, 35)
        /\ Integer64("sd") = Row("store", 0, 0, 3, 35) /\ Integer64("beq") = Row("branch", 0, 0, 0, 99)
        /\ Integer64("bne") = Row("branch", 0, 0, 1, 99) /\ Integer64("jal") = Row("jal", 0, 0, 0, 111)
        /\ Integer64("jalr") = Row("jalr", 0, 0, 0, 103)
    BY DEF Integer64
  <2>2. /\ "ld" \in Integers64 /\ "sw" \in Integers64 /\ "sd" \in Integers64 /\ "beq" \in Integers64
        /\ "bne" \in Integers64 /\ "jal" \in Integers64 /\ "jalr" \in Integers64
    BY <1>2
  <2>3. /\ "ld" \in DOMAIN Opcodes /\ "sw" \in DOMAIN Opcodes /\ "sd" \in DOMAIN Opcodes
        /\ "beq" \in DOMAIN Opcodes /\ "bne" \in DOMAIN Opcodes /\ "jal" \in DOMAIN Opcodes
        /\ "jalr" \in DOMAIN Opcodes
    BY <1>1, <2>2
  <2>4. /\ Opcodes["ld"] = Row("load", 0, 0, 3, 3) /\ Opcodes["sw"] = Row("store", 0, 0, 2, 35)
        /\ Opcodes["sd"] = Row("store", 0, 0, 3, 35) /\ Opcodes["beq"] = Row("branch", 0, 0, 0, 99)
        /\ Opcodes["bne"] = Row("branch", 0, 0, 1, 99) /\ Opcodes["jal"] = Row("jal", 0, 0, 0, 111)
        /\ Opcodes["jalr"] = Row("jalr", 0, 0, 0, 103)
    BY <1>1, <2>1, <2>2
  <2> QED
    <3>1. Is("ld", "load", 0, 0, 3, 3)
      BY <2>3, <2>4, RowIs
    <3>2. Is("sw", "store", 0, 0, 2, 35)
      BY <2>3, <2>4, RowIs
    <3>3. Is("sd", "store", 0, 0, 3, 35)
      BY <2>3, <2>4, RowIs
    <3>4. Is("beq", "branch", 0, 0, 0, 99)
      BY <2>3, <2>4, RowIs
    <3>5. Is("bne", "branch", 0, 0, 1, 99)
      BY <2>3, <2>4, RowIs
    <3>6. Is("jal", "jal", 0, 0, 0, 111)
      BY <2>3, <2>4, RowIs
    <3>7. Is("jalr", "jalr", 0, 0, 0, 103)
      BY <2>3, <2>4, RowIs
    <3> QED
      BY <3>1, <3>2, <3>3, <3>4, <3>5, <3>6, <3>7
<1> QED
  BY <1>3, <1>4

\* The rows of the floating instructions.
LEMMA FloatRows ==
  /\ Is("fadd.s", "fr", 0, 0, 0, 83) /\ Is("fadd.d", "fr", 1, 0, 0, 83)
  /\ Is("fmul.s", "fr", 8, 0, 0, 83) /\ Is("fmadd.s", "r4", 0, 0, 0, 67)
  /\ Is("feq.s", "float compare", 80, 0, 2, 83) /\ Is("flw", "float load", 0, 0, 2, 7)
  /\ Is("fsw", "float store", 0, 0, 2, 39) /\ Is("fmv.x.w", "move", 112, 0, 0, 83)
  /\ Is("fmv.w.x", "move", 120, 0, 0, 83) /\ Is("fmv.x.d", "move", 113, 0, 0, 83)
  /\ Is("fmv.d.x", "move", 121, 0, 0, 83)
<1>1. \A m \in Floats : m \in DOMAIN Opcodes /\ Opcodes[m] = Float(m)
  BY Rows
<1>2. Floats = {"fadd.s", "fadd.d", "fmul.s", "fmadd.s", "feq.s", "flw", "fsw", "fmv.x.w", "fmv.w.x",
            "fmv.x.d", "fmv.d.x"}
  BY DEF Floats
<1>3. /\ Is("fadd.s", "fr", 0, 0, 0, 83) /\ Is("fadd.d", "fr", 1, 0, 0, 83)
      /\ Is("fmul.s", "fr", 8, 0, 0, 83) /\ Is("fmadd.s", "r4", 0, 0, 0, 67)
  <2>1. /\ Float("fadd.s") = Row("fr", 0, 0, 0, 83) /\ Float("fadd.d") = Row("fr", 1, 0, 0, 83)
        /\ Float("fmul.s") = Row("fr", 8, 0, 0, 83) /\ Float("fmadd.s") = Row("r4", 0, 0, 0, 67)
    BY DEF Float
  <2>2. /\ "fadd.s" \in Floats /\ "fadd.d" \in Floats /\ "fmul.s" \in Floats /\ "fmadd.s" \in Floats
    BY <1>2
  <2>3. /\ "fadd.s" \in DOMAIN Opcodes /\ "fadd.d" \in DOMAIN Opcodes /\ "fmul.s" \in DOMAIN Opcodes
        /\ "fmadd.s" \in DOMAIN Opcodes
    BY <1>1, <2>2
  <2>4. /\ Opcodes["fadd.s"] = Row("fr", 0, 0, 0, 83) /\ Opcodes["fadd.d"] = Row("fr", 1, 0, 0, 83)
        /\ Opcodes["fmul.s"] = Row("fr", 8, 0, 0, 83) /\ Opcodes["fmadd.s"] = Row("r4", 0, 0, 0, 67)
    BY <1>1, <2>1, <2>2
  <2> QED
    <3>1. Is("fadd.s", "fr", 0, 0, 0, 83)
      BY <2>3, <2>4, RowIs
    <3>2. Is("fadd.d", "fr", 1, 0, 0, 83)
      BY <2>3, <2>4, RowIs
    <3>3. Is("fmul.s", "fr", 8, 0, 0, 83)
      BY <2>3, <2>4, RowIs
    <3>4. Is("fmadd.s", "r4", 0, 0, 0, 67)
      BY <2>3, <2>4, RowIs
    <3> QED
      BY <3>1, <3>2, <3>3, <3>4
<1>4. /\ Is("feq.s", "float compare", 80, 0, 2, 83) /\ Is("flw", "float load", 0, 0, 2, 7)
      /\ Is("fsw", "float store", 0, 0, 2, 39) /\ Is("fmv.x.w", "move", 112, 0, 0, 83)
  <2>1. /\ Float("feq.s") = Row("float compare", 80, 0, 2, 83) /\ Float("flw") = Row("float load", 0, 0, 2, 7)
        /\ Float("fsw") = Row("float store", 0, 0, 2, 39) /\ Float("fmv.x.w") = Row("move", 112, 0, 0, 83)
    BY DEF Float
  <2>2. /\ "feq.s" \in Floats /\ "flw" \in Floats /\ "fsw" \in Floats /\ "fmv.x.w" \in Floats
    BY <1>2
  <2>3. /\ "feq.s" \in DOMAIN Opcodes /\ "flw" \in DOMAIN Opcodes /\ "fsw" \in DOMAIN Opcodes
        /\ "fmv.x.w" \in DOMAIN Opcodes
    BY <1>1, <2>2
  <2>4. /\ Opcodes["feq.s"] = Row("float compare", 80, 0, 2, 83) /\ Opcodes["flw"] = Row("float load", 0, 0, 2, 7)
        /\ Opcodes["fsw"] = Row("float store", 0, 0, 2, 39) /\ Opcodes["fmv.x.w"] = Row("move", 112, 0, 0, 83)
    BY <1>1, <2>1, <2>2
  <2> QED
    <3>1. Is("feq.s", "float compare", 80, 0, 2, 83)
      <4>1. "feq.s" \in DOMAIN Opcodes /\ Opcodes["feq.s"] = Row("float compare", 80, 0, 2, 83)
        BY ONLY <2>3, <2>4
      <4> QED
        BY ONLY <4>1, RowIs
    <3>2. Is("flw", "float load", 0, 0, 2, 7)
      <4>1. "flw" \in DOMAIN Opcodes /\ Opcodes["flw"] = Row("float load", 0, 0, 2, 7)
        BY ONLY <2>3, <2>4
      <4> QED
        BY ONLY <4>1, RowIs
    <3>3. Is("fsw", "float store", 0, 0, 2, 39)
      <4>1. "fsw" \in DOMAIN Opcodes /\ Opcodes["fsw"] = Row("float store", 0, 0, 2, 39)
        BY ONLY <2>3, <2>4
      <4> QED
        BY ONLY <4>1, RowIs
    <3>4. Is("fmv.x.w", "move", 112, 0, 0, 83)
      <4>1. "fmv.x.w" \in DOMAIN Opcodes /\ Opcodes["fmv.x.w"] = Row("move", 112, 0, 0, 83)
        BY ONLY <2>3, <2>4
      <4> QED
        BY ONLY <4>1, RowIs
    <3> QED
      BY <3>1, <3>2, <3>3, <3>4
<1>5. /\ Is("fmv.w.x", "move", 120, 0, 0, 83) /\ Is("fmv.x.d", "move", 113, 0, 0, 83)
      /\ Is("fmv.d.x", "move", 121, 0, 0, 83)
  <2>1. /\ Float("fmv.w.x") = Row("move", 120, 0, 0, 83) /\ Float("fmv.x.d") = Row("move", 113, 0, 0, 83)
        /\ Float("fmv.d.x") = Row("move", 121, 0, 0, 83)
    BY DEF Float
  <2>2. /\ "fmv.w.x" \in Floats /\ "fmv.x.d" \in Floats /\ "fmv.d.x" \in Floats
    BY <1>2
  <2>3. /\ "fmv.w.x" \in DOMAIN Opcodes /\ "fmv.x.d" \in DOMAIN Opcodes /\ "fmv.d.x" \in DOMAIN Opcodes
    BY <1>1, <2>2
  <2>4. /\ Opcodes["fmv.w.x"] = Row("move", 120, 0, 0, 83) /\ Opcodes["fmv.x.d"] = Row("move", 113, 0, 0, 83)
        /\ Opcodes["fmv.d.x"] = Row("move", 121, 0, 0, 83)
    BY <1>1, <2>1, <2>2
  <2> QED
    <3>1. Is("fmv.w.x", "move", 120, 0, 0, 83)
      BY <2>3, <2>4, RowIs
    <3>2. Is("fmv.x.d", "move", 113, 0, 0, 83)
      BY <2>3, <2>4, RowIs
    <3>3. Is("fmv.d.x", "move", 121, 0, 0, 83)
      BY <2>3, <2>4, RowIs
    <3> QED
      BY <3>1, <3>2, <3>3
<1> QED
  BY <1>3, <1>4, <1>5

\* The rows of the conversions.
LEMMA ConversionRows ==
  /\ Is("fcvt.w.s", "convert", 96, 0, 0, 83) /\ Is("fcvt.wu.s", "convert", 96, 1, 0, 83)
  /\ Is("fcvt.l.s", "convert", 96, 2, 0, 83) /\ Is("fcvt.lu.s", "convert", 96, 3, 0, 83)
  /\ Is("fcvt.w.d", "convert", 97, 0, 0, 83) /\ Is("fcvt.wu.d", "convert", 97, 1, 0, 83)
  /\ Is("fcvt.l.d", "convert", 97, 2, 0, 83) /\ Is("fcvt.lu.d", "convert", 97, 3, 0, 83)
  /\ Is("fcvt.s.w", "convert", 104, 0, 0, 83) /\ Is("fcvt.s.wu", "convert", 104, 1, 0, 83)
  /\ Is("fcvt.s.l", "convert", 104, 2, 0, 83) /\ Is("fcvt.s.lu", "convert", 104, 3, 0, 83)
  /\ Is("fcvt.d.w", "convert", 105, 0, 0, 83) /\ Is("fcvt.d.wu", "convert", 105, 1, 0, 83)
  /\ Is("fcvt.d.l", "convert", 105, 2, 0, 83) /\ Is("fcvt.d.lu", "convert", 105, 3, 0, 83)
  /\ Is("fcvt.s.d", "convert", 32, 1, 0, 83) /\ Is("fcvt.d.s", "convert", 33, 0, 0, 83)
<1>1. \A m \in Conversions : m \in DOMAIN Opcodes /\ Opcodes[m] = Conversion(m)
  BY Rows
<1>2. Conversions = {"fcvt.w.s", "fcvt.wu.s", "fcvt.l.s", "fcvt.lu.s", "fcvt.w.d", "fcvt.wu.d", "fcvt.l.d",
            "fcvt.lu.d", "fcvt.s.w", "fcvt.s.wu", "fcvt.s.l", "fcvt.s.lu", "fcvt.d.w",
            "fcvt.d.wu", "fcvt.d.l", "fcvt.d.lu", "fcvt.s.d", "fcvt.d.s"}
  BY DEF Conversions, ToInteger, FromInteger
<1>3. /\ Is("fcvt.w.s", "convert", 96, 0, 0, 83) /\ Is("fcvt.wu.s", "convert", 96, 1, 0, 83)
      /\ Is("fcvt.l.s", "convert", 96, 2, 0, 83) /\ Is("fcvt.lu.s", "convert", 96, 3, 0, 83)
      /\ Is("fcvt.w.d", "convert", 97, 0, 0, 83) /\ Is("fcvt.wu.d", "convert", 97, 1, 0, 83)
  <2>1. /\ Conversion("fcvt.w.s") = Row("convert", 96, 0, 0, 83) /\ Conversion("fcvt.wu.s") = Row("convert", 96, 1, 0, 83)
        /\ Conversion("fcvt.l.s") = Row("convert", 96, 2, 0, 83) /\ Conversion("fcvt.lu.s") = Row("convert", 96, 3, 0, 83)
        /\ Conversion("fcvt.w.d") = Row("convert", 97, 0, 0, 83) /\ Conversion("fcvt.wu.d") = Row("convert", 97, 1, 0, 83)
    BY DEF Conversion, Convert
  <2>2. /\ "fcvt.w.s" \in Conversions /\ "fcvt.wu.s" \in Conversions /\ "fcvt.l.s" \in Conversions /\ "fcvt.lu.s" \in Conversions
        /\ "fcvt.w.d" \in Conversions /\ "fcvt.wu.d" \in Conversions
    BY <1>2
  <2>3. /\ "fcvt.w.s" \in DOMAIN Opcodes /\ "fcvt.wu.s" \in DOMAIN Opcodes /\ "fcvt.l.s" \in DOMAIN Opcodes
        /\ "fcvt.lu.s" \in DOMAIN Opcodes /\ "fcvt.w.d" \in DOMAIN Opcodes /\ "fcvt.wu.d" \in DOMAIN Opcodes
    BY <1>1, <2>2
  <2>4. /\ Opcodes["fcvt.w.s"] = Row("convert", 96, 0, 0, 83) /\ Opcodes["fcvt.wu.s"] = Row("convert", 96, 1, 0, 83)
        /\ Opcodes["fcvt.l.s"] = Row("convert", 96, 2, 0, 83) /\ Opcodes["fcvt.lu.s"] = Row("convert", 96, 3, 0, 83)
        /\ Opcodes["fcvt.w.d"] = Row("convert", 97, 0, 0, 83) /\ Opcodes["fcvt.wu.d"] = Row("convert", 97, 1, 0, 83)
    BY <1>1, <2>1, <2>2
  <2> QED
    <3>1. Is("fcvt.w.s", "convert", 96, 0, 0, 83)
      BY <2>3, <2>4, RowIs
    <3>2. Is("fcvt.wu.s", "convert", 96, 1, 0, 83)
      BY <2>3, <2>4, RowIs
    <3>3. Is("fcvt.l.s", "convert", 96, 2, 0, 83)
      BY <2>3, <2>4, RowIs
    <3>4. Is("fcvt.lu.s", "convert", 96, 3, 0, 83)
      BY <2>3, <2>4, RowIs
    <3>5. Is("fcvt.w.d", "convert", 97, 0, 0, 83)
      BY <2>3, <2>4, RowIs
    <3>6. Is("fcvt.wu.d", "convert", 97, 1, 0, 83)
      BY <2>3, <2>4, RowIs
    <3> QED
      BY <3>1, <3>2, <3>3, <3>4, <3>5, <3>6
<1>4. /\ Is("fcvt.l.d", "convert", 97, 2, 0, 83) /\ Is("fcvt.lu.d", "convert", 97, 3, 0, 83)
      /\ Is("fcvt.s.w", "convert", 104, 0, 0, 83) /\ Is("fcvt.s.wu", "convert", 104, 1, 0, 83)
      /\ Is("fcvt.s.l", "convert", 104, 2, 0, 83) /\ Is("fcvt.s.lu", "convert", 104, 3, 0, 83)
  <2>1. /\ Conversion("fcvt.l.d") = Row("convert", 97, 2, 0, 83) /\ Conversion("fcvt.lu.d") = Row("convert", 97, 3, 0, 83)
        /\ Conversion("fcvt.s.w") = Row("convert", 104, 0, 0, 83) /\ Conversion("fcvt.s.wu") = Row("convert", 104, 1, 0, 83)
        /\ Conversion("fcvt.s.l") = Row("convert", 104, 2, 0, 83) /\ Conversion("fcvt.s.lu") = Row("convert", 104, 3, 0, 83)
    BY DEF Conversion, Convert
  <2>2. /\ "fcvt.l.d" \in Conversions /\ "fcvt.lu.d" \in Conversions /\ "fcvt.s.w" \in Conversions /\ "fcvt.s.wu" \in Conversions
        /\ "fcvt.s.l" \in Conversions /\ "fcvt.s.lu" \in Conversions
    BY <1>2
  <2>3. /\ "fcvt.l.d" \in DOMAIN Opcodes /\ "fcvt.lu.d" \in DOMAIN Opcodes /\ "fcvt.s.w" \in DOMAIN Opcodes
        /\ "fcvt.s.wu" \in DOMAIN Opcodes /\ "fcvt.s.l" \in DOMAIN Opcodes /\ "fcvt.s.lu" \in DOMAIN Opcodes
    BY <1>1, <2>2
  <2>4. /\ Opcodes["fcvt.l.d"] = Row("convert", 97, 2, 0, 83) /\ Opcodes["fcvt.lu.d"] = Row("convert", 97, 3, 0, 83)
        /\ Opcodes["fcvt.s.w"] = Row("convert", 104, 0, 0, 83) /\ Opcodes["fcvt.s.wu"] = Row("convert", 104, 1, 0, 83)
        /\ Opcodes["fcvt.s.l"] = Row("convert", 104, 2, 0, 83) /\ Opcodes["fcvt.s.lu"] = Row("convert", 104, 3, 0, 83)
    BY <1>1, <2>1, <2>2
  <2> QED
    <3>1. Is("fcvt.l.d", "convert", 97, 2, 0, 83)
      BY <2>3, <2>4, RowIs
    <3>2. Is("fcvt.lu.d", "convert", 97, 3, 0, 83)
      BY <2>3, <2>4, RowIs
    <3>3. Is("fcvt.s.w", "convert", 104, 0, 0, 83)
      BY <2>3, <2>4, RowIs
    <3>4. Is("fcvt.s.wu", "convert", 104, 1, 0, 83)
      BY <2>3, <2>4, RowIs
    <3>5. Is("fcvt.s.l", "convert", 104, 2, 0, 83)
      BY <2>3, <2>4, RowIs
    <3>6. Is("fcvt.s.lu", "convert", 104, 3, 0, 83)
      BY <2>3, <2>4, RowIs
    <3> QED
      BY <3>1, <3>2, <3>3, <3>4, <3>5, <3>6
<1>5. /\ Is("fcvt.d.w", "convert", 105, 0, 0, 83) /\ Is("fcvt.d.wu", "convert", 105, 1, 0, 83)
      /\ Is("fcvt.d.l", "convert", 105, 2, 0, 83) /\ Is("fcvt.d.lu", "convert", 105, 3, 0, 83)
      /\ Is("fcvt.s.d", "convert", 32, 1, 0, 83) /\ Is("fcvt.d.s", "convert", 33, 0, 0, 83)
  <2>1. /\ Conversion("fcvt.d.w") = Row("convert", 105, 0, 0, 83) /\ Conversion("fcvt.d.wu") = Row("convert", 105, 1, 0, 83)
        /\ Conversion("fcvt.d.l") = Row("convert", 105, 2, 0, 83) /\ Conversion("fcvt.d.lu") = Row("convert", 105, 3, 0, 83)
        /\ Conversion("fcvt.s.d") = Row("convert", 32, 1, 0, 83) /\ Conversion("fcvt.d.s") = Row("convert", 33, 0, 0, 83)
    BY DEF Conversion, Convert
  <2>2. /\ "fcvt.d.w" \in Conversions /\ "fcvt.d.wu" \in Conversions /\ "fcvt.d.l" \in Conversions /\ "fcvt.d.lu" \in Conversions
        /\ "fcvt.s.d" \in Conversions /\ "fcvt.d.s" \in Conversions
    BY <1>2
  <2>3. /\ "fcvt.d.w" \in DOMAIN Opcodes /\ "fcvt.d.wu" \in DOMAIN Opcodes /\ "fcvt.d.l" \in DOMAIN Opcodes
        /\ "fcvt.d.lu" \in DOMAIN Opcodes /\ "fcvt.s.d" \in DOMAIN Opcodes /\ "fcvt.d.s" \in DOMAIN Opcodes
    BY <1>1, <2>2
  <2>4. /\ Opcodes["fcvt.d.w"] = Row("convert", 105, 0, 0, 83) /\ Opcodes["fcvt.d.wu"] = Row("convert", 105, 1, 0, 83)
        /\ Opcodes["fcvt.d.l"] = Row("convert", 105, 2, 0, 83) /\ Opcodes["fcvt.d.lu"] = Row("convert", 105, 3, 0, 83)
        /\ Opcodes["fcvt.s.d"] = Row("convert", 32, 1, 0, 83) /\ Opcodes["fcvt.d.s"] = Row("convert", 33, 0, 0, 83)
    BY <1>1, <2>1, <2>2
  <2> QED
    <3>1. Is("fcvt.d.w", "convert", 105, 0, 0, 83)
      BY <2>3, <2>4, RowIs
    <3>2. Is("fcvt.d.wu", "convert", 105, 1, 0, 83)
      BY <2>3, <2>4, RowIs
    <3>3. Is("fcvt.d.l", "convert", 105, 2, 0, 83)
      BY <2>3, <2>4, RowIs
    <3>4. Is("fcvt.d.lu", "convert", 105, 3, 0, 83)
      BY <2>3, <2>4, RowIs
    <3>5. Is("fcvt.s.d", "convert", 32, 1, 0, 83)
      BY <2>3, <2>4, RowIs
    <3>6. Is("fcvt.d.s", "convert", 33, 0, 0, 83)
      BY <2>3, <2>4, RowIs
    <3> QED
      BY <3>1, <3>2, <3>3, <3>4, <3>5, <3>6
<1> QED
  BY <1>3, <1>4, <1>5

\* What the slices of a word tell of a row it matches.
Forms == {"addi", "r", "u", "load", "store", "branch", "jal", "jalr", "fr", "r4", "convert", "move",
          "float compare", "float load", "float store"}
Fits(w, form, f7, rs2, f3, op) ==
  /\ form \in Forms => w.op = op
  /\ form \in {"addi", "r", "load", "store", "branch", "jalr", "move", "float compare", "float load",
               "float store"} => w.f3 = f3
  /\ form \in {"r", "fr", "convert", "move", "float compare"} => w.f7 = f7
  /\ form \in {"convert", "move"} => w.rs2 = rs2

\* The slices of a word that each form fixes.
LEMMA FixedSlices ==
  /\ Fixed("r") = {"f7", "f3", "op"} /\ Fixed("float compare") = {"f7", "f3", "op"}
  /\ Fixed("addi") = {"f3", "op"} /\ Fixed("load") = {"f3", "op"} /\ Fixed("store") = {"f3", "op"}
  /\ Fixed("branch") = {"f3", "op"} /\ Fixed("jalr") = {"f3", "op"}
  /\ Fixed("float load") = {"f3", "op"} /\ Fixed("float store") = {"f3", "op"}
  /\ Fixed("u") = {"op"} /\ Fixed("jal") = {"op"} /\ Fixed("r4") = {"op"}
  /\ Fixed("fr") = {"f7", "op"} /\ Fixed("convert") = {"f7", "rs2", "op"}
  /\ Fixed("move") = {"f7", "rs2", "f3", "op"}
BY DEF Fixed

\* A word that matches a row has its fixed slices.
LEMMA MatchFits ==
  ASSUME NEW w, NEW m, NEW form, NEW f7, NEW rs2, NEW f3, NEW op, Is(m, form, f7, rs2, f3, op), Matches(m, w)
  PROVE  Fits(w, form, f7, rs2, f3, op)
<1>1. Form(m) = form /\ Match(m) = Slices(f7, rs2, 0, f3, 0, op)
  BY DEF Is
<1>2. \A s \in Fixed(form) : w[s] = Slices(f7, rs2, 0, f3, 0, op)[s]
  BY <1>1 DEF Matches
<1> QED
  BY <1>2, FixedSlices DEF Slices, Fits, Forms

IntegerWords(w) ==
  /\ Matches("addi", w) => w.op = 19 /\ w.f3 = 0
  /\ Matches("add", w) => w.op = 51 /\ w.f3 = 0 /\ w.f7 = 0
  /\ Matches("sub", w) => w.op = 51 /\ w.f3 = 0 /\ w.f7 = 32
  /\ Matches("mul", w) => w.op = 51 /\ w.f3 = 0 /\ w.f7 = 1
  /\ Matches("lui", w) => w.op = 55
  /\ Matches("auipc", w) => w.op = 23
  /\ Matches("lw", w) => w.op = 3 /\ w.f3 = 2
  /\ Matches("ld", w) => w.op = 3 /\ w.f3 = 3
  /\ Matches("sw", w) => w.op = 35 /\ w.f3 = 2
  /\ Matches("sd", w) => w.op = 35 /\ w.f3 = 3
  /\ Matches("beq", w) => w.op = 99 /\ w.f3 = 0
  /\ Matches("bne", w) => w.op = 99 /\ w.f3 = 1
  /\ Matches("jal", w) => w.op = 111
  /\ Matches("jalr", w) => w.op = 103 /\ w.f3 = 0
\* The words of the integer instructions.
LEMMA IntegerWordsHolds == ASSUME NEW w PROVE IntegerWords(w)
<1>1. /\ Matches("addi", w) => w.op = 19 /\ w.f3 = 0
      /\ Matches("add", w) => w.op = 51 /\ w.f3 = 0 /\ w.f7 = 0
      /\ Matches("sub", w) => w.op = 51 /\ w.f3 = 0 /\ w.f7 = 32
      /\ Matches("mul", w) => w.op = 51 /\ w.f3 = 0 /\ w.f7 = 1
  <2>1. /\ Is("addi", "addi", 0, 0, 0, 19) /\ Is("add", "r", 0, 0, 0, 51)
        /\ Is("sub", "r", 32, 0, 0, 51) /\ Is("mul", "r", 1, 0, 0, 51)
    BY IntegerRows
  <2>2. /\ Matches("addi", w) => Fits(w, "addi", 0, 0, 0, 19)
        /\ Matches("add", w) => Fits(w, "r", 0, 0, 0, 51)
        /\ Matches("sub", w) => Fits(w, "r", 32, 0, 0, 51)
        /\ Matches("mul", w) => Fits(w, "r", 1, 0, 0, 51)
    BY ONLY <2>1, MatchFits
  <2> QED
    BY ONLY <2>2 DEF Fits, Forms
<1>2. /\ Matches("lui", w) => w.op = 55
      /\ Matches("auipc", w) => w.op = 23
      /\ Matches("lw", w) => w.op = 3 /\ w.f3 = 2
      /\ Matches("ld", w) => w.op = 3 /\ w.f3 = 3
  <2>1. /\ Is("lui", "u", 0, 0, 0, 55) /\ Is("auipc", "u", 0, 0, 0, 23)
        /\ Is("lw", "load", 0, 0, 2, 3) /\ Is("ld", "load", 0, 0, 3, 3)
    BY IntegerRows
  <2>2. /\ Matches("lui", w) => Fits(w, "u", 0, 0, 0, 55)
        /\ Matches("auipc", w) => Fits(w, "u", 0, 0, 0, 23)
        /\ Matches("lw", w) => Fits(w, "load", 0, 0, 2, 3)
        /\ Matches("ld", w) => Fits(w, "load", 0, 0, 3, 3)
    BY ONLY <2>1, MatchFits
  <2> QED
    BY ONLY <2>2 DEF Fits, Forms
<1>3. /\ Matches("sw", w) => w.op = 35 /\ w.f3 = 2
      /\ Matches("sd", w) => w.op = 35 /\ w.f3 = 3
      /\ Matches("beq", w) => w.op = 99 /\ w.f3 = 0
      /\ Matches("bne", w) => w.op = 99 /\ w.f3 = 1
  <2>1. /\ Is("sw", "store", 0, 0, 2, 35) /\ Is("sd", "store", 0, 0, 3, 35)
        /\ Is("beq", "branch", 0, 0, 0, 99) /\ Is("bne", "branch", 0, 0, 1, 99)
    BY IntegerRows
  <2>2. /\ Matches("sw", w) => Fits(w, "store", 0, 0, 2, 35)
        /\ Matches("sd", w) => Fits(w, "store", 0, 0, 3, 35)
        /\ Matches("beq", w) => Fits(w, "branch", 0, 0, 0, 99)
        /\ Matches("bne", w) => Fits(w, "branch", 0, 0, 1, 99)
    BY ONLY <2>1, MatchFits
  <2> QED
    BY ONLY <2>2 DEF Fits, Forms
<1>4. /\ Matches("jal", w) => w.op = 111
      /\ Matches("jalr", w) => w.op = 103 /\ w.f3 = 0
  <2>1. /\ Is("jal", "jal", 0, 0, 0, 111) /\ Is("jalr", "jalr", 0, 0, 0, 103)
    BY IntegerRows
  <2>2. /\ Matches("jal", w) => Fits(w, "jal", 0, 0, 0, 111)
        /\ Matches("jalr", w) => Fits(w, "jalr", 0, 0, 0, 103)
    BY ONLY <2>1, MatchFits
  <2> QED
    BY ONLY <2>2 DEF Fits, Forms
<1> QED
  BY <1>1, <1>2, <1>3, <1>4 DEF IntegerWords

FloatWords(w) ==
  /\ Matches("fadd.s", w) => w.op = 83 /\ w.f7 = 0
  /\ Matches("fadd.d", w) => w.op = 83 /\ w.f7 = 1
  /\ Matches("fmul.s", w) => w.op = 83 /\ w.f7 = 8
  /\ Matches("fmadd.s", w) => w.op = 67
  /\ Matches("feq.s", w) => w.op = 83 /\ w.f3 = 2 /\ w.f7 = 80
  /\ Matches("flw", w) => w.op = 7 /\ w.f3 = 2
  /\ Matches("fsw", w) => w.op = 39 /\ w.f3 = 2
  /\ Matches("fmv.x.w", w) => w.op = 83 /\ w.f3 = 0 /\ w.f7 = 112 /\ w.rs2 = 0
  /\ Matches("fmv.w.x", w) => w.op = 83 /\ w.f3 = 0 /\ w.f7 = 120 /\ w.rs2 = 0
  /\ Matches("fmv.x.d", w) => w.op = 83 /\ w.f3 = 0 /\ w.f7 = 113 /\ w.rs2 = 0
  /\ Matches("fmv.d.x", w) => w.op = 83 /\ w.f3 = 0 /\ w.f7 = 121 /\ w.rs2 = 0
\* The words of the floating instructions.
LEMMA FloatWordsHolds == ASSUME NEW w PROVE FloatWords(w)
<1>1. /\ Matches("fadd.s", w) => w.op = 83 /\ w.f7 = 0
      /\ Matches("fadd.d", w) => w.op = 83 /\ w.f7 = 1
      /\ Matches("fmul.s", w) => w.op = 83 /\ w.f7 = 8
      /\ Matches("fmadd.s", w) => w.op = 67
  <2>1. /\ Is("fadd.s", "fr", 0, 0, 0, 83) /\ Is("fadd.d", "fr", 1, 0, 0, 83)
        /\ Is("fmul.s", "fr", 8, 0, 0, 83) /\ Is("fmadd.s", "r4", 0, 0, 0, 67)
    BY FloatRows
  <2>2. /\ Matches("fadd.s", w) => Fits(w, "fr", 0, 0, 0, 83)
        /\ Matches("fadd.d", w) => Fits(w, "fr", 1, 0, 0, 83)
        /\ Matches("fmul.s", w) => Fits(w, "fr", 8, 0, 0, 83)
        /\ Matches("fmadd.s", w) => Fits(w, "r4", 0, 0, 0, 67)
    BY ONLY <2>1, MatchFits
  <2> QED
    BY ONLY <2>2 DEF Fits, Forms
<1>2. /\ Matches("feq.s", w) => w.op = 83 /\ w.f3 = 2 /\ w.f7 = 80
      /\ Matches("flw", w) => w.op = 7 /\ w.f3 = 2
      /\ Matches("fsw", w) => w.op = 39 /\ w.f3 = 2
      /\ Matches("fmv.x.w", w) => w.op = 83 /\ w.f3 = 0 /\ w.f7 = 112 /\ w.rs2 = 0
  <2>1. /\ Is("feq.s", "float compare", 80, 0, 2, 83) /\ Is("flw", "float load", 0, 0, 2, 7)
        /\ Is("fsw", "float store", 0, 0, 2, 39) /\ Is("fmv.x.w", "move", 112, 0, 0, 83)
    BY FloatRows
  <2>2. /\ Matches("feq.s", w) => Fits(w, "float compare", 80, 0, 2, 83)
        /\ Matches("flw", w) => Fits(w, "float load", 0, 0, 2, 7)
        /\ Matches("fsw", w) => Fits(w, "float store", 0, 0, 2, 39)
        /\ Matches("fmv.x.w", w) => Fits(w, "move", 112, 0, 0, 83)
    BY ONLY <2>1, MatchFits
  <2> QED
    BY ONLY <2>2 DEF Fits, Forms
<1>3. /\ Matches("fmv.w.x", w) => w.op = 83 /\ w.f3 = 0 /\ w.f7 = 120 /\ w.rs2 = 0
      /\ Matches("fmv.x.d", w) => w.op = 83 /\ w.f3 = 0 /\ w.f7 = 113 /\ w.rs2 = 0
      /\ Matches("fmv.d.x", w) => w.op = 83 /\ w.f3 = 0 /\ w.f7 = 121 /\ w.rs2 = 0
  <2>1. /\ Is("fmv.w.x", "move", 120, 0, 0, 83) /\ Is("fmv.x.d", "move", 113, 0, 0, 83)
        /\ Is("fmv.d.x", "move", 121, 0, 0, 83)
    BY FloatRows
  <2>2. /\ Matches("fmv.w.x", w) => Fits(w, "move", 120, 0, 0, 83)
        /\ Matches("fmv.x.d", w) => Fits(w, "move", 113, 0, 0, 83)
        /\ Matches("fmv.d.x", w) => Fits(w, "move", 121, 0, 0, 83)
    BY ONLY <2>1, MatchFits
  <2> QED
    BY ONLY <2>2 DEF Fits, Forms
<1> QED
  BY <1>1, <1>2, <1>3 DEF FloatWords

ConversionWords(w) ==
  /\ Matches("fcvt.w.s", w) => w.op = 83 /\ w.f7 = 96 /\ w.rs2 = 0
  /\ Matches("fcvt.wu.s", w) => w.op = 83 /\ w.f7 = 96 /\ w.rs2 = 1
  /\ Matches("fcvt.l.s", w) => w.op = 83 /\ w.f7 = 96 /\ w.rs2 = 2
  /\ Matches("fcvt.lu.s", w) => w.op = 83 /\ w.f7 = 96 /\ w.rs2 = 3
  /\ Matches("fcvt.w.d", w) => w.op = 83 /\ w.f7 = 97 /\ w.rs2 = 0
  /\ Matches("fcvt.wu.d", w) => w.op = 83 /\ w.f7 = 97 /\ w.rs2 = 1
  /\ Matches("fcvt.l.d", w) => w.op = 83 /\ w.f7 = 97 /\ w.rs2 = 2
  /\ Matches("fcvt.lu.d", w) => w.op = 83 /\ w.f7 = 97 /\ w.rs2 = 3
  /\ Matches("fcvt.s.w", w) => w.op = 83 /\ w.f7 = 104 /\ w.rs2 = 0
  /\ Matches("fcvt.s.wu", w) => w.op = 83 /\ w.f7 = 104 /\ w.rs2 = 1
  /\ Matches("fcvt.s.l", w) => w.op = 83 /\ w.f7 = 104 /\ w.rs2 = 2
  /\ Matches("fcvt.s.lu", w) => w.op = 83 /\ w.f7 = 104 /\ w.rs2 = 3
  /\ Matches("fcvt.d.w", w) => w.op = 83 /\ w.f7 = 105 /\ w.rs2 = 0
  /\ Matches("fcvt.d.wu", w) => w.op = 83 /\ w.f7 = 105 /\ w.rs2 = 1
  /\ Matches("fcvt.d.l", w) => w.op = 83 /\ w.f7 = 105 /\ w.rs2 = 2
  /\ Matches("fcvt.d.lu", w) => w.op = 83 /\ w.f7 = 105 /\ w.rs2 = 3
  /\ Matches("fcvt.s.d", w) => w.op = 83 /\ w.f7 = 32 /\ w.rs2 = 1
  /\ Matches("fcvt.d.s", w) => w.op = 83 /\ w.f7 = 33 /\ w.rs2 = 0
\* The words of the conversions.
LEMMA ConversionWordsHolds == ASSUME NEW w PROVE ConversionWords(w)
<1>1. /\ Matches("fcvt.w.s", w) => w.op = 83 /\ w.f7 = 96 /\ w.rs2 = 0
      /\ Matches("fcvt.wu.s", w) => w.op = 83 /\ w.f7 = 96 /\ w.rs2 = 1
      /\ Matches("fcvt.l.s", w) => w.op = 83 /\ w.f7 = 96 /\ w.rs2 = 2
      /\ Matches("fcvt.lu.s", w) => w.op = 83 /\ w.f7 = 96 /\ w.rs2 = 3
  <2>1. /\ Is("fcvt.w.s", "convert", 96, 0, 0, 83) /\ Is("fcvt.wu.s", "convert", 96, 1, 0, 83)
        /\ Is("fcvt.l.s", "convert", 96, 2, 0, 83) /\ Is("fcvt.lu.s", "convert", 96, 3, 0, 83)
    BY ConversionRows
  <2>2. /\ Matches("fcvt.w.s", w) => Fits(w, "convert", 96, 0, 0, 83)
        /\ Matches("fcvt.wu.s", w) => Fits(w, "convert", 96, 1, 0, 83)
        /\ Matches("fcvt.l.s", w) => Fits(w, "convert", 96, 2, 0, 83)
        /\ Matches("fcvt.lu.s", w) => Fits(w, "convert", 96, 3, 0, 83)
    BY ONLY <2>1, MatchFits
  <2> QED
    BY ONLY <2>2 DEF Fits, Forms
<1>2. /\ Matches("fcvt.w.d", w) => w.op = 83 /\ w.f7 = 97 /\ w.rs2 = 0
      /\ Matches("fcvt.wu.d", w) => w.op = 83 /\ w.f7 = 97 /\ w.rs2 = 1
      /\ Matches("fcvt.l.d", w) => w.op = 83 /\ w.f7 = 97 /\ w.rs2 = 2
      /\ Matches("fcvt.lu.d", w) => w.op = 83 /\ w.f7 = 97 /\ w.rs2 = 3
  <2>1. /\ Is("fcvt.w.d", "convert", 97, 0, 0, 83) /\ Is("fcvt.wu.d", "convert", 97, 1, 0, 83)
        /\ Is("fcvt.l.d", "convert", 97, 2, 0, 83) /\ Is("fcvt.lu.d", "convert", 97, 3, 0, 83)
    BY ConversionRows
  <2>2. /\ Matches("fcvt.w.d", w) => Fits(w, "convert", 97, 0, 0, 83)
        /\ Matches("fcvt.wu.d", w) => Fits(w, "convert", 97, 1, 0, 83)
        /\ Matches("fcvt.l.d", w) => Fits(w, "convert", 97, 2, 0, 83)
        /\ Matches("fcvt.lu.d", w) => Fits(w, "convert", 97, 3, 0, 83)
    BY ONLY <2>1, MatchFits
  <2> QED
    BY ONLY <2>2 DEF Fits, Forms
<1>3. /\ Matches("fcvt.s.w", w) => w.op = 83 /\ w.f7 = 104 /\ w.rs2 = 0
      /\ Matches("fcvt.s.wu", w) => w.op = 83 /\ w.f7 = 104 /\ w.rs2 = 1
      /\ Matches("fcvt.s.l", w) => w.op = 83 /\ w.f7 = 104 /\ w.rs2 = 2
      /\ Matches("fcvt.s.lu", w) => w.op = 83 /\ w.f7 = 104 /\ w.rs2 = 3
  <2>1. /\ Is("fcvt.s.w", "convert", 104, 0, 0, 83) /\ Is("fcvt.s.wu", "convert", 104, 1, 0, 83)
        /\ Is("fcvt.s.l", "convert", 104, 2, 0, 83) /\ Is("fcvt.s.lu", "convert", 104, 3, 0, 83)
    BY ConversionRows
  <2>2. /\ Matches("fcvt.s.w", w) => Fits(w, "convert", 104, 0, 0, 83)
        /\ Matches("fcvt.s.wu", w) => Fits(w, "convert", 104, 1, 0, 83)
        /\ Matches("fcvt.s.l", w) => Fits(w, "convert", 104, 2, 0, 83)
        /\ Matches("fcvt.s.lu", w) => Fits(w, "convert", 104, 3, 0, 83)
    BY ONLY <2>1, MatchFits
  <2> QED
    BY ONLY <2>2 DEF Fits, Forms
<1>4. /\ Matches("fcvt.d.w", w) => w.op = 83 /\ w.f7 = 105 /\ w.rs2 = 0
      /\ Matches("fcvt.d.wu", w) => w.op = 83 /\ w.f7 = 105 /\ w.rs2 = 1
      /\ Matches("fcvt.d.l", w) => w.op = 83 /\ w.f7 = 105 /\ w.rs2 = 2
      /\ Matches("fcvt.d.lu", w) => w.op = 83 /\ w.f7 = 105 /\ w.rs2 = 3
  <2>1. /\ Is("fcvt.d.w", "convert", 105, 0, 0, 83) /\ Is("fcvt.d.wu", "convert", 105, 1, 0, 83)
        /\ Is("fcvt.d.l", "convert", 105, 2, 0, 83) /\ Is("fcvt.d.lu", "convert", 105, 3, 0, 83)
    BY ConversionRows
  <2>2. /\ Matches("fcvt.d.w", w) => Fits(w, "convert", 105, 0, 0, 83)
        /\ Matches("fcvt.d.wu", w) => Fits(w, "convert", 105, 1, 0, 83)
        /\ Matches("fcvt.d.l", w) => Fits(w, "convert", 105, 2, 0, 83)
        /\ Matches("fcvt.d.lu", w) => Fits(w, "convert", 105, 3, 0, 83)
    BY ONLY <2>1, MatchFits
  <2> QED
    BY ONLY <2>2 DEF Fits, Forms
<1>5. /\ Matches("fcvt.s.d", w) => w.op = 83 /\ w.f7 = 32 /\ w.rs2 = 1
      /\ Matches("fcvt.d.s", w) => w.op = 83 /\ w.f7 = 33 /\ w.rs2 = 0
  <2>1. /\ Is("fcvt.s.d", "convert", 32, 1, 0, 83) /\ Is("fcvt.d.s", "convert", 33, 0, 0, 83)
    BY ConversionRows
  <2>2. /\ Matches("fcvt.s.d", w) => Fits(w, "convert", 32, 1, 0, 83)
        /\ Matches("fcvt.d.s", w) => Fits(w, "convert", 33, 0, 0, 83)
    BY ONLY <2>1, MatchFits
  <2> QED
    BY ONLY <2>2 DEF Fits, Forms
<1> QED
  BY <1>1, <1>2, <1>3, <1>4, <1>5 DEF ConversionWords

\* All mnemonics of the table.
LEMMA Mnemonics == DOMAIN Opcodes =
  {"addi", "add", "sub", "mul", "lui", "auipc", "lw", "ld", "sw", "sd", "beq", "bne", "jal",
   "jalr", "fadd.s", "fadd.d", "fmul.s", "fmadd.s", "feq.s", "flw", "fsw", "fmv.x.w", "fmv.w.x",
   "fmv.x.d", "fmv.d.x", "fcvt.w.s", "fcvt.wu.s", "fcvt.l.s", "fcvt.lu.s", "fcvt.w.d",
   "fcvt.wu.d", "fcvt.l.d", "fcvt.lu.d", "fcvt.s.w", "fcvt.s.wu", "fcvt.s.l", "fcvt.s.lu",
   "fcvt.d.w", "fcvt.d.wu", "fcvt.d.l", "fcvt.d.lu", "fcvt.s.d", "fcvt.d.s"}
BY Rows DEF Integers64, Floats, Conversions, ToInteger, FromInteger

\* decode takes the first row that matches: the order of the rows does not
\* matter, for none of them hides another.
THEOREM RowsAreApart ==
  ASSUME NEW w, NEW m \in DOMAIN Opcodes, NEW n \in DOMAIN Opcodes, Matches(m, w), Matches(n, w)
  PROVE  m = n
BY Mnemonics, IntegerWordsHolds, FloatWordsHolds, ConversionWordsHolds DEF IntegerWords, FloatWords, ConversionWords

-----------------------------------------------------------------------------
(* A word that a row matches is decoded to that row.                       *)

Word == [f7 : Int, rs2 : Int, rs1 : Int, f3 : Int, rd : Int, op : Int]

\* The fixed part of a row is a word.
LEMMA MatchIsWord == ASSUME NEW m \in DOMAIN Opcodes PROVE Match(m) \in Word
<1>1. ASSUME NEW form, NEW f7 \in Nat, NEW rs2 \in Nat, NEW f3 \in Nat, NEW op \in Nat,
             Is(m, form, f7, rs2, f3, op)
      PROVE  Match(m) \in Word
  BY <1>1 DEF Is, Slices, Word
<1>2. CASE m \in Integers64
  BY <1>1, <1>2, IntegerRows DEF Integers64
<1>3. CASE m \in Floats
  <2>1. /\ Match("fadd.s") \in Word /\ Match("fadd.d") \in Word /\ Match("fmul.s") \in Word
        /\ Match("fmadd.s") \in Word /\ Match("feq.s") \in Word /\ Match("flw") \in Word
        /\ Match("fsw") \in Word /\ Match("fmv.x.w") \in Word /\ Match("fmv.w.x") \in Word
        /\ Match("fmv.x.d") \in Word /\ Match("fmv.d.x") \in Word
    <3>1. \A f7, rs2, f3, op \in Nat : Slices(f7, rs2, 0, f3, 0, op) \in Word
      BY DEF Slices, Word
    <3>2. /\ Match("fadd.s") = Slices(0, 0, 0, 0, 0, 83) /\ Match("fadd.d") = Slices(1, 0, 0, 0, 0, 83)
          /\ Match("fmul.s") = Slices(8, 0, 0, 0, 0, 83) /\ Match("fmadd.s") = Slices(0, 0, 0, 0, 0, 67)
          /\ Match("feq.s") = Slices(80, 0, 0, 2, 0, 83) /\ Match("flw") = Slices(0, 0, 0, 2, 0, 7)
          /\ Match("fsw") = Slices(0, 0, 0, 2, 0, 39) /\ Match("fmv.x.w") = Slices(112, 0, 0, 0, 0, 83)
          /\ Match("fmv.w.x") = Slices(120, 0, 0, 0, 0, 83) /\ Match("fmv.x.d") = Slices(113, 0, 0, 0, 0, 83)
          /\ Match("fmv.d.x") = Slices(121, 0, 0, 0, 0, 83)
      BY FloatRows DEF Is
    <3> QED
      BY <3>1, <3>2
  <2> QED
    BY <1>3, <2>1 DEF Floats
<1>4. CASE m \in Conversions
  BY <1>1, <1>4, ConversionRows DEF Conversions, ToInteger, FromInteger
<1> QED
  BY <1>2, <1>3, <1>4, Rows

\* The forms of the table, and the mnemonics that have one for themselves.
FormKnown(m) ==
  /\ m \in {"fadd.s", "fadd.d"} => Form(m) = "fr"
  /\ m \in {"add", "sub"} => Form(m) = "r"
  /\ Form(m) = "addi" => m = "addi"
  /\ Form(m) = "jal" => m = "jal"
  /\ Form(m) = "jalr" => m = "jalr"
  /\ Form(m) = "branch" => m \in {"beq", "bne"}
  /\ Form(m) \in Forms

\* The forms of the integer instructions.
LEMMA IntegerForms == \A m \in Integers64 : FormKnown(m) /\ Form(m) \in {"addi", "r", "u", "load", "store", "branch", "jal", "jalr"}
<1>1. /\ Form("addi") = "addi" /\ Form("add") = "r" /\ Form("sub") = "r" /\ Form("mul") = "r"
      /\ Form("lui") = "u" /\ Form("auipc") = "u" /\ Form("lw") = "load" /\ Form("ld") = "load"
      /\ Form("sw") = "store" /\ Form("sd") = "store" /\ Form("beq") = "branch" /\ Form("bne") = "branch"
      /\ Form("jal") = "jal" /\ Form("jalr") = "jalr"
  BY IntegerRows DEF Is
<1>2. ASSUME NEW m \in Integers64
      PROVE  \/ m = "addi" /\ Form(m) = "addi"
             \/ m \in {"add", "sub", "mul"} /\ Form(m) = "r"
             \/ m \in {"lui", "auipc", "lw", "ld", "sw", "sd"} /\ Form(m) \in {"u", "load", "store"}
             \/ m \in {"beq", "bne"} /\ Form(m) = "branch"
             \/ m = "jal" /\ Form(m) = "jal"
             \/ m = "jalr" /\ Form(m) = "jalr"
  BY <1>1 DEF Integers64
<1> QED
  BY <1>2 DEF FormKnown, Forms

\* The forms of the floating instructions.
LEMMA FloatForms == \A m \in Floats : FormKnown(m)
<1>1. /\ Form("fadd.s") = "fr" /\ Form("fadd.d") = "fr" /\ Form("fmul.s") = "fr" /\ Form("fmadd.s") = "r4"
      /\ Form("feq.s") = "float compare" /\ Form("flw") = "float load" /\ Form("fsw") = "float store"
      /\ Form("fmv.x.w") = "move" /\ Form("fmv.w.x") = "move" /\ Form("fmv.x.d") = "move" /\ Form("fmv.d.x") = "move"
  BY FloatRows DEF Is
<1>2. ASSUME NEW m \in Floats
      PROVE  /\ m \notin {"add", "sub"}
             /\ m \in {"fadd.s", "fadd.d"} => Form(m) = "fr"
             /\ Form(m) \in {"fr", "r4", "float compare", "float load", "float store", "move"}
  BY <1>1 DEF Floats
<1> QED
  BY <1>2 DEF FormKnown, Forms

\* The conversions have one form.
LEMMA ConversionForms == \A m \in Conversions : FormKnown(m) /\ Form(m) = "convert"
<1>1. /\ Form("fcvt.w.s") = "convert" /\ Form("fcvt.wu.s") = "convert" /\ Form("fcvt.l.s") = "convert"
      /\ Form("fcvt.lu.s") = "convert" /\ Form("fcvt.w.d") = "convert" /\ Form("fcvt.wu.d") = "convert"
      /\ Form("fcvt.l.d") = "convert" /\ Form("fcvt.lu.d") = "convert" /\ Form("fcvt.s.w") = "convert"
      /\ Form("fcvt.s.wu") = "convert" /\ Form("fcvt.s.l") = "convert" /\ Form("fcvt.s.lu") = "convert"
      /\ Form("fcvt.d.w") = "convert" /\ Form("fcvt.d.wu") = "convert" /\ Form("fcvt.d.l") = "convert"
      /\ Form("fcvt.d.lu") = "convert" /\ Form("fcvt.s.d") = "convert" /\ Form("fcvt.d.s") = "convert"
  BY ConversionRows DEF Is
<1>2. ASSUME NEW m \in Conversions
      PROVE  m \notin {"fadd.s", "fadd.d", "add", "sub"} /\ Form(m) = "convert"
  BY <1>1 DEF Conversions, ToInteger, FromInteger
<1> QED
  BY <1>2 DEF FormKnown, Forms

\* The form of every mnemonic is one of those that the encoders know.
LEMMA FormIs == ASSUME NEW m \in DOMAIN Opcodes PROVE FormKnown(m)
BY Rows, IntegerForms, FloatForms, ConversionForms

\* A matching row decides how the word is decoded, since there is no other.
LEMMA DecodeRow ==
  ASSUME NEW w, NEW m \in DOMAIN Opcodes, Matches(m, w)
  PROVE  Decode(w) = IF m \in IntegerMnemonics THEN DecodeInteger(m, w)
                     ELSE IF m \in FloatMnemonics THEN DecodeFloat(m, w) ELSE [m |-> m, word |-> w]
<1> DEFINE rows == {x \in DOMAIN Opcodes : Matches(x, w)}
<1>1. m \in rows /\ \A x \in rows : x = m
  BY RowsAreApart
<1>2. rows # {} /\ (CHOOSE x \in rows : TRUE) = m
  BY <1>1
<1>3. Decode(w) = IF rows = {} THEN [m |-> "illegal", word |-> w]
                  ELSE LET n == CHOOSE x \in rows : TRUE IN
                       IF n \in IntegerMnemonics THEN DecodeInteger(n, w)
                       ELSE IF n \in FloatMnemonics THEN DecodeFloat(n, w) ELSE [m |-> n, word |-> w]
  BY DEF Decode
<1> HIDE DEF rows
<1> QED
  BY <1>2, <1>3

\* The decoded mnemonic is that of the matching row.
LEMMA DecodedMnemonic ==
  ASSUME NEW w, NEW m \in DOMAIN Opcodes, Matches(m, w) PROVE Decode(w).m = m
<1>1. m \in IntegerMnemonics => DecodeInteger(m, w).m = m
  BY DEF IntegerMnemonics, DecodeInteger
<1>2. m \in FloatMnemonics => DecodeFloat(m, w).m = m
  BY DEF FloatMnemonics, DecodeFloat
<1> QED
  BY <1>1, <1>2, DecodeRow

-----------------------------------------------------------------------------
(* What the encoders put into a word, the decoder finds in it.             *)

LEMMA RegistersKnown ==
  ASSUME NEW i, RegistersFit(i), NEW f \in {"rd", "rs1", "rs2"}, f \in DOMAIN i PROVE i[f] \in 0 .. 31
BY DEF RegistersFit, Registers

\* A register that an encoder accepts is the one that was written.
LEMMA RegisterIs ==
  /\ \A o : X(o) \in 0 .. 31 => X(o) = o.n
  /\ \A o : F(o) \in 0 .. 31 => F(o) = o.n
BY DEF X, F

\* The bits of an immediate, put together from where they were put.
BranchOf(f7, rd) ==
  Signed((f7 \div 64) * 4096 + (f7 % 64) * 32 + (rd \div 2) * 2 + (rd % 2) * 2048, 13)
JumpOf(f7, rs2, rs1, f3) ==
  Signed((f7 \div 64) * 2^20 + ((f7 % 64) * 16 + rs2 \div 2) * 2 + (rs2 % 2) * 2048 + (rs1 * 8 + f3) * 4096, 21)
Imm13Rejoins(v) ==
  BranchOf(Bits(v, 12, 12) * 64 + Bits(v, 10, 5), Bits(v, 4, 1) * 2 + Bits(v, 11, 11)) = v
UpperRejoins(v) ==
  ((Bits(v, 19, 13) * 32 + Bits(v, 12, 8)) * 32 + Bits(v, 7, 3)) * 8 + Bits(v, 2, 0) = v
Imm21Rejoins(v) ==
  JumpOf(Bits(v, 20, 20) * 64 + Bits(v, 10, 5), Bits(v, 4, 1) * 2 + Bits(v, 11, 11),
         Bits(v, 19, 15), Bits(v, 14, 12)) = v

\* The offset of a branch survives being cut into its fields.
LEMMA Imm13Read == ASSUME NEW v \in -(2^12) .. 2^12 - 2, v % 2 = 0 PROVE Imm13Rejoins(v)
<1>1. PICK a, b, c, d : /\ a \in 0 .. 1 /\ b \in 0 .. 1 /\ c \in 0 .. 63 /\ d \in 0 .. 15
                        /\ v = (IF a = 1 THEN -4096 ELSE 0) + b * 2048 + c * 32 + d * 2
                        /\ Bits(v, 12, 12) = a /\ Bits(v, 11, 11) = b /\ Bits(v, 10, 5) = c /\ Bits(v, 4, 1) = d
  <2>1. PICK q : q = v \div 32
    OBVIOUS
  <2>2. q \in -128 .. 127 /\ v = q * 32 + (v % 32) /\ v % 32 \in 0 .. 31
    BY <2>1
  <2>3. PICK r : r = q \div 64
    OBVIOUS
  <2>4. r \in -2 .. 1 /\ q = r * 64 + (q % 64) /\ q % 64 \in 0 .. 63
    BY <2>2, <2>3
  <2>5. v \div 2 = q * 16 + ((v % 32) \div 2) /\ (v \div 2) % 16 = (v % 32) \div 2 /\ 2 * ((v % 32) \div 2) = v % 32
    BY <2>2
  <2>6. v \div 2048 = r /\ v \div 4096 = r \div 2
    BY <2>2, <2>4
  <2>7. Bits(v, 12, 12) = (r \div 2) % 2 /\ Bits(v, 11, 11) = r % 2 /\ Bits(v, 10, 5) = q % 64
        /\ Bits(v, 4, 1) = (v % 32) \div 2
    BY <2>1, <2>5, <2>6 DEF Bits
  <2>8. v = (IF (r \div 2) % 2 = 1 THEN -4096 ELSE 0) + (r % 2) * 2048 + (q % 64) * 32 + ((v % 32) \div 2) * 2
    BY <2>2, <2>4, <2>5
  <2>9. (r \div 2) % 2 \in 0 .. 1 /\ r % 2 \in 0 .. 1 /\ (v % 32) \div 2 \in 0 .. 15
    BY <2>2, <2>4
  <2> QED
    BY ONLY <2>4, <2>7, <2>8, <2>9, SMTT(60)
<1>2. PICK f7, rd : f7 = a * 64 + c /\ rd = d * 2 + b
  OBVIOUS
<1>3. f7 \in Int /\ rd \in Int /\ f7 \div 64 = a /\ f7 % 64 = c /\ rd \div 2 = d /\ rd % 2 = b
  BY <1>1, <1>2
<1>4. BranchOf(f7, rd) = v
  BY <1>1, <1>3 DEF Signed, BranchOf
<1>5. Bits(v, 12, 12) * 64 + Bits(v, 10, 5) = f7 /\ Bits(v, 4, 1) * 2 + Bits(v, 11, 11) = rd
  BY <1>1, <1>2
<1> QED
  BY <1>4, <1>5 DEF Imm13Rejoins

\* So does the immediate of lui and auipc.
LEMMA UpperRead == ASSUME NEW v \in 0 .. 2^20 - 1 PROVE UpperRejoins(v)
<1>1. PICK a, b, c : a = v \div 8 /\ b = a \div 32 /\ c = b \div 32
  BY SMT
<1>2. v = a * 8 + (v % 8) /\ a = b * 32 + (a % 32) /\ b = c * 32 + (b % 32) /\ c \in 0 .. 127
      /\ a \in Nat /\ b \in Nat /\ v % 8 \in Int /\ a % 32 \in Int /\ b % 32 \in Int
  BY <1>1, SMTT(60)
<1>3. v \div 256 = b /\ v \div 8192 = c
  BY <1>1, SMTT(60)
<1>4. Bits(v, 19, 13) = c /\ Bits(v, 12, 8) = b % 32 /\ Bits(v, 7, 3) = a % 32 /\ Bits(v, 2, 0) = v % 8
  BY <1>1, <1>2, <1>3, SMTT(60) DEF Bits
<1>5. ((c * 32 + (b % 32)) * 32 + (a % 32)) * 8 + (v % 8) = v
  BY ONLY <1>2, SMTT(60)
<1> QED
  BY <1>4, <1>5 DEF UpperRejoins

\* So does the offset of a jump.
LEMMA Imm21Read == ASSUME NEW v \in -(2^20) .. 2^20 - 2, v % 2 = 0 PROVE Imm21Rejoins(v)
<1>1. PICK q, r : q = v \div 4096 /\ r = v % 4096
  BY SMT
<1>2. q \in -256 .. 255 /\ r \in 0 .. 4095 /\ v = q * 4096 + r /\ r % 2 = 0
  BY <1>1, SMTT(60)
<1>3. PICK s, g, h : s = q \div 256 /\ g = (q \div 8) % 32 /\ h = q % 8
  BY SMT
<1>4. s \in {-1, 0} /\ g \in 0 .. 31 /\ h \in 0 .. 7 /\ q = s * 256 + g * 8 + h
  <2>1. PICK p : p = q \div 8
    BY SMT
  <2>2. p \in -32 .. 31 /\ q = p * 8 + h /\ h \in 0 .. 7
    BY <1>2, <1>3, <2>1, SMTT(60)
  <2>3. p \div 32 = s /\ p = s * 32 + g /\ g \in 0 .. 31 /\ s \in {-1, 0}
    BY <1>2, <1>3, <2>1, <2>2, SMTT(60)
  <2> QED
    BY <2>2, <2>3, SMTT(60)
<1>5. PICK b, c, d : b = r \div 2048 /\ c = (r \div 32) % 64 /\ d = (r \div 2) % 16
  BY SMT
<1>6. b \in 0 .. 1 /\ c \in 0 .. 63 /\ d \in 0 .. 15 /\ r = b * 2048 + c * 32 + d * 2
  <2>1. PICK p, e : p = r \div 32 /\ e = r % 32
    BY SMT
  <2>2. p \in 0 .. 127 /\ e \in 0 .. 31 /\ r = p * 32 + e /\ e % 2 = 0
    BY <1>2, <2>1, SMTT(60)
  <2>3. p \div 64 = b /\ p = b * 64 + c /\ c \in 0 .. 63 /\ b \in 0 .. 1
    BY <1>2, <1>5, <2>1, <2>2, SMTT(60)
  <2>4. d = e \div 2 /\ e = d * 2 /\ d \in 0 .. 15
    <3>1. PICK y : y = e \div 2
      BY SMT
    <3>2. e = y * 2 /\ y \in 0 .. 15
      BY ONLY <2>2, <3>1, SMTT(60)
    <3>3. r \div 2 = p * 16 + y
      BY ONLY <2>2, <3>2, SMTT(60)
    <3>4. (p * 16 + y) % 16 = y
      BY ONLY <2>2, <3>2, SMTT(60)
    <3> QED
      BY ONLY <1>5, <3>1, <3>2, <3>3, <3>4, SMTT(60)
  <2> QED
    BY <2>2, <2>3, <2>4, SMTT(60)
<1>7. Bits(v, 20, 20) = s % 2 /\ Bits(v, 19, 15) = g /\ Bits(v, 14, 12) = h
  <2>1. v \div 4096 = q /\ v \div 32768 = q \div 8 /\ v \div 2^20 = q \div 256
    BY <1>2, SMTT(60)
  <2> QED
    BY <1>3, <2>1, SMTT(60) DEF Bits
<1>8. Bits(v, 11, 11) = b /\ Bits(v, 10, 5) = c /\ Bits(v, 4, 1) = d
  <2>5. PICK x, y, z : x = r \div 32 /\ y = r \div 2 /\ z = r \div 2048
    BY SMT
  <2>6. x \in 0 .. 127 /\ y \in 0 .. 2047 /\ z \in 0 .. 1 /\ q \in Int
    BY ONLY <1>2, <2>5, SMTT(60)
  <2>7. v \div 2048 = q * 2 + z
    BY ONLY <1>2, <2>5, <2>6, SMTT(60)
  <2>8. v \div 32 = q * 128 + x
    BY ONLY <1>2, <2>5, <2>6, SMTT(60)
  <2>9. v \div 2 = q * 2048 + y
    BY ONLY <1>2, <2>5, <2>6, SMTT(60)
  <2>1. v \div 2048 = q * 2 + b /\ v \div 32 = q * 128 + x /\ v \div 2 = q * 2048 + y
    BY <1>5, <2>5, <2>7, <2>8, <2>9
  <2>2. (q * 2 + b) % 2 = b
    BY ONLY <1>2, <1>6, SMTT(60)
  <2>3. (q * 128 + x) % 64 = c
    <3>1. c = x % 64
      BY <1>5, <2>5
    <3> QED
      BY ONLY <2>6, <3>1, SMTT(60)
  <2>4. (q * 2048 + y) % 16 = d
    <3>1. d = y % 16
      BY <1>5, <2>5
    <3> QED
      BY ONLY <2>6, <3>1, SMTT(60)
  <2> QED
    BY <2>1, <2>2, <2>3, <2>4, SMTT(60) DEF Bits
<1>9. PICK f7, rs2 : f7 = (s % 2) * 64 + c /\ rs2 = d * 2 + b
  BY SMT
<1>10. f7 \in Int /\ rs2 \in Int /\ f7 \div 64 = s % 2 /\ f7 % 64 = c /\ rs2 \div 2 = d /\ rs2 % 2 = b
  BY <1>4, <1>6, <1>9, SMTT(60)
<1>11. JumpOf(f7, rs2, g, h) = v
  BY <1>2, <1>4, <1>6, <1>10, SMTT(60) DEF Signed, JumpOf
<1>12. /\ Bits(v, 20, 20) * 64 + Bits(v, 10, 5) = f7 /\ Bits(v, 4, 1) * 2 + Bits(v, 11, 11) = rs2
       /\ g \in Int /\ h \in Int
  BY <1>4, <1>7, <1>8, <1>9, SMTT(60)
<1> QED
  BY <1>7, <1>11, <1>12, SMTT(60) DEF Imm21Rejoins

-----------------------------------------------------------------------------
(* An instruction that is assembled is decoded to its own mnemonic and its *)
(* own operands.                                                           *)

Carries(d, field, o, env) ==
  CASE field \in {"imm", "target"} -> HasValue(o, env.values, env.global) /\ d.imm = Value(o, env)
    [] field = "imm(rs1)" -> HasValue(o, env.values, env.global) /\ d.imm = Value(o, env) /\ d.rs1 = o.base
    [] field = "(rs1)" -> d.rs1 = o.base
    [] OTHER -> d[field] = o.n
Reads(line, env, w) ==
  /\ line.m \in DOMAIN Opcodes /\ Decode(w).m = line.m
  /\ line.m \in IntegerMnemonics \cup FloatMnemonics =>
       \A k \in DOMAIN Written(line) : Carries(Decode(w), Written(line)[k], line.ops[k], env)

\* The registers of the first three operands.
Takes(d, line, fields, env) ==
  \A k \in DOMAIN fields : Carries(d, fields[k], line.ops[k], env)

\* What is read from a matching word: the fields its row decodes.
LEMMA ReadsFrom ==
  ASSUME NEW line, NEW env, NEW w, NEW fields, line.m \in DOMAIN Opcodes, Matches(line.m, w),
         line.m \in IntegerMnemonics \cup FloatMnemonics => Written(line) = fields,
         line.m \in IntegerMnemonics => Takes(DecodeInteger(line.m, w), line, fields, env),
         line.m \in FloatMnemonics => Takes(DecodeFloat(line.m, w), line, fields, env)
  PROVE  Reads(line, env, w)
<1>1. Decode(w).m = line.m
  BY DecodedMnemonic
<1>2. line.m \in IntegerMnemonics => Decode(w) = DecodeInteger(line.m, w)
  BY DecodeRow
<1>3. line.m \in FloatMnemonics /\ line.m \notin IntegerMnemonics => Decode(w) = DecodeFloat(line.m, w)
  BY DecodeRow
<1> QED
  BY <1>1, <1>2, <1>3 DEF Reads, Takes

\* Three operands, each in its field.
LEMMA TakesThree ==
  ASSUME NEW d, NEW line, NEW env, NEW a, NEW b, NEW c,
         Carries(d, a, line.ops[1], env), Carries(d, b, line.ops[2], env), Carries(d, c, line.ops[3], env)
  PROVE  Takes(d, line, <<a, b, c>>, env)
BY DEF Takes

\* Two operands, each in its field.
LEMMA TakesTwo ==
  ASSUME NEW d, NEW line, NEW env, NEW a, NEW b,
         Carries(d, a, line.ops[1], env), Carries(d, b, line.ops[2], env)
  PROVE  Takes(d, line, <<a, b>>, env)
BY DEF Takes

\* A field that holds its operand carries it.
LEMMA CarriesField ==
  /\ \A d, o, env : d.rd = o.n => Carries(d, "rd", o, env)
  /\ \A d, o, env : d.rs1 = o.n => Carries(d, "rs1", o, env)
  /\ \A d, o, env : d.rs2 = o.n => Carries(d, "rs2", o, env)
  /\ \A d, o, env : d.imm = Value(o, env) /\ HasValue(o, env.values, env.global) =>
       Carries(d, "imm", o, env) /\ Carries(d, "target", o, env)
  /\ \A d, o, env : d.imm = Value(o, env) /\ d.rs1 = o.base /\ HasValue(o, env.values, env.global) =>
       Carries(d, "imm(rs1)", o, env)
  /\ \A d, o, env : d.rs1 = o.base => Carries(d, "(rs1)", o, env)
BY DEF Carries

\* The slices of a word that make it match its row.
LEMMA FixedWithin ==
  /\ \A s \in Fixed("r") : s = "f7" \/ s = "f3" \/ s = "op"
  /\ \A s \in Fixed("float compare") : s = "f7" \/ s = "f3" \/ s = "op"
  /\ \A s \in Fixed("addi") : s = "f3" \/ s = "op"
  /\ \A s \in Fixed("load") : s = "f3" \/ s = "op"
  /\ \A s \in Fixed("store") : s = "f3" \/ s = "op"
  /\ \A s \in Fixed("branch") : s = "f3" \/ s = "op"
  /\ \A s \in Fixed("jalr") : s = "f3" \/ s = "op"
  /\ \A s \in Fixed("float load") : s = "f3" \/ s = "op"
  /\ \A s \in Fixed("float store") : s = "f3" \/ s = "op"
  /\ \A s \in Fixed("u") : s = "op"
  /\ \A s \in Fixed("jal") : s = "op"
  /\ \A s \in Fixed("r4") : s = "op"
  /\ \A s \in Fixed("fr") : s = "f7" \/ s = "op"
  /\ \A s \in Fixed("convert") : s = "f7" \/ s = "rs2" \/ s = "op"
  /\ \A s \in Fixed("move") : s = "f7" \/ s = "rs2" \/ s = "f3" \/ s = "op"
BY FixedSlices

Low(m) == Form(m) \in {"addi", "load", "store", "branch", "jalr", "float load", "float store"}
KeepsLow(m, w) == w.op = Match(m).op /\ w.f3 = Match(m).f3
\* Rows of which only f3 and op are fixed.
LEMMA MatchesLow == ASSUME NEW m, NEW w, KeepsLow(m, w), Low(m) PROVE Matches(m, w)
BY FixedWithin DEF Matches, Low, KeepsLow

\* Rows of which only op is fixed, and of fused operations the format.
LEMMA MatchesOp ==
  ASSUME NEW m, NEW w, w.op = Match(m).op, Form(m) \in {"u", "jal", "r4"},
         Form(m) = "r4" => w.f7 % 4 = Match(m).f7 % 4
  PROVE  Matches(m, w)
BY FixedWithin DEF Matches

\* Rows with f7, f3 and op fixed.
LEMMA MatchesR ==
  ASSUME NEW m, NEW w, w.op = Match(m).op, w.f3 = Match(m).f3, w.f7 = Match(m).f7,
         Form(m) \in {"r", "float compare"}
  PROVE  Matches(m, w)
BY FixedWithin DEF Matches

\* Rows with f7 and op fixed, and rs2 and f3 where the form says so.
LEMMA MatchesFloat ==
  ASSUME NEW m, NEW w, w.op = Match(m).op, w.f7 = Match(m).f7,
         Form(m) = "fr" \/ (Form(m) = "convert" /\ w.rs2 = Match(m).rs2)
                       \/ (Form(m) = "move" /\ w.rs2 = Match(m).rs2 /\ w.f3 = Match(m).f3)
  PROVE  Matches(m, w)
BY FixedWithin DEF Matches

\* Each form in turn.
HighWord(m, a, b, v) == [Match(m) EXCEPT !.f7 = Bits(v, 11, 5), !.rs2 = Bits(v, 4, 0), !.rs1 = b, !.rd = a]
StoreWord(m, a, b, v) == [Match(m) EXCEPT !.f7 = Bits(v, 11, 5), !.rs2 = a, !.rs1 = b, !.rd = Bits(v, 4, 0)]
UpperWord(m, a, v) ==
  Slices(Bits(v, 19, 13), Bits(v, 12, 8), Bits(v, 7, 3), Bits(v, 2, 0), a, Match(m).op)
BranchWord(m, a, b, v) ==
  [Match(m) EXCEPT !.f7 = Bits(v, 12, 12) * 64 + Bits(v, 10, 5), !.rs2 = b, !.rs1 = a,
                   !.rd = Bits(v, 4, 1) * 2 + Bits(v, 11, 11)]
JumpWord(m, a, v) ==
  Slices(Bits(v, 20, 20) * 64 + Bits(v, 10, 5), Bits(v, 4, 1) * 2 + Bits(v, 11, 11),
         Bits(v, 19, 15), Bits(v, 14, 12), a, Match(m).op)
ReadAs(m, w, d) == Matches(m, w) /\ DecodeInteger(m, w) = d

\* addi, loads and jalr: the immediate is the high twelve bits.
LEMMA HighWordRead ==
  ASSUME NEW m \in DOMAIN Opcodes, Form(m) \in {"addi", "load", "jalr"},
         NEW a, NEW b, NEW v \in -(2^11) .. 2^11 - 1, NEW w, w = HighWord(m, a, b, v),
         NEW d, d = [m |-> m, rd |-> a, rs1 |-> b, imm |-> v]
  PROVE  ReadAs(m, w, d)
<1>0. Form(m) \in {"addi", "load", "jalr"} /\ v \in -(2^11) .. 2^11 - 1
  OBVIOUS
<1>1. PICK p, q : p = Bits(v, 11, 5) /\ q = Bits(v, 4, 0)
  OBVIOUS
<1>2. w.f7 = p /\ w.rs2 = q /\ w.rs1 = b /\ w.rd = a /\ w.op = Match(m).op /\ w.f3 = Match(m).f3
  BY <1>1, MatchIsWord DEF HighWord, StoreWord, BranchWord, Word
<1>3. Matches(m, w)
  <2>1. Low(m) /\ KeepsLow(m, w)
    <3>1. KeepsLow(m, w)
      BY ONLY <1>2 DEF KeepsLow
    <3>2. Low(m)
      BY DEF Low
    <3> QED
      BY <3>1, <3>2
  <2> QED
    BY ONLY <2>1, MatchesLow
<1>4. HighImm(w) = v
  <2>1. HighImm(w) = Signed(p * 32 + q, 12)
    BY <1>2 DEF HighImm
  <2>2. Signed(p * 32 + q, 12) = v
    <3>1. Signed(Bits(v, 11, 5) * 32 + Bits(v, 4, 0), 12) = v
      BY ONLY <1>0 DEF Signed, Bits
    <3> QED
      BY ONLY <1>1, <3>1
  <2> QED
    BY <2>1, <2>2
<1>5. m \notin {"add", "sub"} /\ Form(m) # "u"
  BY FormIs DEF FormKnown
<1>6. DecodeInteger(m, w) = [m |-> m, rd |-> w.rd, rs1 |-> w.rs1, imm |-> HighImm(w)]
  BY <1>5 DEF DecodeInteger
<1> QED
  BY <1>2, <1>3, <1>4, <1>6 DEF ReadAs

\* Stores: the offset is in two slices.
LEMMA StoreWordRead ==
  ASSUME NEW m \in DOMAIN Opcodes, Form(m) = "store",
         NEW a, NEW b, NEW v \in -(2^11) .. 2^11 - 1, NEW w, w = StoreWord(m, a, b, v),
         NEW d, d = [m |-> m, rs2 |-> a, rs1 |-> b, imm |-> v]
  PROVE  ReadAs(m, w, d)
<1>0. Form(m) = "store" /\ v \in -(2^11) .. 2^11 - 1
  OBVIOUS
<1>1. PICK p, q : p = Bits(v, 11, 5) /\ q = Bits(v, 4, 0)
  OBVIOUS
<1>2. w.f7 = p /\ w.rd = q /\ w.rs1 = b /\ w.rs2 = a /\ w.op = Match(m).op /\ w.f3 = Match(m).f3
  BY <1>1, MatchIsWord DEF HighWord, StoreWord, BranchWord, Word
<1>3. Matches(m, w)
  <2>1. Low(m) /\ KeepsLow(m, w)
    BY ONLY <1>0, <1>2 DEF Low, KeepsLow
  <2> QED
    BY ONLY <2>1, MatchesLow
<1>4. StoreImm(w) = v
  <2>1. StoreImm(w) = Signed(p * 32 + q, 12)
    BY <1>2 DEF StoreImm
  <2>2. Signed(Bits(v, 11, 5) * 32 + Bits(v, 4, 0), 12) = v
    BY ONLY <1>0 DEF Signed, Bits
  <2> QED
    BY <1>1, <2>1, <2>2
<1>5. DecodeInteger(m, w) = [m |-> m, rs2 |-> w.rs2, rs1 |-> w.rs1, imm |-> StoreImm(w)]
  BY FormIs DEF DecodeInteger, FormKnown
<1> QED
  BY <1>2, <1>3, <1>4, <1>5 DEF ReadAs

\* lui and auipc.
LEMMA UpperWordRead ==
  ASSUME NEW m \in DOMAIN Opcodes, Form(m) = "u", NEW a, NEW v \in 0 .. 2^20 - 1, NEW w, w = UpperWord(m, a, v),
         NEW d, d = [m |-> m, rd |-> a, imm |-> v]
  PROVE  ReadAs(m, w, d)
<1>0. Form(m) = "u" /\ v \in 0 .. 2^20 - 1
  OBVIOUS
<1>1. PICK p, q, r, s : p = Bits(v, 19, 13) /\ q = Bits(v, 12, 8) /\ r = Bits(v, 7, 3) /\ s = Bits(v, 2, 0)
  OBVIOUS
<1>2. w.f7 = p /\ w.rs2 = q /\ w.rs1 = r /\ w.f3 = s /\ w.rd = a /\ w.op = Match(m).op
  BY <1>1 DEF Slices, UpperWord, JumpWord
<1>3. Matches(m, w)
  BY ONLY <1>0, <1>2, MatchesOp
<1>4. UpperImm(w) = v
  <2>1. UpperImm(w) = ((p * 32 + q) * 32 + r) * 8 + s
    BY <1>2 DEF UpperImm
  <2>2. ((Bits(v, 19, 13) * 32 + Bits(v, 12, 8)) * 32 + Bits(v, 7, 3)) * 8 + Bits(v, 2, 0) = v
    BY ONLY <1>0, UpperRead DEF UpperRejoins
  <2> QED
    BY <1>1, <2>1, <2>2
<1>5. DecodeInteger(m, w) = [m |-> m, rd |-> w.rd, imm |-> UpperImm(w)]
  BY FormIs DEF DecodeInteger, FormKnown
<1> QED
  BY <1>2, <1>3, <1>4, <1>5 DEF ReadAs

\* Branches: the offset is in four pieces.
LEMMA BranchWordRead ==
  ASSUME NEW m \in DOMAIN Opcodes, Form(m) = "branch",
         NEW a, NEW b, NEW v \in -(2^12) .. 2^12 - 2, v % 2 = 0, NEW w, w = BranchWord(m, a, b, v),
         NEW d, d = [m |-> m, rs1 |-> a, rs2 |-> b, imm |-> v]
  PROVE  ReadAs(m, w, d)
<1>0. Form(m) = "branch" /\ v \in -(2^12) .. 2^12 - 2 /\ v % 2 = 0
  OBVIOUS
<1>1. PICK p, q : p = Bits(v, 12, 12) * 64 + Bits(v, 10, 5) /\ q = Bits(v, 4, 1) * 2 + Bits(v, 11, 11)
  OBVIOUS
<1>2. w.f7 = p /\ w.rd = q /\ w.rs1 = a /\ w.rs2 = b /\ w.op = Match(m).op /\ w.f3 = Match(m).f3
  BY <1>1, MatchIsWord DEF HighWord, StoreWord, BranchWord, Word
<1>3. Matches(m, w)
  <2>1. Low(m) /\ KeepsLow(m, w)
    BY ONLY <1>0, <1>2 DEF Low, KeepsLow
  <2> QED
    BY ONLY <2>1, MatchesLow
<1>4. BranchImm(w) = v
  <2>1. BranchImm(w) = BranchOf(p, q)
    BY <1>2 DEF BranchImm, BranchOf
  <2>2. BranchOf(Bits(v, 12, 12) * 64 + Bits(v, 10, 5), Bits(v, 4, 1) * 2 + Bits(v, 11, 11)) = v
    <3>1. Imm13Rejoins(v)
      BY ONLY <1>0, Imm13Read
    <3> QED
      BY ONLY <3>1 DEF Imm13Rejoins
  <2> QED
    BY <1>1, <2>1, <2>2
<1>5. DecodeInteger(m, w) = [m |-> m, rs1 |-> w.rs1, rs2 |-> w.rs2, imm |-> BranchImm(w)]
  BY FormIs DEF DecodeInteger, FormKnown
<1> QED
  BY <1>2, <1>3, <1>4, <1>5 DEF ReadAs

\* jal: the offset is in four pieces.
LEMMA JumpWordRead ==
  ASSUME NEW m \in DOMAIN Opcodes, Form(m) = "jal",
         NEW a, NEW v \in -(2^20) .. 2^20 - 2, v % 2 = 0, NEW w, w = JumpWord(m, a, v),
         NEW d, d = [m |-> m, rd |-> a, imm |-> v]
  PROVE  ReadAs(m, w, d)
<1>0. Form(m) = "jal" /\ v \in -(2^20) .. 2^20 - 2 /\ v % 2 = 0
  OBVIOUS
<1>1. PICK p, q, r, s : /\ p = Bits(v, 20, 20) * 64 + Bits(v, 10, 5) /\ q = Bits(v, 4, 1) * 2 + Bits(v, 11, 11)
                        /\ r = Bits(v, 19, 15) /\ s = Bits(v, 14, 12)
  OBVIOUS
<1>2. w.f7 = p /\ w.rs2 = q /\ w.rs1 = r /\ w.f3 = s /\ w.rd = a /\ w.op = Match(m).op
  BY <1>1 DEF Slices, UpperWord, JumpWord
<1>3. Matches(m, w)
  BY ONLY <1>0, <1>2, MatchesOp
<1>4. JumpImm(w) = v
  <2>1. JumpImm(w) = JumpOf(p, q, r, s)
    BY <1>2 DEF JumpImm, JumpOf
  <2>2. JumpOf(Bits(v, 20, 20) * 64 + Bits(v, 10, 5), Bits(v, 4, 1) * 2 + Bits(v, 11, 11),
               Bits(v, 19, 15), Bits(v, 14, 12)) = v
    BY ONLY <1>0, Imm21Read DEF Imm21Rejoins
  <2> QED
    BY <1>1, <2>1, <2>2
<1>5. DecodeInteger(m, w) = [m |-> m, rd |-> w.rd, imm |-> JumpImm(w)]
  BY FormIs DEF DecodeInteger, FormKnown
<1> QED
  BY <1>2, <1>3, <1>4, <1>5 DEF ReadAs

-----------------------------------------------------------------------------
(* Each encoder of assemble_instruction.                                   *)

\* The operands an instruction is written with, by its form.
LEMMA WrittenAs ==
  ASSUME NEW line
  PROVE  LET form == Form(line.m)  memory == HasMemory(line.ops)  fields == Written(line) IN
         /\ form \in {"addi", "load", "jalr"} /\ ~memory => fields = <<"rd", "rs1", "imm">>
         /\ form \in {"addi", "load", "jalr"} /\ memory => fields = <<"rd", "imm(rs1)">>
         /\ form = "r" /\ ~memory => fields = <<"rd", "rs1", "rs2">>
         /\ form = "r" /\ memory => fields = <<"rd", "(rs1)">>
         /\ form = "fr" => fields = <<"rd", "rs1", "rs2">>
         /\ form = "u" => fields = <<"rd", "imm">>
         /\ form = "store" => fields = <<"rs2", "imm(rs1)">>
         /\ form = "branch" => fields = <<"rs1", "rs2", "target">>
         /\ form = "jal" => fields = <<"rd", "target">>
         /\ form \in {"convert", "move"} => fields = <<"rd", "rs1">>
BY DEF Written

\* An operand that is accepted as a register is one.
LEMMA RegisterWritten ==
  /\ \A o : X(o) \in 0 .. 31 => o.t = "reg"
  /\ \A o : F(o) \in 0 .. 31 => o.t = "reg"
BY DEF X, F

\* Which decoder a form has.
LEMMA DecoderOf ==
  ASSUME NEW m \in DOMAIN Opcodes
  PROVE  /\ Form(m) \in {"addi", "u", "load", "store", "branch", "jal", "jalr"} =>
              m \in IntegerMnemonics /\ m \notin FloatMnemonics
         /\ Form(m) \in {"convert", "move"} => m \in FloatMnemonics /\ m \notin IntegerMnemonics
         /\ m \in {"fadd.s", "fadd.d"} => m \in FloatMnemonics /\ m \notin IntegerMnemonics
         /\ m \in {"add", "sub"} => m \in IntegerMnemonics /\ m \notin FloatMnemonics
<1>1. FormKnown(m)
  BY FormIs
<1>2. m \in IntegerMnemonics <=>
        m \in {"add", "sub"} \/ Form(m) \in {"addi", "load", "jalr", "u", "store", "branch", "jal"}
  BY DEF IntegerMnemonics
<1>3. m \in FloatMnemonics <=> m \in {"fadd.s", "fadd.d"} \/ Form(m) \in {"convert", "move"}
  BY DEF FloatMnemonics
<1> QED
  BY <1>1, <1>2, <1>3 DEF FormKnown

\* An integer instruction is read back by its decoded fields.
LEMMA IntegerReads ==
  ASSUME NEW line, NEW env, NEW w, NEW d, NEW fields, line.m \in DOMAIN Opcodes,
         line.m \in IntegerMnemonics, line.m \notin FloatMnemonics,
         ReadAs(line.m, w, d), Written(line) = fields, Takes(d, line, fields, env)
  PROVE  Reads(line, env, w)
BY ReadsFrom DEF ReadAs

\* A floating instruction is read back by its decoded fields.
LEMMA FloatReads ==
  ASSUME NEW line, NEW env, NEW w, NEW d, NEW fields, line.m \in DOMAIN Opcodes,
         line.m \in FloatMnemonics, line.m \notin IntegerMnemonics,
         Matches(line.m, w), DecodeFloat(line.m, w) = d, Written(line) = fields, Takes(d, line, fields, env)
  PROVE  Reads(line, env, w)
BY ReadsFrom

\* encode_addi is undone by the decoder.
LEMMA ReadAddi ==
  ASSUME NEW line, NEW env, NEW w, line.m \in DOMAIN Opcodes, Form(line.m) = "addi", w # NoWord,
         w = EncodeAddi([rd |-> X(line.ops[1]), rs1 |-> X(line.ops[2]), imm |-> Value(line.ops[3], env)]),
         HasValue(line.ops[3], env.values, env.global),
         Len(line.ops) = 3, line.ops[3].t = "expr"
  PROVE  Reads(line, env, w)
<1>1. PICK a, b, v : a = X(line.ops[1]) /\ b = X(line.ops[2]) /\ v = Value(line.ops[3], env)
  OBVIOUS
<1>2. PICK m : m = line.m
  OBVIOUS
<1>3. PICK i : i = [rd |-> a, rs1 |-> b, imm |-> v]
  OBVIOUS
<1>4. w = EncodeAddi(i)
  BY <1>1, <1>2, <1>3
<1>5. m = "addi"
  BY <1>2, FormIs DEF FormKnown
<1>6. RegistersFit(i) /\ i.imm \in -(2^11) .. 2^11 - 1
  BY <1>4 DEF EncodeAddi, Imm12Fits
<1>7. a \in 0 .. 31 /\ b \in 0 .. 31 /\ v \in -(2^11) .. 2^11 - 1
  <2>1. i["rd"] = a /\ i["rs1"] = b /\ i.imm = v /\ "rd" \in DOMAIN i /\ "rs1" \in DOMAIN i
    BY ONLY <1>3
  <2>2. i["rd"] \in 0 .. 31 /\ i["rs1"] \in 0 .. 31
    BY ONLY <1>6, <2>1, RegistersKnown
  <2> QED
    BY ONLY <1>6, <2>1, <2>2
<1>8. w = HighWord(m, a, b, v)
  BY <1>3, <1>4, <1>5, <1>6 DEF EncodeAddi, Imm12Fits, WithImm12, HighWord
<1>9. PICK d : d = [m |-> m, rd |-> a, rs1 |-> b, imm |-> v]
  OBVIOUS
<1>10. ReadAs(m, w, d)
  <2>1. m \in DOMAIN Opcodes /\ Form(m) = "addi"
    BY <1>2
  <2> QED
    BY ONLY <1>7, <1>8, <1>9, <2>1, HighWordRead
<1>11. d.rd = line.ops[1].n /\ d.rs1 = line.ops[2].n /\ d.imm = Value(line.ops[3], env) /\ HasValue(line.ops[3], env.values, env.global)
  BY <1>1, <1>7, <1>9, RegisterIs
<1>12. Takes(d, line, <<"rd", "rs1", "imm">>, env)
  BY ONLY <1>11, CarriesField, TakesThree
<1>13. Written(line) = <<"rd", "rs1", "imm">> /\ m \in IntegerMnemonics /\ m \notin FloatMnemonics
  <2>1. line.ops[1].t = "reg" /\ line.ops[2].t = "reg"
    BY <1>1, <1>7, RegisterWritten
  <2>2. ~HasMemory(line.ops)
    BY <2>1 DEF HasMemory
  <2> QED
    BY <1>2, <2>2, WrittenAs, DecoderOf
<1> QED
  BY <1>2, <1>10, <1>12, <1>13, IntegerReads

\* The encoder of loads is undone by the decoder.
LEMMA ReadLoad ==
  ASSUME NEW line, NEW env, NEW w, line.m \in DOMAIN Opcodes, Form(line.m) = "load", w # NoWord,
         w = EncodeLoad(line.m, [rd |-> X(line.ops[1]), rs1 |-> line.ops[2].base, imm |-> Value(line.ops[2], env)]),
         HasValue(line.ops[2], env.values, env.global),
         Len(line.ops) = 2, line.ops[2].t = "mem"
  PROVE  Reads(line, env, w)
<1>1. PICK a, b, v : a = X(line.ops[1]) /\ b = line.ops[2].base /\ v = Value(line.ops[2], env)
  OBVIOUS
<1>2. PICK m : m = line.m
  OBVIOUS
<1>3. PICK i : i = [rd |-> a, rs1 |-> b, imm |-> v]
  OBVIOUS
<1>4. w = EncodeLoad(m, i)
  BY <1>1, <1>2, <1>3
<1>5. m \in DOMAIN Opcodes /\ Form(m) = "load"
  BY <1>2
<1>6. RegistersFit(i) /\ i.imm \in -(2^11) .. 2^11 - 1
  BY <1>4 DEF EncodeLoad, Imm12Fits
<1>7. a \in 0 .. 31 /\ b \in 0 .. 31 /\ v \in -(2^11) .. 2^11 - 1
  <2>1. i["rd"] = a /\ i["rs1"] = b /\ i.imm = v /\ "rd" \in DOMAIN i /\ "rs1" \in DOMAIN i
    BY ONLY <1>3
  <2>2. i["rd"] \in 0 .. 31 /\ i["rs1"] \in 0 .. 31
    BY ONLY <1>6, <2>1, RegistersKnown
  <2> QED
    BY ONLY <1>6, <2>1, <2>2
<1>8. w = HighWord(m, a, b, v)
  BY <1>3, <1>4, <1>5, <1>6 DEF EncodeLoad, Imm12Fits, WithImm12, HighWord
<1>9. PICK d : d = [m |-> m, rd |-> a, rs1 |-> b, imm |-> v]
  OBVIOUS
<1>10. ReadAs(m, w, d)
  <2>1. m \in DOMAIN Opcodes /\ Form(m) = "load"
    BY <1>2
  <2> QED
    BY ONLY <1>7, <1>8, <1>9, <2>1, HighWordRead
<1>11. d.rd = line.ops[1].n /\ d.rs1 = line.ops[2].base /\ d.imm = Value(line.ops[2], env) /\ HasValue(line.ops[2], env.values, env.global)
  BY <1>1, <1>7, <1>9, RegisterIs
<1>12. Takes(d, line, <<"rd", "imm(rs1)">>, env)
  BY ONLY <1>11, CarriesField, TakesTwo
<1>13. Written(line) = <<"rd", "imm(rs1)">> /\ m \in IntegerMnemonics /\ m \notin FloatMnemonics
  <2>1. HasMemory(line.ops)
    BY DEF HasMemory
  <2> QED
    BY <1>2, <2>1, WrittenAs, DecoderOf
<1> QED
  BY <1>2, <1>10, <1>12, <1>13, IntegerReads

\* The encoder of jalr is undone by the decoder.
LEMMA ReadJalr ==
  ASSUME NEW line, NEW env, NEW w, line.m \in DOMAIN Opcodes, Form(line.m) = "jalr", w # NoWord,
         w = EncodeJalr([rd |-> X(line.ops[1]), rs1 |-> line.ops[2].base, imm |-> Value(line.ops[2], env)]),
         HasValue(line.ops[2], env.values, env.global),
         Len(line.ops) = 2, line.ops[2].t = "mem"
  PROVE  Reads(line, env, w)
<1>1. PICK a, b, v : a = X(line.ops[1]) /\ b = line.ops[2].base /\ v = Value(line.ops[2], env)
  OBVIOUS
<1>2. PICK m : m = line.m
  OBVIOUS
<1>3. PICK i : i = [rd |-> a, rs1 |-> b, imm |-> v]
  OBVIOUS
<1>4. w = EncodeJalr(i)
  BY <1>1, <1>2, <1>3
<1>5. m = "jalr"
  BY <1>2, FormIs DEF FormKnown
<1>6. RegistersFit(i) /\ i.imm \in -(2^11) .. 2^11 - 1
  BY <1>4 DEF EncodeJalr, Imm12Fits
<1>7. a \in 0 .. 31 /\ b \in 0 .. 31 /\ v \in -(2^11) .. 2^11 - 1
  <2>1. i["rd"] = a /\ i["rs1"] = b /\ i.imm = v /\ "rd" \in DOMAIN i /\ "rs1" \in DOMAIN i
    BY ONLY <1>3
  <2>2. i["rd"] \in 0 .. 31 /\ i["rs1"] \in 0 .. 31
    BY ONLY <1>6, <2>1, RegistersKnown
  <2> QED
    BY ONLY <1>6, <2>1, <2>2
<1>8. w = HighWord(m, a, b, v)
  BY <1>3, <1>4, <1>5, <1>6 DEF EncodeJalr, Imm12Fits, WithImm12, HighWord
<1>9. PICK d : d = [m |-> m, rd |-> a, rs1 |-> b, imm |-> v]
  OBVIOUS
<1>10. ReadAs(m, w, d)
  <2>1. m \in DOMAIN Opcodes /\ Form(m) = "jalr"
    BY <1>2
  <2> QED
    BY ONLY <1>7, <1>8, <1>9, <2>1, HighWordRead
<1>11. d.rd = line.ops[1].n /\ d.rs1 = line.ops[2].base /\ d.imm = Value(line.ops[2], env) /\ HasValue(line.ops[2], env.values, env.global)
  BY <1>1, <1>7, <1>9, RegisterIs
<1>12. Takes(d, line, <<"rd", "imm(rs1)">>, env)
  BY ONLY <1>11, CarriesField, TakesTwo
<1>13. Written(line) = <<"rd", "imm(rs1)">> /\ m \in IntegerMnemonics /\ m \notin FloatMnemonics
  <2>1. HasMemory(line.ops)
    BY DEF HasMemory
  <2> QED
    BY <1>2, <2>1, WrittenAs, DecoderOf
<1> QED
  BY <1>2, <1>10, <1>12, <1>13, IntegerReads

\* The encoder of stores is undone by the decoder.
LEMMA ReadStore ==
  ASSUME NEW line, NEW env, NEW w, line.m \in DOMAIN Opcodes, Form(line.m) = "store", w # NoWord,
         w = EncodeStore(line.m, [rs2 |-> X(line.ops[1]), rs1 |-> line.ops[2].base, imm |-> Value(line.ops[2], env)]),
         HasValue(line.ops[2], env.values, env.global)
  PROVE  Reads(line, env, w)
<1>1. PICK a, b, v : a = X(line.ops[1]) /\ b = line.ops[2].base /\ v = Value(line.ops[2], env)
  OBVIOUS
<1>2. PICK m : m = line.m
  OBVIOUS
<1>3. PICK i : i = [rs2 |-> a, rs1 |-> b, imm |-> v]
  OBVIOUS
<1>4. w = EncodeStore(m, i)
  BY <1>1, <1>2, <1>3
<1>5. m \in DOMAIN Opcodes /\ Form(m) = "store"
  BY <1>2
<1>6. RegistersFit(i) /\ i.imm \in -(2^11) .. 2^11 - 1
  BY <1>4 DEF EncodeStore, Imm12Fits
<1>7. a \in 0 .. 31 /\ b \in 0 .. 31 /\ v \in -(2^11) .. 2^11 - 1
  <2>1. i["rs2"] = a /\ i["rs1"] = b /\ i.imm = v /\ "rs2" \in DOMAIN i /\ "rs1" \in DOMAIN i
    BY ONLY <1>3
  <2>2. i["rs2"] \in 0 .. 31 /\ i["rs1"] \in 0 .. 31
    BY ONLY <1>6, <2>1, RegistersKnown
  <2> QED
    BY ONLY <1>6, <2>1, <2>2
<1>8. w = StoreWord(m, a, b, v)
  BY <1>3, <1>4, <1>5, <1>6 DEF EncodeStore, StoreWord, Imm12Fits
<1>9. PICK d : d = [m |-> m, rs2 |-> a, rs1 |-> b, imm |-> v]
  OBVIOUS
<1>10. ReadAs(m, w, d)
  <2>1. m \in DOMAIN Opcodes /\ Form(m) = "store"
    BY <1>2
  <2> QED
    BY ONLY <1>7, <1>8, <1>9, <2>1, StoreWordRead
<1>11. d.rs2 = line.ops[1].n /\ d.rs1 = line.ops[2].base /\ d.imm = Value(line.ops[2], env) /\ HasValue(line.ops[2], env.values, env.global)
  BY <1>1, <1>7, <1>9, RegisterIs
<1>12. Takes(d, line, <<"rs2", "imm(rs1)">>, env)
  BY ONLY <1>11, CarriesField, TakesTwo
<1>13. Written(line) = <<"rs2", "imm(rs1)">> /\ m \in IntegerMnemonics /\ m \notin FloatMnemonics
  BY <1>2, WrittenAs, DecoderOf
<1> QED
  BY <1>2, <1>10, <1>12, <1>13, IntegerReads

\* The encoder of branches is undone by the decoder.
LEMMA ReadBranch ==
  ASSUME NEW line, NEW env, NEW w, line.m \in DOMAIN Opcodes, Form(line.m) = "branch", w # NoWord,
         w = EncodeBranch(line.m, [rs1 |-> X(line.ops[1]), rs2 |-> X(line.ops[2]), imm |-> Value(line.ops[3], env)]),
         HasValue(line.ops[3], env.values, env.global)
  PROVE  Reads(line, env, w)
<1>1. PICK a, b, v : a = X(line.ops[1]) /\ b = X(line.ops[2]) /\ v = Value(line.ops[3], env)
  OBVIOUS
<1>2. PICK m : m = line.m
  OBVIOUS
<1>3. PICK i : i = [rs1 |-> a, rs2 |-> b, imm |-> v]
  OBVIOUS
<1>4. w = EncodeBranch(m, i)
  BY <1>1, <1>2, <1>3
<1>5. m \in DOMAIN Opcodes /\ Form(m) = "branch"
  BY <1>2
<1>6. RegistersFit(i) /\ i.imm \in -(2^12) .. 2^12 - 2 /\ i.imm % 2 = 0
  BY <1>4 DEF EncodeBranch
<1>7. a \in 0 .. 31 /\ b \in 0 .. 31 /\ v \in -(2^12) .. 2^12 - 2 /\ v % 2 = 0
  <2>1. i["rs1"] = a /\ i["rs2"] = b /\ i.imm = v /\ "rs1" \in DOMAIN i /\ "rs2" \in DOMAIN i
    BY ONLY <1>3
  <2>2. i["rs1"] \in 0 .. 31 /\ i["rs2"] \in 0 .. 31
    BY ONLY <1>6, <2>1, RegistersKnown
  <2> QED
    BY ONLY <1>6, <2>1, <2>2
<1>8. w = BranchWord(m, a, b, v)
  BY <1>3, <1>4, <1>5, <1>6 DEF EncodeBranch, BranchWord
<1>9. PICK d : d = [m |-> m, rs1 |-> a, rs2 |-> b, imm |-> v]
  OBVIOUS
<1>10. ReadAs(m, w, d)
  <2>1. m \in DOMAIN Opcodes /\ Form(m) = "branch"
    BY <1>2
  <2> QED
    BY ONLY <1>7, <1>8, <1>9, <2>1, BranchWordRead
<1>11. d.rs1 = line.ops[1].n /\ d.rs2 = line.ops[2].n /\ d.imm = Value(line.ops[3], env) /\ HasValue(line.ops[3], env.values, env.global)
  BY <1>1, <1>7, <1>9, RegisterIs
<1>12. Takes(d, line, <<"rs1", "rs2", "target">>, env)
  BY ONLY <1>11, CarriesField, TakesThree
<1>13. Written(line) = <<"rs1", "rs2", "target">> /\ m \in IntegerMnemonics /\ m \notin FloatMnemonics
  BY <1>2, WrittenAs, DecoderOf
<1> QED
  BY <1>2, <1>10, <1>12, <1>13, IntegerReads

\* The encoder of lui and auipc is undone by the decoder.
LEMMA ReadUpper ==
  ASSUME NEW line, NEW env, NEW w, line.m \in DOMAIN Opcodes, Form(line.m) = "u", w # NoWord,
         w = EncodeU(line.m, [rd |-> X(line.ops[1]), imm |-> Value(line.ops[2], env)]),
         HasValue(line.ops[2], env.values, env.global)
  PROVE  Reads(line, env, w)
<1>1. PICK a, v : a = X(line.ops[1]) /\ v = Value(line.ops[2], env)
  OBVIOUS
<1>2. PICK m : m = line.m
  OBVIOUS
<1>3. PICK i : i = [rd |-> a, imm |-> v]
  OBVIOUS
<1>4. w = EncodeU(m, i)
  BY <1>1, <1>2, <1>3
<1>5. m \in DOMAIN Opcodes /\ Form(m) = "u"
  BY <1>2
<1>6. RegistersFit(i) /\ i.imm \in 0 .. 2^20 - 1
  BY <1>4 DEF EncodeU
<1>7. a \in 0 .. 31 /\ v \in 0 .. 2^20 - 1
  <2>1. i["rd"] = a /\ i.imm = v /\ "rd" \in DOMAIN i
    BY ONLY <1>3
  <2>2. i["rd"] \in 0 .. 31
    BY ONLY <1>6, <2>1, RegistersKnown
  <2> QED
    BY ONLY <1>6, <2>1, <2>2
<1>8. w = UpperWord(m, a, v)
  BY <1>3, <1>4, <1>5, <1>6 DEF EncodeU, UpperWord
<1>9. PICK d : d = [m |-> m, rd |-> a, imm |-> v]
  OBVIOUS
<1>10. ReadAs(m, w, d)
  <2>1. m \in DOMAIN Opcodes /\ Form(m) = "u"
    BY <1>2
  <2> QED
    BY ONLY <1>7, <1>8, <1>9, <2>1, UpperWordRead
<1>11. d.rd = line.ops[1].n /\ d.imm = Value(line.ops[2], env) /\ HasValue(line.ops[2], env.values, env.global)
  BY <1>1, <1>7, <1>9, RegisterIs
<1>12. Takes(d, line, <<"rd", "imm">>, env)
  BY ONLY <1>11, CarriesField, TakesTwo
<1>13. Written(line) = <<"rd", "imm">> /\ m \in IntegerMnemonics /\ m \notin FloatMnemonics
  BY <1>2, WrittenAs, DecoderOf
<1> QED
  BY <1>2, <1>10, <1>12, <1>13, IntegerReads

\* The encoder of jal is undone by the decoder.
LEMMA ReadJal ==
  ASSUME NEW line, NEW env, NEW w, line.m \in DOMAIN Opcodes, Form(line.m) = "jal", w # NoWord,
         w = EncodeJal([rd |-> X(line.ops[1]), imm |-> Value(line.ops[2], env)]),
         HasValue(line.ops[2], env.values, env.global)
  PROVE  Reads(line, env, w)
<1>1. PICK a, v : a = X(line.ops[1]) /\ v = Value(line.ops[2], env)
  OBVIOUS
<1>2. PICK m : m = line.m
  OBVIOUS
<1>3. PICK i : i = [rd |-> a, imm |-> v]
  OBVIOUS
<1>4. w = EncodeJal(i)
  BY <1>1, <1>2, <1>3
<1>5. m = "jal"
  BY <1>2, FormIs DEF FormKnown
<1>6. RegistersFit(i) /\ i.imm \in -(2^20) .. 2^20 - 2 /\ i.imm % 2 = 0
  BY <1>4 DEF EncodeJal
<1>7. a \in 0 .. 31 /\ v \in -(2^20) .. 2^20 - 2 /\ v % 2 = 0
  <2>1. i["rd"] = a /\ i.imm = v /\ "rd" \in DOMAIN i
    BY ONLY <1>3
  <2>2. i["rd"] \in 0 .. 31
    BY ONLY <1>6, <2>1, RegistersKnown
  <2> QED
    BY ONLY <1>6, <2>1, <2>2
<1>8. w = JumpWord(m, a, v)
  BY <1>3, <1>4, <1>5, <1>6 DEF EncodeJal, JumpWord
<1>9. PICK d : d = [m |-> m, rd |-> a, imm |-> v]
  OBVIOUS
<1>10. ReadAs(m, w, d)
  <2>1. m \in DOMAIN Opcodes /\ Form(m) = "jal"
    BY <1>2
  <2> QED
    BY ONLY <1>7, <1>8, <1>9, <2>1, JumpWordRead
<1>11. d.rd = line.ops[1].n /\ d.imm = Value(line.ops[2], env) /\ HasValue(line.ops[2], env.values, env.global)
  BY <1>1, <1>7, <1>9, RegisterIs
<1>12. Takes(d, line, <<"rd", "target">>, env)
  BY ONLY <1>11, CarriesField, TakesTwo
<1>13. Written(line) = <<"rd", "target">> /\ m \in IntegerMnemonics /\ m \notin FloatMnemonics
  BY <1>2, WrittenAs, DecoderOf
<1> QED
  BY <1>2, <1>10, <1>12, <1>13, IntegerReads

-----------------------------------------------------------------------------
(* The generic encoder puts the fields of a row into its word one by one.  *)

FieldNames == {"rd", "rs1", "rs2", "rs3", "rm", "imm12", "imm12hi", "imm12lo"}

\* The fields of each form, in the order the generic encoder fills them.
LEMMA FieldsOf ==
  /\ \A m : Form(m) = "r" => Fields(m) = <<"rd", "rs1", "rs2">>
  /\ \A m : Form(m) = "float compare" => Fields(m) = <<"rd", "rs1", "rs2">>
  /\ \A m : Form(m) = "fr" => Fields(m) = <<"rd", "rs1", "rs2", "rm">>
  /\ \A m : Form(m) = "convert" => Fields(m) = <<"rd", "rs1", "rm">>
  /\ \A m : Form(m) = "r4" => Fields(m) = <<"rd", "rs1", "rs2", "rs3", "rm">>
  /\ \A m : Form(m) = "addi" => Fields(m) = <<"rd", "rs1", "imm12">>
  /\ \A m : Form(m) = "load" => Fields(m) = <<"rd", "rs1", "imm12">>
  /\ \A m : Form(m) = "jalr" => Fields(m) = <<"rd", "rs1", "imm12">>
  /\ \A m : Form(m) = "float load" => Fields(m) = <<"rd", "rs1", "imm12">>
  /\ \A m : Form(m) = "store" => Fields(m) = <<"imm12hi", "rs1", "rs2", "imm12lo">>
  /\ \A m : Form(m) = "float store" => Fields(m) = <<"imm12hi", "rs1", "rs2", "imm12lo">>
  /\ \A m : Form(m) = "move" => Fields(m) = <<"rd", "rs1">>
  /\ \A m : Form(m) = "branch" => Fields(m) = <<"bimm12hi", "rs1", "rs2", "bimm12lo">>
  /\ \A m : Form(m) = "u" => Fields(m) = <<"rd", "imm20">>
  /\ \A m : Form(m) = "jal" => Fields(m) = <<"rd", "jimm20">>
BY DEF Fields, FormFields

\* What one field does to a word.
Puts(w, field, v, r) ==
  /\ r \in Word /\ r.op = w.op
  /\ field = "rm" \/ r.f3 = w.f3
  /\ field \in {"rs3", "imm12", "imm12hi"} \/ r.f7 = w.f7
  /\ field \in {"rs2", "imm12"} \/ r.rs2 = w.rs2
  /\ field = "rs1" \/ r.rs1 = w.rs1
  /\ field \in {"rd", "imm12lo"} \/ r.rd = w.rd
  /\ field = "rd" => r.rd = v /\ v \in 0 .. 31
  /\ field = "rs1" => r.rs1 = v /\ v \in 0 .. 31
  /\ field = "rs2" => r.rs2 = v /\ v \in 0 .. 31
  /\ field = "rs3" => r.f7 % 4 = w.f7 % 4
  /\ field = "imm12" => r.f7 = v \div 32 /\ r.rs2 = v % 32

\* One field put into a word: it is there, and the others are as before.
LEMMA FieldPut ==
  ASSUME NEW w \in Word, NEW field \in FieldNames, NEW v, NEW r,
         r = EncodeGeneratedField(w, field, v), r # NoWord
  PROVE  Puts(w, field, v, r)
<1>1. v \in 0 .. 2^FieldWidth(field) - 1 /\ w # NoWord
  BY DEF EncodeGeneratedField
<1>2. CASE field \in {"rd", "imm12lo"}
  <2>1. FieldWidth(field) = 5
    BY <1>2 DEF FieldWidth
  <2>2. v \in 0 .. 31
    BY <1>1, <2>1
  <2>3. r = [w EXCEPT !.rd = v]
    BY <1>1, <1>2 DEF EncodeGeneratedField
  <2> QED
    BY <1>2, <2>2, <2>3 DEF Puts, Word
<1>3. CASE field = "rs1"
  <2>1. FieldWidth(field) = 5
    BY <1>3 DEF FieldWidth
  <2>2. v \in 0 .. 31
    BY <1>1, <2>1
  <2>3. r = [w EXCEPT !.rs1 = v]
    BY <1>1, <1>3 DEF EncodeGeneratedField
  <2> QED
    BY <1>3, <2>2, <2>3 DEF Puts, Word
<1>4. CASE field = "rs2"
  <2>1. FieldWidth(field) = 5
    BY <1>4 DEF FieldWidth
  <2>2. v \in 0 .. 31
    BY <1>1, <2>1
  <2>3. r = [w EXCEPT !.rs2 = v]
    BY <1>1, <1>4 DEF EncodeGeneratedField
  <2> QED
    BY <1>4, <2>2, <2>3 DEF Puts, Word
<1>5. CASE field = "rs3"
  <2>1. FieldWidth(field) = 5
    BY <1>5 DEF FieldWidth
  <2>2. v \in 0 .. 31
    BY <1>1, <2>1
  <2>3. r = [w EXCEPT !.f7 = @ + 4 * v]
    BY <1>1, <1>5 DEF EncodeGeneratedField
  <2>4. r \in Word /\ r.f7 = w.f7 + 4 * v /\ r.op = w.op /\ r.f3 = w.f3 /\ r.rs2 = w.rs2 /\ r.rs1 = w.rs1 /\ r.rd = w.rd
    BY <2>2, <2>3 DEF Word
  <2>5. \A a \in Int : (a + 4 * v) % 4 = a % 4
    BY ONLY <2>2
  <2>6. r.f7 % 4 = w.f7 % 4
    BY <2>4, <2>5 DEF Word
  <2> QED
    BY ONLY <1>5, <2>4, <2>6 DEF Puts
<1>6. CASE field = "rm"
  <2>1. FieldWidth(field) = 3
    BY <1>6 DEF FieldWidth
  <2>2. v \in 0 .. 7
    BY <1>1, <2>1
  <2>3. r = [w EXCEPT !.f3 = v]
    BY <1>1, <1>6 DEF EncodeGeneratedField
  <2> QED
    BY <1>6, <2>2, <2>3 DEF Puts, Word
<1>7. CASE field = "imm12"
  <2>1. FieldWidth(field) = 12
    BY <1>7 DEF FieldWidth
  <2>2. v \in Nat
    BY <1>1, <2>1
  <2>3. r = [w EXCEPT !.f7 = v \div 32, !.rs2 = v % 32]
    BY <1>1, <1>7 DEF EncodeGeneratedField
  <2>4. PICK p, q : p = v \div 32 /\ q = v % 32
    OBVIOUS
  <2>5. p \in Int /\ q \in Int
    BY <2>2, <2>4
  <2>6. r = [w EXCEPT !.f7 = p, !.rs2 = q]
    BY <2>3, <2>4
  <2> QED
    BY ONLY <1>7, <2>4, <2>5, <2>6, w \in Word DEF Puts, Word
<1>8. CASE field = "imm12hi"
  <2>1. FieldWidth(field) = 7
    BY <1>8 DEF FieldWidth
  <2>2. v \in Nat
    BY <1>1, <2>1
  <2>3. r = [w EXCEPT !.f7 = v]
    BY <1>1, <1>8 DEF EncodeGeneratedField
  <2> QED
    BY <1>8, <2>2, <2>3 DEF Puts, Word
<1> QED
  BY <1>2, <1>3, <1>4, <1>5, <1>6, <1>7, <1>8 DEF FieldNames

\* The words after each field.
Filling(m, values, f) ==
  /\ f[0] = Match(m) /\ WithFields(m, values) = f[Len(Fields(m))]
  /\ \A i \in 1 .. Len(Fields(m)) : f[i] = EncodeGeneratedField(f[i - 1], Fields(m)[i], values[i])

\* The words between the empty one and the one with all fields exist.
LEMMA FieldsInOrder ==
  ASSUME NEW m, NEW values, Len(Fields(m)) \in 1 .. 5
  PROVE  \E f : Filling(m, values, f)
<1> DEFINE L == Len(Fields(m))
           E(w, i) == EncodeGeneratedField(w, Fields(m)[i], values[i])
           w0 == Match(m)
           w1 == E(w0, 1)
           w2 == E(w1, 2)
           w3 == E(w2, 3)
           w4 == E(w3, 4)
           w5 == E(w4, 5)
           g == [i \in 0 .. L |-> IF i = 0 THEN w0 ELSE IF i = 1 THEN w1 ELSE IF i = 2 THEN w2
                                  ELSE IF i = 3 THEN w3 ELSE IF i = 4 THEN w4 ELSE w5]
           word == CHOOSE f : f = [i \in 0 .. L |-> IF i = 0 THEN w0 ELSE E(f[i - 1], i)]
<1>0. L \in 1 .. 5
  OBVIOUS
<1>1. WithFields(m, values) = word[L]
  BY DEF WithFields
<1> HIDE DEF L
<1>2. /\ w1 = E(w0, 1) /\ w2 = E(w1, 2) /\ w3 = E(w2, 3) /\ w4 = E(w3, 4) /\ w5 = E(w4, 5)
  OBVIOUS
<1> HIDE DEF E, w0, w1, w2, w3, w4, w5
<1>3. \A i \in 0 .. L : g[i] = IF i = 0 THEN w0 ELSE E(g[i - 1], i)
  BY <1>0, <1>2
<1>4. g = [i \in 0 .. L |-> IF i = 0 THEN w0 ELSE E(g[i - 1], i)]
  BY <1>3
<1> HIDE DEF g
<1>5. word = [i \in 0 .. L |-> IF i = 0 THEN w0 ELSE E(word[i - 1], i)]
  BY <1>4
<1> HIDE DEF word
<1>6. word[0] = w0 /\ \A i \in 1 .. L : word[i] = E(word[i - 1], i)
  BY <1>0, <1>5
<1> QED
  BY <1>1, <1>6 DEF Filling, L, E, w0

\* A word comes only of a value that the field can hold.
LEMMA FieldHolds ==
  ASSUME NEW w, NEW field, NEW v, EncodeGeneratedField(w, field, v) # NoWord
  PROVE  v \in 0 .. 2^FieldWidth(field) - 1
BY Zenon DEF EncodeGeneratedField

\* If the last word is one, so are the words between, and no value is refused.
LEMMA AllWords ==
  ASSUME NEW m, NEW values, NEW L, L = Len(Fields(m)), L \in 1 .. 5,
         NEW f, Filling(m, values, f), WithFields(m, values) # NoWord
  PROVE  \A i \in 1 .. L : /\ f[i] # NoWord /\ f[i] = EncodeGeneratedField(f[i - 1], Fields(m)[i], values[i])
                           /\ values[i] # -1
<1>1. f[L] # NoWord
  BY DEF Filling
<1>2. ASSUME NEW i \in 1 .. L PROVE f[i] = EncodeGeneratedField(f[i - 1], Fields(m)[i], values[i])
  BY DEF Filling
<1>3. ASSUME NEW i \in 1 .. L, f[i] # NoWord PROVE f[i - 1] # NoWord
  BY <1>2, <1>3 DEF EncodeGeneratedField
<1>4. \A i \in 1 .. L : f[i] # NoWord
  <2>1. L >= 4 => f[4] # NoWord
    BY <1>1, <1>3
  <2>2. L >= 3 => f[3] # NoWord
    BY <1>1, <1>3, <2>1
  <2>3. L >= 2 => f[2] # NoWord
    BY <1>1, <1>3, <2>2
  <2>4. f[1] # NoWord
    BY <1>1, <1>3, <2>3
  <2>5. ASSUME NEW i \in 1 .. L PROVE f[i] # NoWord
    <3>1. i = L \/ i = 1 \/ (i = 2 /\ L >= 2) \/ (i = 3 /\ L >= 3) \/ (i = 4 /\ L >= 4)
      BY ONLY <2>5, L \in 1 .. 5
    <3> QED
      BY ONLY <3>1, <1>1, <2>1, <2>2, <2>3, <2>4
  <2> QED
    BY <2>5
<1>5. ASSUME NEW i \in 1 .. L PROVE values[i] # -1
  <2>1. EncodeGeneratedField(f[i - 1], Fields(m)[i], values[i]) # NoWord
    BY <1>2, <1>4, <1>5
  <2> DEFINE top == 2^FieldWidth(Fields(m)[i]) - 1
  <2>2. values[i] \in 0 .. top
    BY Zenon, <2>1, FieldHolds
  <2> HIDE DEF top
  <2> QED
    BY ONLY <2>2
<1> QED
  BY <1>2, <1>4, <1>5

\* If the last word is one, every field was put into a word.
LEMMA AllPut ==
  ASSUME NEW m \in DOMAIN Opcodes, NEW values, NEW L, L = Len(Fields(m)), L \in 1 .. 5,
         \A i \in 1 .. L : Fields(m)[i] \in FieldNames,
         NEW f, Filling(m, values, f), WithFields(m, values) # NoWord
  PROVE  \A i \in 1 .. L : Puts(f[i - 1], Fields(m)[i], values[i], f[i])
<1>1. f[0] \in Word
  BY MatchIsWord DEF Filling
<1>2. \A i \in 1 .. L : f[i] # NoWord /\ f[i] = EncodeGeneratedField(f[i - 1], Fields(m)[i], values[i])
  BY AllWords
<1>3. ASSUME NEW i \in 1 .. L, f[i - 1] \in Word
      PROVE  Puts(f[i - 1], Fields(m)[i], values[i], f[i]) /\ f[i] \in Word
  <2>1. Puts(f[i - 1], Fields(m)[i], values[i], f[i])
    BY <1>2, <1>3, FieldPut
  <2> QED
    BY <2>1 DEF Puts
<1>4. \A i \in 1 .. L : f[i - 1] \in Word
  <2>1. f[1] \in Word
    BY <1>1, <1>3
  <2>2. L >= 2 => f[2] \in Word
    BY <1>3, <2>1
  <2>3. L >= 3 => f[3] \in Word
    BY <1>3, <2>2
  <2>4. L >= 4 => f[4] \in Word
    BY <1>3, <2>3
  <2> QED
    BY <1>1, <2>1, <2>2, <2>3, <2>4
<1> QED
  BY <1>3, <1>4

\* No value of a word that was filled is refused.
LEMMA NoneRefused ==
  ASSUME NEW m, NEW values, WithFields(m, values) # NoWord, NEW fields, fields = Fields(m), Len(fields) \in 1 .. 5,
         NEW i \in 1 .. Len(fields)
  PROVE  values[i] # -1
<1>1. PICK f : Filling(m, values, f)
  BY FieldsInOrder
<1>2. \A j \in 1 .. Len(Fields(m)) : values[j] # -1
  <2>1. PICK L : L = Len(Fields(m)) /\ L \in 1 .. 5
    OBVIOUS
  <2>2. \A j \in 1 .. L : values[j] # -1
    BY <1>1, <2>1, AllWords
  <2> QED
    BY ONLY <2>1, <2>2
<1> QED
  BY <1>2

FieldsThere(m, L) ==
  L = Len(Fields(m)) /\ L \in 1 .. 5 /\ \A i \in 1 .. L : Fields(m)[i] \in FieldNames
PutInOrder(m, values, L, w) ==
  \E f : f[0] = Match(m) /\ w = f[L] /\ \A i \in 1 .. L : Puts(f[i - 1], Fields(m)[i], values[i], f[i])

\* The word of the generic encoder, field by field.
LEMMA WordFilled ==
  ASSUME NEW m \in DOMAIN Opcodes, NEW values, NEW w, w = WithFields(m, values), w # NoWord,
         NEW L, FieldsThere(m, L)
  PROVE  PutInOrder(m, values, L, w)
<1>0. L = Len(Fields(m)) /\ L \in 1 .. 5 /\ \A i \in 1 .. L : Fields(m)[i] \in FieldNames
  BY DEF FieldsThere
<1>1. PICK f : Filling(m, values, f)
  BY <1>0, FieldsInOrder
<1>2. \A i \in 1 .. L : Puts(f[i - 1], Fields(m)[i], values[i], f[i])
  BY <1>0, <1>1, AllPut
<1> QED
  BY <1>0, <1>1, <1>2 DEF Filling, PutInOrder

\* What the generic encoder makes of each form.
Filled(m, values, w) ==
  /\ Matches(m, w)
  /\ Form(m) \in {"r", "fr", "convert", "addi", "load", "jalr"} =>
       w.rd = values[1] /\ w.rs1 = values[2] /\ values[1] \in 0 .. 31 /\ values[2] \in 0 .. 31
  /\ Form(m) \in {"r", "fr"} => w.rs2 = values[3] /\ values[3] \in 0 .. 31
  /\ Form(m) \in {"addi", "load", "jalr"} => w.f7 = values[3] \div 32 /\ w.rs2 = values[3] % 32

\* The word of the generic encoder, form by form.
LEMMA FilledForms ==
  ASSUME NEW m \in DOMAIN Opcodes, NEW values, NEW w, w = WithFields(m, values), w # NoWord,
         Form(m) \in {"r", "float compare", "fr", "convert", "r4", "float load", "float store", "addi", "load", "jalr"}
  PROVE  Filled(m, values, w)
<1>1. CASE Form(m) = "r"
  <2>1. Fields(m) = <<"rd", "rs1", "rs2">>
    BY <1>1, FieldsOf
  <2>2. Len(Fields(m)) = 3 /\ Fields(m)[1] = "rd" /\ Fields(m)[2] = "rs1" /\ Fields(m)[3] = "rs2"
    BY ONLY <2>1
  <2>3. FieldsThere(m, 3)
    BY ONLY <2>2 DEF FieldNames, FieldsThere
  <2>4. PutInOrder(m, values, 3, w)
    BY <2>3, WordFilled
  <2>5. PICK f : f[0] = Match(m) /\ w = f[3] /\ \A i \in 1 .. 3 : Puts(f[i - 1], Fields(m)[i], values[i], f[i])
    BY ONLY <2>4 DEF PutInOrder
  <2>6. /\ Puts(f[0], "rd", values[1], f[1])
        /\ Puts(f[1], "rs1", values[2], f[2])
        /\ Puts(f[2], "rs2", values[3], f[3])
    BY ONLY <2>2, <2>5
  <2>7. w.op = Match(m).op /\ w.f3 = Match(m).f3 /\ w.f7 = Match(m).f7 /\ w.rd = values[1] /\ values[1] \in 0 .. 31 /\ w.rs1 = values[2] /\ values[2] \in 0 .. 31 /\ w.rs2 = values[3] /\ values[3] \in 0 .. 31
    BY ONLY <2>5, <2>6 DEF Puts
  <2>8. Matches(m, w)
    BY <1>1, <2>7, MatchesR
  <2> QED
    BY <1>1, <2>7, <2>8 DEF Filled
<1>2. CASE Form(m) = "float compare"
  <2>1. Fields(m) = <<"rd", "rs1", "rs2">>
    BY <1>2, FieldsOf
  <2>2. Len(Fields(m)) = 3 /\ Fields(m)[1] = "rd" /\ Fields(m)[2] = "rs1" /\ Fields(m)[3] = "rs2"
    BY ONLY <2>1
  <2>3. FieldsThere(m, 3)
    BY ONLY <2>2 DEF FieldNames, FieldsThere
  <2>4. PutInOrder(m, values, 3, w)
    BY <2>3, WordFilled
  <2>5. PICK f : f[0] = Match(m) /\ w = f[3] /\ \A i \in 1 .. 3 : Puts(f[i - 1], Fields(m)[i], values[i], f[i])
    BY ONLY <2>4 DEF PutInOrder
  <2>6. /\ Puts(f[0], "rd", values[1], f[1])
        /\ Puts(f[1], "rs1", values[2], f[2])
        /\ Puts(f[2], "rs2", values[3], f[3])
    BY ONLY <2>2, <2>5
  <2>7. w.op = Match(m).op /\ w.f3 = Match(m).f3 /\ w.f7 = Match(m).f7
    BY ONLY <2>5, <2>6 DEF Puts
  <2>8. Matches(m, w)
    BY <1>2, <2>7, MatchesR
  <2> QED
    BY <1>2, <2>7, <2>8 DEF Filled
<1>3. CASE Form(m) = "fr"
  <2>1. Fields(m) = <<"rd", "rs1", "rs2", "rm">>
    BY <1>3, FieldsOf
  <2>2. Len(Fields(m)) = 4 /\ Fields(m)[1] = "rd" /\ Fields(m)[2] = "rs1" /\ Fields(m)[3] = "rs2" /\ Fields(m)[4] = "rm"
    BY ONLY <2>1
  <2>3. FieldsThere(m, 4)
    BY ONLY <2>2 DEF FieldNames, FieldsThere
  <2>4. PutInOrder(m, values, 4, w)
    BY <2>3, WordFilled
  <2>5. PICK f : f[0] = Match(m) /\ w = f[4] /\ \A i \in 1 .. 4 : Puts(f[i - 1], Fields(m)[i], values[i], f[i])
    BY ONLY <2>4 DEF PutInOrder
  <2>6. /\ Puts(f[0], "rd", values[1], f[1])
        /\ Puts(f[1], "rs1", values[2], f[2])
        /\ Puts(f[2], "rs2", values[3], f[3])
        /\ Puts(f[3], "rm", values[4], f[4])
    BY ONLY <2>2, <2>5
  <2>7. w.op = Match(m).op /\ w.f7 = Match(m).f7 /\ w.rd = values[1] /\ values[1] \in 0 .. 31 /\ w.rs1 = values[2] /\ values[2] \in 0 .. 31 /\ w.rs2 = values[3] /\ values[3] \in 0 .. 31
    BY ONLY <2>5, <2>6 DEF Puts
  <2>8. Matches(m, w)
    BY <1>3, <2>7, MatchesFloat
  <2> QED
    BY <1>3, <2>7, <2>8 DEF Filled
<1>4. CASE Form(m) = "convert"
  <2>1. Fields(m) = <<"rd", "rs1", "rm">>
    BY <1>4, FieldsOf
  <2>2. Len(Fields(m)) = 3 /\ Fields(m)[1] = "rd" /\ Fields(m)[2] = "rs1" /\ Fields(m)[3] = "rm"
    BY ONLY <2>1
  <2>3. FieldsThere(m, 3)
    BY ONLY <2>2 DEF FieldNames, FieldsThere
  <2>4. PutInOrder(m, values, 3, w)
    BY <2>3, WordFilled
  <2>5. PICK f : f[0] = Match(m) /\ w = f[3] /\ \A i \in 1 .. 3 : Puts(f[i - 1], Fields(m)[i], values[i], f[i])
    BY ONLY <2>4 DEF PutInOrder
  <2>6. /\ Puts(f[0], "rd", values[1], f[1])
        /\ Puts(f[1], "rs1", values[2], f[2])
        /\ Puts(f[2], "rm", values[3], f[3])
    BY ONLY <2>2, <2>5
  <2>7. w.op = Match(m).op /\ w.f7 = Match(m).f7 /\ w.rs2 = Match(m).rs2 /\ w.rd = values[1] /\ values[1] \in 0 .. 31 /\ w.rs1 = values[2] /\ values[2] \in 0 .. 31
    BY ONLY <2>5, <2>6 DEF Puts
  <2>8. Matches(m, w)
    BY <1>4, <2>7, MatchesFloat
  <2> QED
    BY <1>4, <2>7, <2>8 DEF Filled
<1>5. CASE Form(m) = "r4"
  <2>1. Fields(m) = <<"rd", "rs1", "rs2", "rs3", "rm">>
    BY <1>5, FieldsOf
  <2>2. Len(Fields(m)) = 5 /\ Fields(m)[1] = "rd" /\ Fields(m)[2] = "rs1" /\ Fields(m)[3] = "rs2" /\ Fields(m)[4] = "rs3" /\ Fields(m)[5] = "rm"
    BY ONLY <2>1
  <2>3. FieldsThere(m, 5)
    BY ONLY <2>2 DEF FieldNames, FieldsThere
  <2>4. PutInOrder(m, values, 5, w)
    BY <2>3, WordFilled
  <2>5. PICK f : f[0] = Match(m) /\ w = f[5] /\ \A i \in 1 .. 5 : Puts(f[i - 1], Fields(m)[i], values[i], f[i])
    BY ONLY <2>4 DEF PutInOrder
  <2>6. /\ Puts(f[0], "rd", values[1], f[1])
        /\ Puts(f[1], "rs1", values[2], f[2])
        /\ Puts(f[2], "rs2", values[3], f[3])
        /\ Puts(f[3], "rs3", values[4], f[4])
        /\ Puts(f[4], "rm", values[5], f[5])
    BY ONLY <2>2, <2>5
  <2>7. w.op = Match(m).op /\ w.f7 % 4 = Match(m).f7 % 4
    BY ONLY <2>5, <2>6 DEF Puts
  <2>8. Matches(m, w)
    BY <1>5, <2>7, MatchesOp
  <2> QED
    BY <1>5, <2>7, <2>8 DEF Filled
<1>6. CASE Form(m) = "float load"
  <2>1. Fields(m) = <<"rd", "rs1", "imm12">>
    BY <1>6, FieldsOf
  <2>2. Len(Fields(m)) = 3 /\ Fields(m)[1] = "rd" /\ Fields(m)[2] = "rs1" /\ Fields(m)[3] = "imm12"
    BY ONLY <2>1
  <2>3. FieldsThere(m, 3)
    BY ONLY <2>2 DEF FieldNames, FieldsThere
  <2>4. PutInOrder(m, values, 3, w)
    BY <2>3, WordFilled
  <2>5. PICK f : f[0] = Match(m) /\ w = f[3] /\ \A i \in 1 .. 3 : Puts(f[i - 1], Fields(m)[i], values[i], f[i])
    BY ONLY <2>4 DEF PutInOrder
  <2>6. /\ Puts(f[0], "rd", values[1], f[1])
        /\ Puts(f[1], "rs1", values[2], f[2])
        /\ Puts(f[2], "imm12", values[3], f[3])
    BY ONLY <2>2, <2>5
  <2>7. w.op = Match(m).op /\ w.f3 = Match(m).f3
    BY ONLY <2>5, <2>6 DEF Puts
  <2>8. Matches(m, w)
    BY <1>6, <2>7, MatchesLow DEF Low, KeepsLow
  <2> QED
    BY <1>6, <2>7, <2>8 DEF Filled
<1>7. CASE Form(m) = "float store"
  <2>1. Fields(m) = <<"imm12hi", "rs1", "rs2", "imm12lo">>
    BY <1>7, FieldsOf
  <2>2. Len(Fields(m)) = 4 /\ Fields(m)[1] = "imm12hi" /\ Fields(m)[2] = "rs1" /\ Fields(m)[3] = "rs2" /\ Fields(m)[4] = "imm12lo"
    BY ONLY <2>1
  <2>3. FieldsThere(m, 4)
    BY ONLY <2>2 DEF FieldNames, FieldsThere
  <2>4. PutInOrder(m, values, 4, w)
    BY <2>3, WordFilled
  <2>5. PICK f : f[0] = Match(m) /\ w = f[4] /\ \A i \in 1 .. 4 : Puts(f[i - 1], Fields(m)[i], values[i], f[i])
    BY ONLY <2>4 DEF PutInOrder
  <2>6. /\ Puts(f[0], "imm12hi", values[1], f[1])
        /\ Puts(f[1], "rs1", values[2], f[2])
        /\ Puts(f[2], "rs2", values[3], f[3])
        /\ Puts(f[3], "imm12lo", values[4], f[4])
    BY ONLY <2>2, <2>5
  <2>7. w.op = Match(m).op /\ w.f3 = Match(m).f3
    BY ONLY <2>5, <2>6 DEF Puts
  <2>8. Matches(m, w)
    BY <1>7, <2>7, MatchesLow DEF Low, KeepsLow
  <2> QED
    BY <1>7, <2>7, <2>8 DEF Filled
<1>8. CASE Form(m) \in {"addi", "load", "jalr"}
  <2>1. Fields(m) = <<"rd", "rs1", "imm12">>
    BY <1>8, FieldsOf
  <2>2. Len(Fields(m)) = 3 /\ Fields(m)[1] = "rd" /\ Fields(m)[2] = "rs1" /\ Fields(m)[3] = "imm12"
    BY ONLY <2>1
  <2>3. FieldsThere(m, 3)
    BY ONLY <2>2 DEF FieldNames, FieldsThere
  <2>4. PutInOrder(m, values, 3, w)
    BY <2>3, WordFilled
  <2>5. PICK f : f[0] = Match(m) /\ w = f[3] /\ \A i \in 1 .. 3 : Puts(f[i - 1], Fields(m)[i], values[i], f[i])
    BY ONLY <2>4 DEF PutInOrder
  <2>6. /\ Puts(f[0], "rd", values[1], f[1])
        /\ Puts(f[1], "rs1", values[2], f[2])
        /\ Puts(f[2], "imm12", values[3], f[3])
    BY ONLY <2>2, <2>5
  <2>7. w.op = Match(m).op /\ w.f3 = Match(m).f3 /\ w.rd = values[1] /\ values[1] \in 0 .. 31
        /\ w.rs1 = values[2] /\ values[2] \in 0 .. 31 /\ w.f7 = values[3] \div 32 /\ w.rs2 = values[3] % 32
    BY ONLY <2>5, <2>6 DEF Puts
  <2>8. Matches(m, w)
    BY <1>8, <2>7, MatchesLow DEF Low, KeepsLow
  <2> QED
    BY <1>8, <2>7, <2>8 DEF Filled
<1> QED
  BY <1>1, <1>2, <1>3, <1>4, <1>5, <1>6, <1>7, <1>8

-----------------------------------------------------------------------------
(* The instructions whose operands are all registers.                      *)

LEMMA RegisterOperands ==
  ASSUME NEW i, NEW a, NEW b, RegistersFit(i), {"rd", "rs1"} \subseteq DOMAIN i, i.rd = a, i.rs1 = b
  PROVE  a \in 0 .. 31 /\ b \in 0 .. 31 /\ ("rs2" \in DOMAIN i => i.rs2 \in 0 .. 31)
BY RegistersKnown

\* A register that fits its field is the one that was written.
LEMMA GeneratedIs == \A o, float : GeneratedRegister(o, float) \in 0 .. 31 => GeneratedRegister(o, float) = o.n
BY RegisterIs DEF GeneratedRegister

\* A word whose slices hold the registers of the operands.
TwoRegisters(line, w) == w.rd = line.ops[1].n /\ w.rs1 = line.ops[2].n
ThreeRegisters(line, w) == TwoRegisters(line, w) /\ w.rs2 = line.ops[3].n

\* A word with the registers of the line is read back as the line.
LEMMA RegistersRead ==
  ASSUME NEW line, NEW env, NEW w, line.m \in DOMAIN Opcodes, Matches(line.m, w),
         Form(line.m) \in {"r", "fr"} => ThreeRegisters(line, w), Form(line.m) = "r" => ~HasMemory(line.ops),
         Form(line.m) \in {"convert", "move"} => TwoRegisters(line, w),
         Form(line.m) \in {"r", "fr", "convert", "move", "r4", "float compare", "float load", "float store"}
  PROVE  Reads(line, env, w)
<1> DEFINE m == line.m
<1>0. FormKnown(m)
  BY FormIs
<1>1. CASE m \in {"add", "sub"}
  <2>1. Form(m) = "r" /\ m \in IntegerMnemonics /\ m \notin FloatMnemonics
    BY <1>0, <1>1, DecoderOf DEF FormKnown
  <2>2. PICK d : d = DecodeInteger(m, w)
    OBVIOUS
  <2>3. d.rd = w.rd /\ d.rs1 = w.rs1 /\ d.rs2 = w.rs2
    BY <1>1, <2>1, <2>2 DEF DecodeInteger
  <2>4. d.rd = line.ops[1].n /\ d.rs1 = line.ops[2].n /\ d.rs2 = line.ops[3].n
    BY <2>1, <2>3 DEF ThreeRegisters, TwoRegisters
  <2>5. Takes(d, line, <<"rd", "rs1", "rs2">>, env)
    BY <2>4, CarriesField, TakesThree
  <2>6. Written(line) = <<"rd", "rs1", "rs2">>
    BY <2>1, WrittenAs
  <2> QED
    BY <2>1, <2>2, <2>5, <2>6, ReadsFrom
<1>2. CASE m \in {"fadd.s", "fadd.d"}
  <2>1. Form(m) = "fr" /\ m \in FloatMnemonics /\ m \notin IntegerMnemonics
    BY <1>0, <1>2, DecoderOf DEF FormKnown
  <2>2. PICK d : d = DecodeFloat(m, w)
    OBVIOUS
  <2>3. d.rd = w.rd /\ d.rs1 = w.rs1 /\ d.rs2 = w.rs2
    BY <1>2, <2>1, <2>2 DEF DecodeFloat
  <2>4. d.rd = line.ops[1].n /\ d.rs1 = line.ops[2].n /\ d.rs2 = line.ops[3].n
    BY <2>1, <2>3 DEF ThreeRegisters, TwoRegisters
  <2>5. Takes(d, line, <<"rd", "rs1", "rs2">>, env)
    BY <2>4, CarriesField, TakesThree
  <2>6. Written(line) = <<"rd", "rs1", "rs2">>
    BY <2>1, WrittenAs
  <2> QED
    BY <2>1, <2>2, <2>5, <2>6, ReadsFrom
<1>3. CASE Form(m) \in {"convert", "move"}
  <2>1. m \in FloatMnemonics /\ m \notin IntegerMnemonics
    BY <1>3, DecoderOf
  <2>2. PICK d : d = DecodeFloat(m, w)
    OBVIOUS
  <2>3. m \notin {"fadd.s", "fadd.d"}
    BY <1>0, <1>3 DEF FormKnown
  <2>4. d.rd = w.rd /\ d.rs1 = w.rs1
    BY <1>3, <2>2, <2>3 DEF DecodeFloat
  <2>5. d.rd = line.ops[1].n /\ d.rs1 = line.ops[2].n
    BY <1>3, <2>4 DEF TwoRegisters
  <2>6. Takes(d, line, <<"rd", "rs1">>, env)
    BY <2>5, CarriesField, TakesTwo
  <2>7. Written(line) = <<"rd", "rs1">>
    BY <1>3, WrittenAs
  <2> QED
    BY <2>1, <2>2, <2>6, <2>7, ReadsFrom
<1>4. CASE m \notin {"add", "sub", "fadd.s", "fadd.d"} /\ Form(m) \notin {"convert", "move"}
  <2>1. m \notin IntegerMnemonics /\ m \notin FloatMnemonics
    BY <1>4 DEF IntegerMnemonics, FloatMnemonics
  <2> QED
    BY <2>1, DecodedMnemonic DEF Reads
<1> QED
  BY <1>1, <1>2, <1>3, <1>4

\* The encoder of register operations is undone by the decoder.
LEMMA ReadRType ==
  ASSUME NEW line, NEW env, NEW w, line.m \in DOMAIN Opcodes, Form(line.m) = "r", w # NoWord,
         w = EncodeRType(line.m, [rd |-> X(line.ops[1]), rs1 |-> X(line.ops[2]), rs2 |-> X(line.ops[3])]),
         Len(line.ops) = 3
  PROVE  Reads(line, env, w)
<1>1. PICK a, b, c : a = X(line.ops[1]) /\ b = X(line.ops[2]) /\ c = X(line.ops[3])
  OBVIOUS
<1>2. PICK i : i = [rd |-> a, rs1 |-> b, rs2 |-> c]
  OBVIOUS
<1>3. RegistersFit(i) /\ w = [Match(line.m) EXCEPT !.rs2 = i.rs2, !.rs1 = i.rs1, !.rd = i.rd]
  BY <1>1, <1>2 DEF EncodeRType
<1>4. a \in 0 .. 31 /\ b \in 0 .. 31 /\ c \in 0 .. 31
  <2>1. {"rd", "rs1"} \subseteq DOMAIN i /\ i.rd = a /\ i.rs1 = b /\ "rs2" \in DOMAIN i /\ i.rs2 = c
    BY ONLY <1>2
  <2>2. RegistersFit(i)
    BY <1>3
  <2> QED
    BY ONLY <2>1, <2>2, RegisterOperands
<1>5. w.op = Match(line.m).op /\ w.f3 = Match(line.m).f3 /\ w.f7 = Match(line.m).f7
      /\ w.rd = a /\ w.rs1 = b /\ w.rs2 = c
  BY <1>2, <1>3, MatchIsWord DEF Word
<1>6. ThreeRegisters(line, w)
  BY <1>1, <1>4, <1>5, RegisterIs DEF ThreeRegisters, TwoRegisters
<1>7. Matches(line.m, w)
  BY <1>5, MatchesR
<1>8. ~HasMemory(line.ops)
  <2>1. line.ops[1].t = "reg" /\ line.ops[2].t = "reg" /\ line.ops[3].t = "reg"
    BY <1>1, <1>4, RegisterWritten
  <2> QED
    BY <2>1 DEF HasMemory
<1> QED
  BY <1>6, <1>7, <1>8, RegistersRead

\* The encoder of floating operations is undone by the decoder.
LEMMA ReadFr ==
  ASSUME NEW line, NEW env, NEW w, line.m \in DOMAIN Opcodes, Form(line.m) = "fr", w # NoWord,
         w = EncodeFr(line.m, [rd |-> F(line.ops[1]), rs1 |-> F(line.ops[2]), rs2 |-> F(line.ops[3]), rm |-> 7])
  PROVE  Reads(line, env, w)
<1>1. PICK a, b, c : a = F(line.ops[1]) /\ b = F(line.ops[2]) /\ c = F(line.ops[3])
  OBVIOUS
<1>2. PICK i : i = [rd |-> a, rs1 |-> b, rs2 |-> c, rm |-> 7]
  OBVIOUS
<1>3. RegistersFit(i) /\ w = [Match(line.m) EXCEPT !.rs2 = i.rs2, !.rs1 = i.rs1, !.f3 = i.rm, !.rd = i.rd]
  BY <1>1, <1>2 DEF EncodeFr
<1>4. a \in 0 .. 31 /\ b \in 0 .. 31 /\ c \in 0 .. 31
  <2>1. {"rd", "rs1"} \subseteq DOMAIN i /\ i.rd = a /\ i.rs1 = b /\ "rs2" \in DOMAIN i /\ i.rs2 = c
    BY ONLY <1>2
  <2>2. RegistersFit(i)
    BY <1>3
  <2> QED
    BY ONLY <2>1, <2>2, RegisterOperands
<1>5. w.op = Match(line.m).op /\ w.f7 = Match(line.m).f7 /\ w.rd = a /\ w.rs1 = b /\ w.rs2 = c
  BY <1>2, <1>3, MatchIsWord DEF Word
<1>6. ThreeRegisters(line, w)
  BY <1>1, <1>4, <1>5, RegisterIs DEF ThreeRegisters, TwoRegisters
<1>7. Matches(line.m, w)
  BY <1>5, MatchesFloat
<1> QED
  BY <1>6, <1>7, RegistersRead

\* The encoder of conversions is undone by the decoder.
LEMMA ReadConvert ==
  ASSUME NEW line, NEW env, NEW w, NEW f, NEW g, line.m \in DOMAIN Opcodes, Form(line.m) = "convert", w # NoWord,
         w = EncodeFConvert(line.m, [rd |-> GeneratedRegister(line.ops[1], f),
                                     rs1 |-> GeneratedRegister(line.ops[2], g), rm |-> 7])
  PROVE  Reads(line, env, w)
<1>1. PICK a, b : a = GeneratedRegister(line.ops[1], f) /\ b = GeneratedRegister(line.ops[2], g)
  OBVIOUS
<1>2. PICK i : i = [rd |-> a, rs1 |-> b, rm |-> 7]
  OBVIOUS
<1>3. RegistersFit(i) /\ w = [Match(line.m) EXCEPT !.rs1 = i.rs1, !.f3 = i.rm, !.rd = i.rd]
  BY <1>1, <1>2 DEF EncodeFConvert
<1>4. a \in 0 .. 31 /\ b \in 0 .. 31
  <2>1. {"rd", "rs1"} \subseteq DOMAIN i /\ i.rd = a /\ i.rs1 = b
    BY ONLY <1>2
  <2>2. RegistersFit(i)
    BY <1>3
  <2> QED
    BY ONLY <2>1, <2>2, RegisterOperands
<1>5. w.op = Match(line.m).op /\ w.f7 = Match(line.m).f7 /\ w.rs2 = Match(line.m).rs2 /\ w.rd = a /\ w.rs1 = b
  BY <1>2, <1>3, MatchIsWord DEF Word
<1>6. TwoRegisters(line, w)
  BY <1>1, <1>4, <1>5, GeneratedIs DEF TwoRegisters
<1>7. Matches(line.m, w)
  BY <1>5, MatchesFloat
<1> QED
  BY <1>6, <1>7, RegistersRead

\* The encoder of moves is undone by the decoder.
LEMMA ReadMove ==
  ASSUME NEW line, NEW env, NEW w, NEW f, NEW g, line.m \in DOMAIN Opcodes, Form(line.m) = "move", w # NoWord,
         w = EncodeFMove(line.m, [rd |-> GeneratedRegister(line.ops[1], f), rs1 |-> GeneratedRegister(line.ops[2], g)])
  PROVE  Reads(line, env, w)
<1>1. PICK a, b : a = GeneratedRegister(line.ops[1], f) /\ b = GeneratedRegister(line.ops[2], g)
  OBVIOUS
<1>2. PICK i : i = [rd |-> a, rs1 |-> b]
  OBVIOUS
<1>3. RegistersFit(i) /\ w = [Match(line.m) EXCEPT !.rs1 = i.rs1, !.rd = i.rd]
  BY <1>1, <1>2 DEF EncodeFMove
<1>4. a \in 0 .. 31 /\ b \in 0 .. 31
  <2>1. {"rd", "rs1"} \subseteq DOMAIN i /\ i.rd = a /\ i.rs1 = b
    BY ONLY <1>2
  <2>2. RegistersFit(i)
    BY <1>3
  <2> QED
    BY ONLY <2>1, <2>2, RegisterOperands
<1>5. w.op = Match(line.m).op /\ w.f7 = Match(line.m).f7 /\ w.rs2 = Match(line.m).rs2 /\ w.f3 = Match(line.m).f3
      /\ w.rd = a /\ w.rs1 = b
  BY <1>2, <1>3, MatchIsWord DEF Word
<1>6. TwoRegisters(line, w)
  BY <1>1, <1>4, <1>5, GeneratedIs DEF TwoRegisters
<1>7. Matches(line.m, w)
  BY <1>5, MatchesFloat
<1> QED
  BY <1>6, <1>7, RegistersRead

-----------------------------------------------------------------------------
(* The generic encoder.                                                    *)

GenericForms == {"r", "float compare", "fr", "convert", "r4", "float load", "float store", "addi", "load", "jalr"}

\* A register field takes the register of its operand.
LEMMA GeneratedFieldIs ==
  /\ \A m, o, i, env : GeneratedField(m, "rd", o, i, env) = GeneratedRegister(o[i], GeneratedRegisterIsFloat(m, "rd"))
  /\ \A m, o, i, env : GeneratedField(m, "rs1", o, i, env) = GeneratedRegister(o[i], GeneratedRegisterIsFloat(m, "rs1"))
  /\ \A m, o, i, env : GeneratedField(m, "rs2", o, i, env) = GeneratedRegister(o[i], GeneratedRegisterIsFloat(m, "rs2"))
BY DEF GeneratedField

\* The first operands of a row of registers.
Generated(values, m, n, o, env) == values = [j \in 1 .. n |-> GeneratedField(m, Fields(m)[j], o, j, env)]
\* A value that fits its field is the number of the register written.
LEMMA GeneratedOperand ==
  ASSUME NEW m, NEW o, NEW env, NEW n, NEW values, Generated(values, m, n, o, env),
         NEW i \in 1 .. n, NEW field \in {"rd", "rs1", "rs2"}, Fields(m)[i] = field, values[i] \in 0 .. 31
  PROVE  values[i] = o[i].n
<1>1. values[i] = GeneratedField(m, field, o, i, env)
  BY DEF Generated
<1>2. PICK float : float = GeneratedRegisterIsFloat(m, field)
  OBVIOUS
<1>3. values[i] = GeneratedRegister(o[i], float)
  BY <1>1, <1>2, GeneratedFieldIs
<1> QED
  BY <1>3, GeneratedIs

\* Where the generic encoder takes the fields from.
ByRegisters(m, o, env) ==
  WithFields(m, [i \in 1 .. Len(Fields(m)) |-> GeneratedField(m, Fields(m)[i], o, i, env)])
FromMemory(m, o, env) ==
  WithFields(m, [i \in 1 .. Len(Fields(m)) |-> GeneratedMemoryField(Fields(m)[i], o, Value(o[2], env))])

\* The generic encoder takes one imm(register), or an operand for each field.
LEMMA GenericPaths ==
  ASSUME NEW m, NEW o, NEW env, EncodeGeneratedInstruction(m, o, env) # NoWord
  PROVE  \/ HasMemory(o) /\ Len(o) = 2 /\ IsMemory(o[2], env)
            /\ EncodeGeneratedInstruction(m, o, env) = FromMemory(m, o, env)
         \/ ~HasMemory(o) /\ EncodeGeneratedInstruction(m, o, env) = ByRegisters(m, o, env)
            /\ (Fields(m)[Len(Fields(m))] # "rm" => Len(o) = Len(Fields(m)))
BY DEF EncodeGeneratedInstruction, FromMemory, ByRegisters

\* The fields that the generic encoder has no operand for.
LEMMA FieldsRefused ==
  /\ \A f, o, offset : f \in {"rm", "rs3", "imm20", "jimm20", "bimm12hi"} => GeneratedMemoryField(f, o, offset) = -1
  /\ \A m, f, o, i, env : f \in {"imm20", "jimm20", "bimm12hi", "imm12hi"} => GeneratedField(m, f, o, i, env) = -1
BY DEF GeneratedMemoryField, GeneratedField

\* A row with such a field is not encoded.
LEMMA RowRefused ==
  ASSUME NEW m, NEW o, NEW env, NEW fields, fields = Fields(m), Len(fields) \in 1 .. 5, NEW i \in 1 .. Len(fields)
  PROVE  /\ fields[i] \in {"rm", "rs3", "imm20", "jimm20", "bimm12hi"} => FromMemory(m, o, env) = NoWord
         /\ fields[i] \in {"imm20", "jimm20", "bimm12hi", "imm12hi"} => ByRegisters(m, o, env) = NoWord
<1>1. ASSUME fields[i] \in {"rm", "rs3", "imm20", "jimm20", "bimm12hi"}, FromMemory(m, o, env) # NoWord PROVE FALSE
  <2>1. PICK values : values = [j \in 1 .. Len(fields) |-> GeneratedMemoryField(fields[j], o, Value(o[2], env))]
    OBVIOUS
  <2>2. WithFields(m, values) # NoWord
    BY <1>1, <2>1 DEF FromMemory
  <2>3. values[i] # -1
    BY <2>2, NoneRefused
  <2>4. values[i] = GeneratedMemoryField(fields[i], o, Value(o[2], env))
    BY <2>1
  <2> QED
    BY <1>1, <2>3, <2>4, FieldsRefused
<1>2. ASSUME fields[i] \in {"imm20", "jimm20", "bimm12hi", "imm12hi"}, ByRegisters(m, o, env) # NoWord PROVE FALSE
  <2>1. PICK values : values = [j \in 1 .. Len(fields) |-> GeneratedField(m, fields[j], o, j, env)]
    OBVIOUS
  <2>2. WithFields(m, values) # NoWord
    BY <1>2, <2>1 DEF ByRegisters
  <2>3. values[i] # -1
    BY <2>2, NoneRefused
  <2>4. values[i] = GeneratedField(m, fields[i], o, i, env)
    BY <2>1
  <2> QED
    BY <1>2, <2>3, <2>4, FieldsRefused
<1> QED
  BY <1>1, <1>2

\* The forms that the generic encoder makes a word of: stores and moves of two
\* operands have encoders of their own.
LEMMA GenericForm ==
  ASSUME NEW m \in DOMAIN Opcodes, NEW o, NEW env, EncodeGeneratedInstruction(m, o, env) # NoWord,
         Form(m) \in {"store", "move"} => Len(o) # 2
  PROVE  Form(m) \in GenericForms
<1>1. Form(m) \in Forms
  BY FormIs DEF FormKnown
<1>2. FromMemory(m, o, env) # NoWord \/ ByRegisters(m, o, env) # NoWord
  BY GenericPaths
<1>3. Form(m) # "u"
  <2> SUFFICES ASSUME Form(m) = "u" PROVE FALSE
    OBVIOUS
  <2>1. Fields(m) = <<"rd", "imm20">>
    BY FieldsOf
  <2>2. Len(Fields(m)) = 2 /\ Fields(m)[2] = "imm20"
    BY ONLY <2>1
  <2> QED
    BY <1>2, <2>2, RowRefused
<1>4. Form(m) # "jal"
  <2> SUFFICES ASSUME Form(m) = "jal" PROVE FALSE
    OBVIOUS
  <2>1. Fields(m) = <<"rd", "jimm20">>
    BY FieldsOf
  <2>2. Len(Fields(m)) = 2 /\ Fields(m)[2] = "jimm20"
    BY ONLY <2>1
  <2> QED
    BY <1>2, <2>2, RowRefused
<1>5. Form(m) # "branch"
  <2> SUFFICES ASSUME Form(m) = "branch" PROVE FALSE
    OBVIOUS
  <2>1. Fields(m) = <<"bimm12hi", "rs1", "rs2", "bimm12lo">>
    BY FieldsOf
  <2>2. Len(Fields(m)) = 4 /\ Fields(m)[1] = "bimm12hi"
    BY ONLY <2>1
  <2> QED
    BY <1>2, <2>2, RowRefused
<1>6. Form(m) # "store"
  <2> SUFFICES ASSUME Form(m) = "store" PROVE FALSE
    OBVIOUS
  <2>1. Fields(m) = <<"imm12hi", "rs1", "rs2", "imm12lo">>
    BY FieldsOf
  <2>2. Len(Fields(m)) = 4 /\ Fields(m)[1] = "imm12hi"
    BY ONLY <2>1
  <2>3. ByRegisters(m, o, env) # NoWord
    BY GenericPaths
  <2> QED
    BY <2>2, <2>3, RowRefused
<1>7. Form(m) # "move"
  <2> SUFFICES ASSUME Form(m) = "move" PROVE FALSE
    OBVIOUS
  <2>1. Fields(m) = <<"rd", "rs1">>
    BY FieldsOf
  <2>2. Len(Fields(m)) = 2 /\ Fields(m)[Len(Fields(m))] = "rs1"
    BY ONLY <2>1
  <2> QED
    BY <2>2, GenericPaths
<1> QED
  BY <1>1, <1>3, <1>4, <1>5, <1>6, <1>7 DEF Forms, GenericForms

\* Rows of registers only.
LEMMA RegisterRow ==
  ASSUME NEW m, NEW n, n = Len(Fields(m)), Form(m) = "r" \/ Form(m) = "fr" \/ Form(m) = "convert"
  PROVE  /\ n \in 3 .. 4 /\ Fields(m)[1] = "rd" /\ Fields(m)[2] = "rs1"
         /\ Form(m) # "convert" => Fields(m)[3] = "rs2"
<1>1. CASE Form(m) = "r"
  <2>1. Fields(m) = <<"rd", "rs1", "rs2">>
    BY <1>1, FieldsOf
  <2>2. n = 3 /\ Fields(m)[1] = "rd" /\ Fields(m)[2] = "rs1" /\ Fields(m)[3] = "rs2"
    BY ONLY <2>1, n = Len(Fields(m))
  <2> QED
    BY ONLY <2>2
<1>2. CASE Form(m) = "fr"
  <2>1. Fields(m) = <<"rd", "rs1", "rs2", "rm">>
    BY <1>2, FieldsOf
  <2>2. n = 4 /\ Fields(m)[1] = "rd" /\ Fields(m)[2] = "rs1" /\ Fields(m)[3] = "rs2" /\ Fields(m)[4] = "rm"
    BY ONLY <2>1, n = Len(Fields(m))
  <2> QED
    BY ONLY <2>2
<1>3. CASE Form(m) = "convert"
  <2>1. Fields(m) = <<"rd", "rs1", "rm">>
    BY <1>3, FieldsOf
  <2>2. n = 3 /\ Fields(m)[1] = "rd" /\ Fields(m)[2] = "rs1" /\ Fields(m)[3] = "rm"
    BY ONLY <2>1, n = Len(Fields(m))
  <2> QED
    BY ONLY <1>3, <2>2
<1> QED
  BY <1>1, <1>2, <1>3

\* The decoder gives no fields of the other forms.
LEMMA Undecoded ==
  ASSUME NEW m \in DOMAIN Opcodes, Form(m) \in {"r4", "float compare", "float load", "float store"}
  PROVE  m \notin IntegerMnemonics /\ m \notin FloatMnemonics
BY FormIs DEF FormKnown, IntegerMnemonics, FloatMnemonics

\* A row of registers from the generic encoder is read back.
LEMMA ReadByRegisters ==
  ASSUME NEW line, NEW env, NEW w, NEW m \in DOMAIN Opcodes, m = line.m, w = ByRegisters(m, line.ops, env), w # NoWord,
         Form(m) = "r" \/ Form(m) = "fr" \/ Form(m) = "convert", ~HasMemory(line.ops)
  PROVE  Reads(line, env, w)
<1>1. PICK n : n = Len(Fields(m))
  OBVIOUS
<1>2. PICK values : values = [i \in 1 .. n |-> GeneratedField(m, Fields(m)[i], line.ops, i, env)]
  OBVIOUS
<1>3. w = WithFields(m, values)
  BY <1>1, <1>2 DEF ByRegisters
<1>4. Filled(m, values, w)
  <2>1. Form(m) \in GenericForms
    BY DEF GenericForms
  <2> QED
    BY <1>3, <2>1, FilledForms DEF GenericForms
<1>5. /\ n \in 3 .. 4 /\ Fields(m)[1] = "rd" /\ Fields(m)[2] = "rs1"
      /\ Form(m) # "convert" => Fields(m)[3] = "rs2"
  BY <1>1, RegisterRow
<1>6. w.rd = values[1] /\ w.rs1 = values[2] /\ values[1] \in 0 .. 31 /\ values[2] \in 0 .. 31 /\ Matches(m, w)
      /\ (Form(m) # "convert" => w.rs2 = values[3] /\ values[3] \in 0 .. 31)
  BY <1>4 DEF Filled
<1>7. PICK o : o = line.ops
  OBVIOUS
<1>8. Generated(values, m, n, o, env)
  BY <1>2, <1>7 DEF Generated
<1>9. n \in Nat /\ 1 \in 1 .. n /\ 2 \in 1 .. n /\ 3 \in 1 .. n
  BY ONLY <1>5
<1>10. values[1] = o[1].n
  BY ONLY <1>5, <1>6, <1>8, <1>9, GeneratedOperand
<1>11. values[2] = o[2].n
  BY ONLY <1>5, <1>6, <1>8, <1>9, GeneratedOperand
<1>12. Form(m) # "convert" => values[3] = o[3].n
  BY ONLY <1>5, <1>6, <1>8, <1>9, GeneratedOperand
<1>13. TwoRegisters(line, w) /\ (Form(m) # "convert" => ThreeRegisters(line, w))
  BY <1>6, <1>7, <1>10, <1>11, <1>12 DEF TwoRegisters, ThreeRegisters
<1>14. Form(m) \in {"r", "fr"} => ThreeRegisters(line, w)
  BY <1>13
<1> QED
  BY <1>6, <1>13, <1>14, RegistersRead

\* The high twelve bits, put there as one number.
LEMMA HighRejoins ==
  ASSUME NEW v \in -(2^11) .. 2^11 - 1, NEW b, b = Bits(v, 11, 0)
  PROVE  Signed((b \div 32) * 32 + (b % 32), 12) = v
<1>1. b = v % 4096
  BY DEF Bits
<1>2. b \in 0 .. 4095 /\ (b \div 32) * 32 + (b % 32) = b
  <2>1. v \in Int
    OBVIOUS
  <2>2. b \in 0 .. 4095
    BY ONLY <1>1, <2>1
  <2>3. \A x \in 0 .. 4095 : (x \div 32) * 32 + (x % 32) = x
    OBVIOUS
  <2> QED
    BY ONLY <2>2, <2>3
<1>3. Signed(b, 12) = v
  BY <1>1, <1>2 DEF Signed
<1> QED
  BY <1>2, <1>3

\* An instruction whose last field holds a number is read back with it.
LEMMA ReadHigh ==
  ASSUME NEW m \in DOMAIN Opcodes, Form(m) \in {"addi", "load", "jalr"}, NEW values, NEW w, Filled(m, values, w),
         NEW v \in -(2^11) .. 2^11 - 1, values[3] = Bits(v, 11, 0),
         NEW d, d = [m |-> m, rd |-> values[1], rs1 |-> values[2], imm |-> v]
  PROVE  ReadAs(m, w, d)
<1>1. w.f7 = values[3] \div 32 /\ w.rs2 = values[3] % 32 /\ w.rd = values[1] /\ w.rs1 = values[2] /\ Matches(m, w)
  BY DEF Filled
<1>2. HighImm(w) = v
  BY <1>1, HighRejoins DEF HighImm
<1>3. m \notin {"add", "sub"} /\ Form(m) # "u"
  BY FormIs DEF FormKnown
<1>4. DecodeInteger(m, w) = [m |-> m, rd |-> w.rd, rs1 |-> w.rs1, imm |-> HighImm(w)]
  BY <1>3 DEF DecodeInteger
<1> QED
  BY <1>1, <1>2, <1>4 DEF ReadAs

\* The row of an instruction with a number in its high twelve bits.
LEMMA HighRow ==
  ASSUME NEW m, Form(m) \in {"addi", "load", "jalr"}
  PROVE  Len(Fields(m)) = 3 /\ Fields(m)[1] = "rd" /\ Fields(m)[2] = "rs1" /\ Fields(m)[3] = "imm12"
<1>1. Fields(m) = <<"rd", "rs1", "imm12">>
  BY FieldsOf
<1> QED
  BY ONLY <1>1

\* Two registers and a number, from the generic encoder, are read back.
LEMMA ReadNumber ==
  ASSUME NEW line, NEW env, NEW w, NEW m \in DOMAIN Opcodes, m = line.m, w = ByRegisters(m, line.ops, env), w # NoWord,
         Form(m) \in {"addi", "load", "jalr"}, ~HasMemory(line.ops)
  PROVE  Reads(line, env, w)
<1>1. PICK o : o = line.ops
  OBVIOUS
<1>2. Len(Fields(m)) = 3 /\ Fields(m)[1] = "rd" /\ Fields(m)[2] = "rs1" /\ Fields(m)[3] = "imm12"
  BY HighRow
<1>3. PICK values : values = [i \in 1 .. 3 |-> GeneratedField(m, Fields(m)[i], o, i, env)]
  OBVIOUS
<1>4. w = WithFields(m, values)
  BY <1>1, <1>2, <1>3 DEF ByRegisters
<1>5. Filled(m, values, w)
  BY <1>4, FilledForms
<1>6. values[1] \in 0 .. 31 /\ values[2] \in 0 .. 31
  BY <1>5 DEF Filled
<1>7. values[1] = o[1].n /\ values[2] = o[2].n
  <2>1. Generated(values, m, 3, o, env)
    BY <1>3 DEF Generated
  <2>2. 1 \in 1 .. 3 /\ 2 \in 1 .. 3
    OBVIOUS
  <2> QED
    BY ONLY <1>2, <1>6, <2>1, <2>2, GeneratedOperand
<1>8. IsImmediate(o[3], -(2^11), 2^11 - 1, env) /\ values[3] = Bits(Value(o[3], env), 11, 0)
  <2>1. values[3] # -1
    <3>1. WithFields(m, values) # NoWord
      BY <1>4
    <3> QED
      BY <1>2, <3>1, NoneRefused
  <2>2. values[3] = GeneratedField(m, "imm12", o, 3, env)
    BY <1>2, <1>3
  <2> QED
    BY <2>1, <2>2 DEF GeneratedField
<1>9. PICK v : v = Value(o[3], env)
  OBVIOUS
<1>10. v \in -(2^11) .. 2^11 - 1 /\ HasValue(o[3], env.values, env.global)
  BY <1>8, <1>9 DEF IsImmediate
<1>11. PICK d : d = [m |-> m, rd |-> values[1], rs1 |-> values[2], imm |-> v]
  OBVIOUS
<1>12. ReadAs(m, w, d)
  BY <1>5, <1>8, <1>9, <1>10, <1>11, ReadHigh
<1>13. d.rd = o[1].n /\ d.rs1 = o[2].n /\ d.imm = Value(o[3], env)
  BY <1>7, <1>9, <1>11
<1>14. Takes(d, line, <<"rd", "rs1", "imm">>, env)
  BY ONLY <1>1, <1>10, <1>13, CarriesField, TakesThree
<1>15. Written(line) = <<"rd", "rs1", "imm">> /\ m \in IntegerMnemonics /\ m \notin FloatMnemonics
  BY WrittenAs, DecoderOf
<1> QED
  BY <1>12, <1>14, <1>15, IntegerReads

\* A register and an address, from the generic encoder.
GeneratedFrom(values, m, o, env) ==
  values = [j \in 1 .. 3 |-> GeneratedMemoryField(Fields(m)[j], o, Value(o[2], env))]
\* The two registers of a row that takes an address.
LEMMA AddressRegisters ==
  ASSUME NEW m, NEW o, NEW env, NEW values, GeneratedFrom(values, m, o, env),
         Fields(m)[1] = "rd", Fields(m)[2] = "rs1", values[1] \in 0 .. 31
  PROVE  values[1] = o[1].n /\ values[2] = o[2].base
<1>1. values[1] = GeneratedMemoryField("rd", o, Value(o[2], env))
      /\ values[2] = GeneratedMemoryField("rs1", o, Value(o[2], env))
  BY DEF GeneratedFrom
<1>2. values[1] = F(o[1]) /\ values[2] = X(Reg("x", o[2].base))
  BY <1>1 DEF GeneratedMemoryField
<1>3. values[1] = o[1].n
  BY <1>2, RegisterIs
<1>4. X(Reg("x", o[2].base)) = o[2].base
  BY DEF X, Reg
<1> QED
  BY <1>2, <1>3, <1>4

\* A register and an address are read back with the offset.
LEMMA ReadAddress ==
  ASSUME NEW line, NEW env, NEW w, NEW m \in DOMAIN Opcodes, m = line.m, w = FromMemory(m, line.ops, env), w # NoWord,
         Form(m) \in {"addi", "load", "jalr"}, HasMemory(line.ops), IsMemory(line.ops[2], env)
  PROVE  Reads(line, env, w)
<1>1. PICK o : o = line.ops
  OBVIOUS
<1>2. Len(Fields(m)) = 3 /\ Fields(m)[1] = "rd" /\ Fields(m)[2] = "rs1" /\ Fields(m)[3] = "imm12"
  BY HighRow
<1>3. PICK values : values = [i \in 1 .. 3 |-> GeneratedMemoryField(Fields(m)[i], o, Value(o[2], env))]
  OBVIOUS
<1>4. w = WithFields(m, values)
  BY <1>1, <1>2, <1>3 DEF FromMemory
<1>5. Filled(m, values, w)
  BY <1>4, FilledForms
<1>6. values[1] = o[1].n /\ values[2] = o[2].base
  <2>1. values[1] \in 0 .. 31
    BY <1>5 DEF Filled
  <2>2. GeneratedFrom(values, m, o, env)
    BY <1>3 DEF GeneratedFrom
  <2> QED
    BY <1>2, <2>1, <2>2, AddressRegisters
<1>7. PICK v : v = Value(o[2], env)
  OBVIOUS
<1>8. v \in -(2^11) .. 2^11 - 1 /\ values[3] = Bits(v, 11, 0)
  <2>1. values[3] # -1
    <3>1. WithFields(m, values) # NoWord
      BY <1>4
    <3> QED
      BY <1>2, <3>1, NoneRefused
  <2>2. values[3] = GeneratedMemoryField("imm12", o, v)
    BY <1>2, <1>3, <1>7
  <2> QED
    BY <2>1, <2>2 DEF GeneratedMemoryField
<1>9. HasValue(o[2], env.values, env.global)
  BY <1>1 DEF IsMemory
<1>10. PICK d : d = [m |-> m, rd |-> values[1], rs1 |-> values[2], imm |-> v]
  OBVIOUS
<1>11. ReadAs(m, w, d)
  BY <1>5, <1>8, <1>10, ReadHigh
<1>12. d.rd = o[1].n /\ d.rs1 = o[2].base /\ d.imm = Value(o[2], env)
  BY <1>6, <1>7, <1>10
<1>13. Takes(d, line, <<"rd", "imm(rs1)">>, env)
  BY ONLY <1>1, <1>9, <1>12, CarriesField, TakesTwo
<1>14. Written(line) = <<"rd", "imm(rs1)">> /\ m \in IntegerMnemonics /\ m \notin FloatMnemonics
  BY WrittenAs, DecoderOf
<1> QED
  BY <1>11, <1>13, <1>14, IntegerReads

\* A register operation given an address is read back with its register; the
\* offset is nowhere in the word.
LEMMA ReadBase ==
  ASSUME NEW line, NEW env, NEW w, NEW m \in DOMAIN Opcodes, m = line.m, w = FromMemory(m, line.ops, env), w # NoWord,
         Form(m) = "r", HasMemory(line.ops)
  PROVE  Reads(line, env, w)
<1>1. PICK o : o = line.ops
  OBVIOUS
<1>2. Len(Fields(m)) = 3 /\ Fields(m)[1] = "rd" /\ Fields(m)[2] = "rs1"
  <2>1. Fields(m) = <<"rd", "rs1", "rs2">>
    BY FieldsOf
  <2> QED
    BY ONLY <2>1
<1>3. PICK values : values = [i \in 1 .. 3 |-> GeneratedMemoryField(Fields(m)[i], o, Value(o[2], env))]
  OBVIOUS
<1>4. w = WithFields(m, values)
  BY <1>1, <1>2, <1>3 DEF FromMemory
<1>5. Filled(m, values, w)
  BY <1>4, FilledForms
<1>6. values[1] = o[1].n /\ values[2] = o[2].base
  <2>1. values[1] \in 0 .. 31
    BY <1>5 DEF Filled
  <2>2. GeneratedFrom(values, m, o, env)
    BY <1>3 DEF GeneratedFrom
  <2> QED
    BY <1>2, <2>1, <2>2, AddressRegisters
<1>7. w.rd = o[1].n /\ w.rs1 = o[2].base /\ Matches(m, w)
  BY <1>5, <1>6 DEF Filled
<1>8. CASE m \in {"add", "sub"}
  <2>1. m \in IntegerMnemonics /\ m \notin FloatMnemonics
    BY <1>8, DecoderOf
  <2>2. PICK d : d = DecodeInteger(m, w)
    OBVIOUS
  <2>3. d.rd = o[1].n /\ d.rs1 = o[2].base
    BY <1>7, <1>8, <2>2 DEF DecodeInteger
  <2>4. Takes(d, line, <<"rd", "(rs1)">>, env)
    BY ONLY <1>1, <2>3, CarriesField, TakesTwo
  <2>5. Written(line) = <<"rd", "(rs1)">>
    BY WrittenAs
  <2>6. ReadAs(m, w, d)
    BY <1>7, <2>2 DEF ReadAs
  <2> QED
    BY <2>1, <2>4, <2>5, <2>6, IntegerReads
<1>9. CASE m \notin {"add", "sub"}
  <2>1. m \notin IntegerMnemonics /\ m \notin FloatMnemonics
    BY <1>9, FormIs DEF FormKnown, IntegerMnemonics, FloatMnemonics
  <2> QED
    BY <1>7, <2>1, DecodedMnemonic DEF Reads
<1> QED
  BY <1>8, <1>9

\* The generic encoder is undone by the decoder.
LEMMA ReadGeneric ==
  ASSUME NEW line, NEW env, NEW w, w = EncodeGeneratedInstruction(line.m, line.ops, env), w # NoWord,
         line.m \in DOMAIN Opcodes, Form(line.m) \in {"store", "move"} => Len(line.ops) # 2
  PROVE  Reads(line, env, w)
<1>1. PICK m : m = line.m
  OBVIOUS
<1>2. m \in DOMAIN Opcodes /\ Form(m) \in GenericForms
  BY <1>1, GenericForm
<1>3. \/ HasMemory(line.ops) /\ IsMemory(line.ops[2], env) /\ w = FromMemory(m, line.ops, env)
      \/ ~HasMemory(line.ops) /\ w = ByRegisters(m, line.ops, env)
  BY <1>1, GenericPaths
<1>4. CASE Form(m) = "r"
  BY <1>1, <1>2, <1>3, <1>4, ReadByRegisters, ReadBase
<1>5. CASE Form(m) = "fr"
  <2>1. Fields(m) = <<"rd", "rs1", "rs2", "rm">>
    BY <1>5, FieldsOf
  <2>2. Len(Fields(m)) = 4 /\ Fields(m)[4] = "rm"
    BY ONLY <2>1
  <2>3. FromMemory(m, line.ops, env) = NoWord
    BY <2>2, RowRefused
  <2> QED
    BY <1>1, <1>2, <1>3, <1>5, <2>3, ReadByRegisters
<1>6. CASE Form(m) = "convert"
  <2>1. Fields(m) = <<"rd", "rs1", "rm">>
    BY <1>6, FieldsOf
  <2>2. Len(Fields(m)) = 3 /\ Fields(m)[3] = "rm"
    BY ONLY <2>1
  <2>3. FromMemory(m, line.ops, env) = NoWord
    BY <2>2, RowRefused
  <2> QED
    BY <1>1, <1>2, <1>3, <1>6, <2>3, ReadByRegisters
<1>7. CASE Form(m) \in {"addi", "load", "jalr"}
  BY <1>1, <1>2, <1>3, <1>7, ReadNumber, ReadAddress
<1>8. CASE Form(m) = "r4" \/ Form(m) = "float compare" \/ Form(m) = "float load" \/ Form(m) = "float store"
  <2>1. PICK values : w = WithFields(m, values)
    BY <1>3 DEF ByRegisters, FromMemory
  <2>2. Filled(m, values, w)
    BY <1>2, <2>1, FilledForms DEF GenericForms
  <2>3. Matches(m, w)
    BY <2>2 DEF Filled
  <2>4. m \notin IntegerMnemonics /\ m \notin FloatMnemonics
    <3>1. Form(m) \in {"r4", "float compare", "float load", "float store"}
      BY ONLY <1>8
    <3> QED
      BY ONLY <1>2, <3>1, Undecoded
  <2> QED
    BY <1>1, <1>2, <2>3, <2>4, DecodedMnemonic DEF Reads
<1> QED
  BY <1>2, <1>4, <1>5, <1>6, <1>7, <1>8 DEF GenericForms

\* assemble_instruction: the float instructions of the machine.
LEMMA ReadFloat ==
  ASSUME NEW line, NEW env, NEW w, w = AssembleFloat(line, env), w # NoWord, line.m \in DOMAIN Opcodes,
         Form(line.m) = "store" => Len(line.ops) # 2
  PROVE  Reads(line, env, w)
<1> DEFINE m == line.m  o == line.ops
           f == m \notin IntegerResult
           g == m \notin IntegerOperand
<1>1. CASE m \in {"fadd.s", "fadd.d"} /\ Len(o) = 3
  <2>1. w = EncodeFr(m, [rd |-> F(o[1]), rs1 |-> F(o[2]), rs2 |-> F(o[3]), rm |-> 7])
    <3>1. Form(m) = "fr"
      BY <1>1, FormIs DEF FormKnown
    <3> QED
      BY <1>1, <3>1 DEF AssembleFloat
  <2>2. Form(m) = "fr"
    BY <1>1, FormIs DEF FormKnown
  <2> QED
    BY <2>1, <2>2, ReadFr
<1>2. CASE Form(m) = "move" /\ Len(o) = 2
  <2>1. w = EncodeFMove(m, [rd |-> GeneratedRegister(o[1], f), rs1 |-> GeneratedRegister(o[2], g)])
    BY <1>2 DEF AssembleFloat
  <2> HIDE DEF f, g
  <2> QED
    BY <1>2, <2>1, ReadMove
<1>3. CASE Form(m) = "convert" /\ Len(o) = 2
  <2>1. w = EncodeFConvert(m, [rd |-> GeneratedRegister(o[1], f), rs1 |-> GeneratedRegister(o[2], g), rm |-> 7])
    BY <1>3 DEF AssembleFloat
  <2> HIDE DEF f, g
  <2> QED
    BY <1>3, <2>1, ReadConvert
<1>4. CASE ~(m \in {"fadd.s", "fadd.d"} /\ Len(o) = 3) /\ ~(Form(m) = "move" /\ Len(o) = 2)
           /\ ~(Form(m) = "convert" /\ Len(o) = 2)
  <2>1. w = EncodeGeneratedInstruction(m, o, env)
    BY <1>4 DEF AssembleFloat
  <2> QED
    BY <1>4, <2>1, ReadGeneric
<1> QED
  BY <1>1, <1>2, <1>3, <1>4

\* Which encoder an instruction goes to, and what its last operand is.
ByAddi(m, o, env, w) ==
  /\ Form(m) = "addi"
  /\ w = EncodeAddi([rd |-> X(o[1]), rs1 |-> X(o[2]), imm |-> Value(o[3], env)])
  /\ Len(o) = 3 /\ o[3].t = "expr" /\ HasValue(o[3], env.values, env.global)
ByAdd(m, o, env, w) ==
  /\ m \in {"add", "sub"}
  /\ w = EncodeRType(m, [rd |-> X(o[1]), rs1 |-> X(o[2]), rs2 |-> X(o[3])])
  /\ Len(o) = 3
ByU(m, o, env, w) ==
  /\ Form(m) = "u"
  /\ w = EncodeU(m, [rd |-> X(o[1]), imm |-> Value(o[2], env)])
  /\ Len(o) = 2 /\ o[2].t = "expr" /\ HasValue(o[2], env.values, env.global)
ByLoad(m, o, env, w) ==
  /\ Form(m) = "load"
  /\ w = EncodeLoad(m, [rd |-> X(o[1]), rs1 |-> o[2].base, imm |-> Value(o[2], env)])
  /\ Len(o) = 2 /\ o[2].t = "mem" /\ HasValue(o[2], env.values, env.global)
ByStore(m, o, env, w) ==
  /\ Form(m) = "store"
  /\ w = EncodeStore(m, [rs2 |-> X(o[1]), rs1 |-> o[2].base, imm |-> Value(o[2], env)])
  /\ Len(o) = 2 /\ o[2].t = "mem" /\ HasValue(o[2], env.values, env.global)
ByBranch(m, o, env, w) ==
  /\ Form(m) = "branch"
  /\ w = EncodeBranch(m, [rs1 |-> X(o[1]), rs2 |-> X(o[2]), imm |-> Value(o[3], env)])
  /\ Len(o) = 3 /\ o[3].t = "expr" /\ HasValue(o[3], env.values, env.global)
ByJal(m, o, env, w) ==
  /\ Form(m) = "jal"
  /\ w = EncodeJal([rd |-> X(o[1]), imm |-> Value(o[2], env)])
  /\ Len(o) = 2 /\ o[2].t = "expr" /\ HasValue(o[2], env.values, env.global)
ByJalr(m, o, env, w) ==
  /\ Form(m) = "jalr"
  /\ w = EncodeJalr([rd |-> X(o[1]), rs1 |-> o[2].base, imm |-> Value(o[2], env)])
  /\ Len(o) = 2 /\ o[2].t = "mem" /\ HasValue(o[2], env.values, env.global)
ByFloat(line, m, o, env, w) == w = AssembleFloat(line, env) /\ (Form(m) = "store" => Len(o) # 2)
Encoded(line, m, o, env, w) ==
  \/ ByAddi(m, o, env, w)
  \/ ByAdd(m, o, env, w)
  \/ ByU(m, o, env, w)
  \/ ByLoad(m, o, env, w)
  \/ ByStore(m, o, env, w)
  \/ ByBranch(m, o, env, w)
  \/ ByJal(m, o, env, w)
  \/ ByJalr(m, o, env, w)
  \/ ByFloat(line, m, o, env, w)

\* Every assembled word comes from one of the encoders.
LEMMA Encoders ==
  ASSUME NEW line, NEW m, NEW o, NEW env, NEW w, m = line.m, o = line.ops, w = AssembleInstruction(line, env), w # NoWord
  PROVE  m \in DOMAIN Opcodes /\ Encoded(line, m, o, env, w)
<1>1. "add" \in DOMAIN Opcodes /\ "sub" \in DOMAIN Opcodes
  BY Rows DEF Integers64
<1>2. m \in DOMAIN Opcodes
  BY <1>1 DEF AssembleInstruction, Checked
<1>3. FormKnown(m)
  BY <1>2, FormIs
<1>4. CASE Form(m) = "addi" /\ Len(o) = 3
  <2>1. m \notin {"add", "sub"}
    BY <1>3, <1>4 DEF FormKnown
  <2>2. w = Checked(IsImmediate(o[3], -(2^15), 2^15 - 1, env),
                    EncodeAddi([rd |-> X(o[1]), rs1 |-> X(o[2]), imm |-> Value(o[3], env)]))
    BY <1>2, <1>4, <2>1 DEF AssembleInstruction
  <2>3. IsImmediate(o[3], -(2^15), 2^15 - 1, env)
        /\ w = EncodeAddi([rd |-> X(o[1]), rs1 |-> X(o[2]), imm |-> Value(o[3], env)])
    BY <2>2 DEF Checked
  <2>4. ByAddi(m, o, env, w)
    BY <1>4, <2>3 DEF ByAddi, IsImmediate, IsMemory
  <2> QED
    BY <1>2, <2>4 DEF Encoded
<1>5. CASE m \in {"add", "sub"} /\ Len(o) = 3
  <2>1. Form(m) = "r"
    BY <1>3, <1>5 DEF FormKnown
  <2>2. w = EncodeRType(m, [rd |-> X(o[1]), rs1 |-> X(o[2]), rs2 |-> X(o[3])])
    BY <1>2, <1>5, <2>1 DEF AssembleInstruction
  <2>3. ByAdd(m, o, env, w)
    BY <1>5, <2>2 DEF ByAdd
  <2> QED
    BY <1>2, <2>3 DEF Encoded
<1>6. CASE Form(m) = "u" /\ Len(o) = 2
  <2>1. m \notin {"add", "sub"}
    BY <1>3, <1>6 DEF FormKnown
  <2>2. w = Checked(IsImmediate(o[2], 0, 2^20 - 1, env),
                    EncodeU(m, [rd |-> X(o[1]), imm |-> Value(o[2], env)]))
    BY <1>2, <1>6, <2>1 DEF AssembleInstruction
  <2>3. IsImmediate(o[2], 0, 2^20 - 1, env)
        /\ w = EncodeU(m, [rd |-> X(o[1]), imm |-> Value(o[2], env)])
    BY <2>2 DEF Checked
  <2>4. ByU(m, o, env, w)
    BY <1>6, <2>3 DEF ByU, IsImmediate, IsMemory
  <2> QED
    BY <1>2, <2>4 DEF Encoded
<1>7. CASE Form(m) = "load" /\ Len(o) = 2
  <2>1. m \notin {"add", "sub"}
    BY <1>3, <1>7 DEF FormKnown
  <2>2. w = Checked(IsMemory(o[2], env),
                    EncodeLoad(m, [rd |-> X(o[1]), rs1 |-> o[2].base, imm |-> Value(o[2], env)]))
    BY <1>2, <1>7, <2>1 DEF AssembleInstruction
  <2>3. IsMemory(o[2], env)
        /\ w = EncodeLoad(m, [rd |-> X(o[1]), rs1 |-> o[2].base, imm |-> Value(o[2], env)])
    BY <2>2 DEF Checked
  <2>4. ByLoad(m, o, env, w)
    BY <1>7, <2>3 DEF ByLoad, IsImmediate, IsMemory
  <2> QED
    BY <1>2, <2>4 DEF Encoded
<1>8. CASE Form(m) = "store" /\ Len(o) = 2
  <2>1. m \notin {"add", "sub"}
    BY <1>3, <1>8 DEF FormKnown
  <2>2. w = Checked(IsMemory(o[2], env),
                    EncodeStore(m, [rs2 |-> X(o[1]), rs1 |-> o[2].base, imm |-> Value(o[2], env)]))
    BY <1>2, <1>8, <2>1 DEF AssembleInstruction
  <2>3. IsMemory(o[2], env)
        /\ w = EncodeStore(m, [rs2 |-> X(o[1]), rs1 |-> o[2].base, imm |-> Value(o[2], env)])
    BY <2>2 DEF Checked
  <2>4. ByStore(m, o, env, w)
    BY <1>8, <2>3 DEF ByStore, IsImmediate, IsMemory
  <2> QED
    BY <1>2, <2>4 DEF Encoded
<1>9. CASE Form(m) = "branch" /\ Len(o) = 3
  <2>1. m \notin {"add", "sub"}
    BY <1>3, <1>9 DEF FormKnown
  <2>2. w = Checked(IsImmediate(o[3], -(2^15), 2^15 - 1, env),
                    EncodeBranch(m, [rs1 |-> X(o[1]), rs2 |-> X(o[2]), imm |-> Value(o[3], env)]))
    BY <1>2, <1>9, <2>1 DEF AssembleInstruction
  <2>3. IsImmediate(o[3], -(2^15), 2^15 - 1, env)
        /\ w = EncodeBranch(m, [rs1 |-> X(o[1]), rs2 |-> X(o[2]), imm |-> Value(o[3], env)])
    BY <2>2 DEF Checked
  <2>4. ByBranch(m, o, env, w)
    BY <1>9, <2>3 DEF ByBranch, IsImmediate, IsMemory
  <2> QED
    BY <1>2, <2>4 DEF Encoded
<1>10. CASE Form(m) = "jal" /\ Len(o) = 2
  <2>1. m \notin {"add", "sub"}
    BY <1>3, <1>10 DEF FormKnown
  <2>2. w = Checked(o[2].t = "expr" /\ HasValue(o[2], env.values, env.global),
                    EncodeJal([rd |-> X(o[1]), imm |-> Value(o[2], env)]))
    BY <1>2, <1>10, <2>1 DEF AssembleInstruction
  <2>3. o[2].t = "expr" /\ HasValue(o[2], env.values, env.global)
        /\ w = EncodeJal([rd |-> X(o[1]), imm |-> Value(o[2], env)])
    BY <2>2 DEF Checked
  <2>4. ByJal(m, o, env, w)
    BY <1>10, <2>3 DEF ByJal, IsImmediate, IsMemory
  <2> QED
    BY <1>2, <2>4 DEF Encoded
<1>11. CASE Form(m) = "jalr" /\ Len(o) = 2
  <2>1. m \notin {"add", "sub"}
    BY <1>3, <1>11 DEF FormKnown
  <2>2. w = Checked(IsMemory(o[2], env),
                    EncodeJalr([rd |-> X(o[1]), rs1 |-> o[2].base, imm |-> Value(o[2], env)]))
    BY <1>2, <1>11, <2>1 DEF AssembleInstruction
  <2>3. IsMemory(o[2], env)
        /\ w = EncodeJalr([rd |-> X(o[1]), rs1 |-> o[2].base, imm |-> Value(o[2], env)])
    BY <2>2 DEF Checked
  <2>4. ByJalr(m, o, env, w)
    BY <1>11, <2>3 DEF ByJalr, IsImmediate, IsMemory
  <2> QED
    BY <1>2, <2>4 DEF Encoded
<1>12. CASE ~(\/ Form(m) = "addi" /\ Len(o) = 3
              \/ m \in {"add", "sub"} /\ Len(o) = 3
              \/ Form(m) = "u" /\ Len(o) = 2
              \/ Form(m) = "load" /\ Len(o) = 2
              \/ Form(m) = "store" /\ Len(o) = 2
              \/ Form(m) = "branch" /\ Len(o) = 3
              \/ Form(m) = "jal" /\ Len(o) = 2
              \/ Form(m) = "jalr" /\ Len(o) = 2)
  <2>1. w = AssembleFloat(line, env)
    BY <1>2, <1>12, ZenonT(60) DEF AssembleInstruction
  <2>2. ByFloat(line, m, o, env, w)
    BY <1>12, <2>1 DEF ByFloat
  <2> QED
    BY <1>2, <2>2 DEF Encoded
<1> QED
  BY <1>4, <1>5, <1>6, <1>7, <1>8, <1>9, <1>10, <1>11, <1>12

\* Whatever encoder an instruction goes through, its own or the generic one,
\* the decoder reads its word back as its line: its mnemonic, and of those
\* whose fields the decoder gives, the number of each register and the whole
\* immediate.  An address given to add or sub comes back as its register.
THEOREM AssembledReads ==
  ASSUME NEW line, NEW env, NEW w, w = AssembleInstruction(line, env), w # NoWord
  PROVE  Reads(line, env, w)
<1>1. PICK m, o : m = line.m /\ o = line.ops
  OBVIOUS
<1>2. m \in DOMAIN Opcodes /\ Encoded(line, m, o, env, w)
  BY <1>1, Encoders
<1>3. CASE ByAddi(m, o, env, w)
  BY <1>1, <1>2, <1>3, ReadAddi DEF ByAddi
<1>4. CASE ByAdd(m, o, env, w)
  <2>1. Form(m) = "r"
    BY <1>2, <1>4, FormIs DEF FormKnown, ByAdd
  <2> QED
    BY <1>1, <1>2, <1>4, <2>1, ReadRType DEF ByAdd
<1>5. CASE ByU(m, o, env, w)
  BY <1>1, <1>2, <1>5, ReadUpper DEF ByU
<1>6. CASE ByLoad(m, o, env, w)
  BY <1>1, <1>2, <1>6, ReadLoad DEF ByLoad
<1>7. CASE ByStore(m, o, env, w)
  BY <1>1, <1>2, <1>7, ReadStore DEF ByStore
<1>8. CASE ByBranch(m, o, env, w)
  BY <1>1, <1>2, <1>8, ReadBranch DEF ByBranch
<1>9. CASE ByJal(m, o, env, w)
  BY <1>1, <1>2, <1>9, ReadJal DEF ByJal
<1>10. CASE ByJalr(m, o, env, w)
  BY <1>1, <1>2, <1>10, ReadJalr DEF ByJalr
<1>11. CASE ByFloat(line, m, o, env, w)
  BY <1>1, <1>2, <1>11, ReadFloat DEF ByFloat
<1> QED
  BY <1>2, <1>3, <1>4, <1>5, <1>6, <1>7, <1>8, <1>9, <1>10, <1>11 DEF Encoded

-----------------------------------------------------------------------------
(* The expanded program is a sequence of lines whose labels and operands   *)
(* are sequences: what macros and includes put there comes from Pool and   *)
(* Files.                                                                  *)

Macro == [params : Seq(STRING), body : Seq(Statement)]
Definition == [name : STRING, params : Seq(STRING), body : Seq(Statement)]
Retained == [line : Statement, under : Seq(STRING)]

Frame(S) == [file : S, next : Nat \ {0}]

MacrosFit(m) ==
  /\ m = [known |-> m.known, active |-> m.active, skipped |-> m.skipped]
  /\ \A name \in DOMAIN m.known : m.known[name] \in Macro
  /\ m.active # NoMacro => m.active \in Definition
OpenFit(inc) ==
  /\ inc = [open |-> inc.open, read |-> inc.read, files |-> inc.files, bytes |-> inc.bytes]
  /\ \E S : inc.open \in Seq(Frame(S))
  /\ \A i \in 2 .. Len(inc.open) : inc.open[i].file \in DOMAIN Files

SourceTypes ==
  MacrosFit(macros) /\ OpenFit(include) /\ pending \in Seq(Retained) /\ lines \in Seq(Statement)

\* The empty preprocessor is well typed.
LEMMA NothingFits ==
  /\ MacrosFit([known |-> Nothing, active |-> NoMacro, skipped |-> 0])
  /\ OpenFit([open |-> <<>>, read |-> 0, files |-> 0, bytes |-> 0])
<1>1. MacrosFit([known |-> Nothing, active |-> NoMacro, skipped |-> 0])
  BY DEF MacrosFit, Nothing
<1>2. PICK inc : inc = [open |-> <<>>, read |-> 0, files |-> 0, bytes |-> 0]
  OBVIOUS
<1>3. inc.open \in Seq(Frame({})) /\ Len(inc.open) = 0
  BY <1>2
<1>4. OpenFit(inc)
  BY <1>2, <1>3 DEF OpenFit
<1> QED
  BY <1>1, <1>2, <1>4

\* An error leaves nothing behind.
LEMMA FailTypes == ASSUME Fail PROVE SourceTypes'
<1>1. include' = [open |-> <<>>, read |-> 0, files |-> 0, bytes |-> 0]
      /\ macros' = [known |-> Nothing, active |-> NoMacro, skipped |-> 0] /\ pending' = <<>> /\ lines' = <<>>
  BY DEF Fail, Clear
<1>2. MacrosFit(macros') /\ OpenFit(include')
  BY <1>1, NothingFits
<1>3. MacrosFit(macros)' = MacrosFit(macros') /\ OpenFit(include)' = OpenFit(include')
  BY DEF MacrosFit, OpenFit
<1> QED
  BY <1>1, <1>2, <1>3 DEF SourceTypes

\* What does not change stays well typed.
LEMMA StayTypes == ASSUME SourceTypes, UNCHANGED <<include, macros, pending, lines>> PROVE SourceTypes'
BY DEF SourceTypes

\* One line on in the file that is read.
LEMMA ReadFits == ASSUME OpenFit(include), Len(include.open) \in Nat \ {0} PROVE OpenFit(Read)
<1>1. PICK S : include.open \in Seq(Frame(S))
  BY DEF OpenFit
<1>2. PICK o, n, r : o = include.open /\ n = Len(o) /\ r = Read
  OBVIOUS
<1>3. CASE Depth = 0
  <2>1. r = [include EXCEPT !.read = @ + 1]
    BY <1>2, <1>3 DEF Read
  <2>2. r.open = o /\ r = [open |-> r.open, read |-> r.read, files |-> r.files, bytes |-> r.bytes]
    BY <1>2, <2>1 DEF OpenFit
  <2> QED
    BY <1>1, <1>2, <2>2 DEF OpenFit
<1>4. CASE Depth # 0
  <2>1. Depth + 1 = n /\ n \in 1 .. n /\ n \in Nat
    BY <1>2 DEF Depth
  <2>2. r = [include EXCEPT !.open[n].next = @ + 1]
    BY <1>2, <1>4, <2>1 DEF Read
  <2>3. PICK p : p = [o EXCEPT ![n].next = @ + 1]
    OBVIOUS
  <2>4. r.open = p /\ r = [open |-> r.open, read |-> r.read, files |-> r.files, bytes |-> r.bytes]
    BY <1>2, <2>2, <2>3 DEF OpenFit
  <2>9. o \in Seq(Frame(S)) /\ n = Len(o) /\ n \in 1 .. n
    BY <1>1, <1>2, <2>1
  <2>5. o[n] \in Frame(S)
    BY ONLY <2>9
  <2>6. [o[n] EXCEPT !.next = @ + 1] \in Frame(S)
    BY ONLY <2>5 DEF Frame
  <2>7. p \in Seq(Frame(S)) /\ Len(p) = n
    BY <1>1, <1>2, <2>1, <2>3, <2>6
  <2>8. ASSUME NEW i \in 2 .. Len(p) PROVE p[i].file \in DOMAIN Files
    <3>1. o[i].file \in DOMAIN Files
      BY <1>2, <2>7 DEF OpenFit
    <3>2. o[i] \in Frame(S)
      BY ONLY <2>7, <2>9, i \in 2 .. Len(p)
    <3> QED
      BY <1>1, <1>2, <2>1, <2>3, <2>5, <2>7, <3>1, <3>2
  <2> QED
    BY <1>2, <2>4, <2>7, <2>8 DEF OpenFit
<1> QED
  BY <1>3, <1>4

\* A line that is read, with what it makes of macros and retained lines.
LEMMA KeepTypes ==
  ASSUME SourceTypes, Len(include.open) \in Nat \ {0}, NEW m, NEW b, NEW p, Keep(m, b, p),
         MacrosFit(m), p \in Seq(Retained)
  PROVE  SourceTypes'
BY ReadFits DEF Keep, SourceTypes

\* One line through the tests of the preprocessor.
LEMMA PreprocessTypes ==
  ASSUME SourceTypes, Len(include.open) \in Nat \ {0}, NEW line \in ParsedLine, Preprocess(line)
  PROVE  SourceTypes'
<1> USE DEF SourceTypes
<1>0. line.m # ".macro" => line \in Statement
  BY DEF ParsedLine, Header
<1>11. line.m = ".macro" => line \in Header
  BY DEF ParsedLine, Statement
<1>1. CASE Fail
  BY <1>1, FailTypes
<1>2. CASE \E b : Keep(macros, b, pending)
  BY <1>2, KeepTypes
<1>3. CASE Skipping(line)
  <2>1. PICK v, b : Keep([macros EXCEPT !.skipped = v], b, pending)
    BY <1>3 DEF Skipping
  <2>2. MacrosFit([macros EXCEPT !.skipped = v])
    BY DEF MacrosFit
  <2> QED
    BY <2>1, <2>2, KeepTypes
<1>4. CASE InMacro(line) /\ macros.active # NoMacro
  <2>1. macros.active \in Definition
    BY <1>4 DEF MacrosFit
  <2>2. CASE line.m = ".endm"
    <3>1. PICK d : d = macros.active
      OBVIOUS
    <3>2. PICK m : m = [macros EXCEPT !.active = NoMacro,
                                      !.known = Put(@, d.name, [params |-> d.params, body |-> d.body])]
      OBVIOUS
    <3>3. Keep(m, branches, pending)
      BY <1>4, <2>2, <3>1, <3>2 DEF InMacro
    <3>4. [params |-> d.params, body |-> d.body] \in Macro
      BY <2>1, <3>1 DEF Definition, Macro
    <3>5. m.known = Put(macros.known, d.name, [params |-> d.params, body |-> d.body]) /\ m.active = NoMacro
          /\ m = [known |-> m.known, active |-> m.active, skipped |-> m.skipped]
      BY <3>2 DEF MacrosFit
    <3>6. \A name \in DOMAIN m.known : m.known[name] \in Macro
      BY <3>4, <3>5 DEF Put, MacrosFit
    <3>7. MacrosFit(m)
      BY <3>5, <3>6 DEF MacrosFit
    <3> QED
      BY <3>3, <3>7, KeepTypes
  <2>3. CASE line.m # ".endm" /\ ~Fail
    <3>1. PICK m : m = [macros EXCEPT !.active.body = Append(@, line)]
      OBVIOUS
    <3>2. Keep(m, branches, pending) /\ line.m # ".macro"
      BY <1>4, <2>3, <3>1 DEF InMacro
    <3>3. line \in Statement
      BY <1>0, <3>2
    <3>4. PICK a, c : c = macros.active /\ a = [c EXCEPT !.body = Append(@, line)]
      OBVIOUS
    <3>5. a \in Definition
      <4>1. c \in Definition
        BY <2>1, <3>4
      <4>2. c.body \in Seq(Statement) /\ c.name \in STRING /\ c.params \in Seq(STRING)
            /\ c = [name |-> c.name, params |-> c.params, body |-> c.body]
        BY ONLY <4>1 DEF Definition
      <4>3. Append(c.body, line) \in Seq(Statement)
        BY ONLY <3>3, <4>2
      <4>4. a = [name |-> c.name, params |-> c.params, body |-> Append(c.body, line)]
        BY ONLY <3>4, <4>2
      <4> QED
        BY ONLY <4>2, <4>3, <4>4 DEF Definition
    <3>6. m.known = macros.known /\ m.active = a /\ m = [known |-> m.known, active |-> m.active, skipped |-> m.skipped]
      BY <3>1, <3>4 DEF MacrosFit
    <3>7. MacrosFit(m)
      BY <3>5, <3>6 DEF MacrosFit
    <3> QED
      BY <3>2, <3>7, KeepTypes
  <2> QED
    BY <1>1, <2>2, <2>3
<1>5. CASE MacroHeader(line) /\ ~Fail /\ line.m = ".macro"
  <2>1. CASE ~AllActive
    <3>1. Keep([macros EXCEPT !.skipped = 1], branches, pending)
      BY <1>5, <2>1 DEF MacroHeader
    <3>2. MacrosFit([macros EXCEPT !.skipped = 1])
      BY DEF MacrosFit
    <3> QED
      BY <3>1, <3>2, KeepTypes
  <2>2. CASE AllActive
    <3>1. PICK a : a = [name |-> Head(line.ops), params |-> Tail(line.ops), body |-> <<>>]
      OBVIOUS
    <3>2. ~HeaderFails(line) /\ Keep([macros EXCEPT !.active = a], branches, pending)
      BY <1>5, <2>2, <3>1 DEF MacroHeader
    <3>3. MacrosFit([macros EXCEPT !.active = a])
      <4>1. a \in Definition
        <5>1. line.ops \in Seq(STRING) /\ line.ops # <<>>
          BY <1>5, <1>11, <3>2 DEF Header, HeaderFails
        <5>2. Head(line.ops) \in STRING /\ Tail(line.ops) \in Seq(STRING)
          BY <5>1, HeadTailProperties
        <5>3. <<>> \in Seq(Statement)
          OBVIOUS
        <5> QED
          BY ONLY <3>1, <5>2, <5>3 DEF Definition
      <4>2. PICK m : m = [macros EXCEPT !.active = a]
        OBVIOUS
      <4>3. m.known = macros.known /\ m.active = a /\ m = [known |-> m.known, active |-> m.active, skipped |-> m.skipped]
        BY <4>2 DEF MacrosFit
      <4> QED
        BY <4>1, <4>2, <4>3 DEF MacrosFit
    <3> QED
      BY <3>2, <3>3, KeepTypes
  <2> QED
    BY <2>1, <2>2
<1>6. CASE Retain(line) /\ ~Fail /\ line.m # ".macro"
  <2>1. PICK b : Keep(macros, b, Append(pending, [line |-> line, under |-> <<>>]))
    BY <1>6 DEF Retain
  <2>2. [line |-> line, under |-> <<>>] \in Retained
    BY <1>0, <1>6 DEF Retained
  <2>3. Append(pending, [line |-> line, under |-> <<>>]) \in Seq(Retained)
    BY <2>2
  <2> QED
    BY <2>1, <2>3, KeepTypes
<1>7. If(line) => Fail \/ \E b : Keep(macros, b, pending)
  BY DEF If
<1>8. Else(line) => Fail \/ \E b : Keep(macros, b, pending)
  BY DEF Else
<1>9. EndIf(line) => Fail \/ \E b : Keep(macros, b, pending)
  BY DEF EndIf
<1>10. Drop => \E b : Keep(macros, b, pending)
  BY DEF Drop
<1> QED
  BY <1>1, <1>2, <1>3, <1>4, <1>5, <1>6, <1>7, <1>8, <1>9, <1>10 DEF Preprocess

\* A line that is read, an .include or another.
LEMMA TakeTypes ==
  ASSUME SourceTypes, Len(include.open) \in Nat \ {0}, NEW line \in ParsedLine, Take(line)
  PROVE  SourceTypes'
<1>1. CASE line.m # ".include"
  BY <1>1, PreprocessTypes DEF Take
<1>2. CASE line.m = ".include" /\ IncludeFails(line)
  BY <1>2, FailTypes DEF Take, Include
<1>3. CASE line.m = ".include" /\ ~IncludeFails(line)
  <2>1. PICK word, count, size : /\ word = line.ops[1].word /\ word \in DOMAIN Files
                                 /\ include' = [Read EXCEPT !.open = Append(@, [file |-> word, next |-> 1]),
                                                            !.files = count, !.bytes = size]
                                 /\ UNCHANGED <<macros, pending, lines>>
    BY <1>3 DEF Take, Include, IncludeFails, Resolves
  <2>2. PICK r, o, p : r = Read /\ o = r.open /\ p = Append(o, [file |-> word, next |-> 1])
    OBVIOUS
  <2>3. OpenFit(r)
    BY <2>2, ReadFits DEF SourceTypes
  <2>4. PICK S : o \in Seq(Frame(S))
    BY ONLY <2>2, <2>3 DEF OpenFit
  <2>5. \A i \in 2 .. Len(o) : o[i].file \in DOMAIN Files
    BY ONLY <2>2, <2>3 DEF OpenFit
  <2>6. [file |-> word, next |-> 1] \in Frame(S \cup {word}) /\ Frame(S) \subseteq Frame(S \cup {word})
    BY DEF Frame
  <2>7. p \in Seq(Frame(S \cup {word})) /\ Len(p) = Len(o) + 1 /\ p[Len(p)] = [file |-> word, next |-> 1]
        /\ \A i \in 1 .. Len(o) : p[i] = o[i]
    <3>1. o \in Seq(Frame(S \cup {word}))
      <4>1. Len(o) \in Nat /\ o = [i \in 1 .. Len(o) |-> o[i]] /\ \A i \in 1 .. Len(o) : o[i] \in Frame(S)
        BY ONLY <2>4
      <4>2. PICK n : n = Len(o)
        OBVIOUS
      <4>3. PICK T : T = Frame(S \cup {word})
        OBVIOUS
      <4>4. n \in Nat /\ \A i \in 1 .. n : o[i] \in T
        BY <2>6, <4>1, <4>2, <4>3
      <4>5. [i \in 1 .. n |-> o[i]] \in Seq(T)
        BY ONLY <4>4
      <4> QED
        BY ONLY <4>1, <4>2, <4>3, <4>5
    <3> HIDE DEF Frame
    <3> QED
      BY ONLY <2>2, <2>6, <3>1
  <2>8. Len(o) \in Nat
    BY <2>4
  <2>9. ASSUME NEW i \in 2 .. Len(p) PROVE p[i].file \in DOMAIN Files
    BY <2>1, <2>5, <2>7, <2>8
  <2>10. include'.open = p /\ include' = [open |-> include'.open, read |-> include'.read,
                                          files |-> include'.files, bytes |-> include'.bytes]
    BY <2>1, <2>2, <2>3 DEF OpenFit
  <2>11. OpenFit(include')
    BY <2>7, <2>9, <2>10 DEF OpenFit
  <2>12. OpenFit(include)' = OpenFit(include')
    BY DEF OpenFit
  <2> QED
    BY <2>1, <2>11, <2>12 DEF SourceTypes
<1> QED
  BY <1>1, <1>2, <1>3

\* Lines come from the main text or from an open file.
LEMMA ReadTypes == ASSUME SourceTypes, ReadMain \/ ReadIncluded PROVE SourceTypes'
<1>1. PICK S : include.open \in Seq(Frame(S))
  BY DEF SourceTypes, OpenFit
<1>2. Len(include.open) \in Nat
  BY <1>1
<1>3. CASE ReadMain
  <2>1. Len(include.open) \in Nat \ {0}
    <3>1. Depth = 0
      BY <1>3 DEF ReadMain
    <3>2. PICK n : n = Len(include.open)
      OBVIOUS
    <3>3. n \in Nat /\ n - 1 = 0
      BY <1>2, <3>1, <3>2 DEF Depth
    <3> QED
      BY ONLY <3>2, <3>3
  <2> QED
    BY <1>3, <2>1, TakeTypes, SourceAssumption DEF ReadMain
<1>4. CASE ReadIncluded
  <2>1. PICK n, file, next : n = Len(include.open) /\ file = include.open[n].file /\ next = include.open[n].next
    OBVIOUS
  <2>2. Depth + 1 = n /\ n \in 2 .. n /\ n \in 1 .. n
    BY <1>2, <1>4, <2>1 DEF ReadIncluded, Depth
  <2>3. file \in DOMAIN Files /\ next \in Nat \ {0}
    <3>1. file \in DOMAIN Files
      BY <2>1, <2>2 DEF SourceTypes, OpenFit
    <3>2. include.open[n] \in Frame(S)
      BY ONLY <1>1, <2>1, <2>2
    <3> QED
      BY <2>1, <3>1, <3>2 DEF Frame
  <2>4. next <= Len(Files[file].lines) /\ Take(Files[file].lines[next])
    BY <1>4, <2>1, <2>2 DEF ReadIncluded, Top
  <2>5. Files[file].lines \in Seq(ParsedLine)
    BY <2>3, SourceAssumption
  <2>6. Files[file].lines[next] \in ParsedLine
    BY <2>3, <2>4, <2>5
  <2>7. Len(include.open) \in Nat \ {0}
    BY <1>2, <2>1, <2>2
  <2> QED
    BY <2>4, <2>6, <2>7, TakeTypes
<1> QED
  BY <1>3, <1>4

\* The start of an assembly.
LEMMA StartTypes == ASSUME SourceTypes, Start PROVE SourceTypes'
<1>1. CASE Fail
  BY <1>1, FailTypes
<1>2. CASE ~Fail
  <2>1. PICK o : /\ include' = [include EXCEPT !.open = <<[file |-> o.source, next |-> 1]>>]
                 /\ UNCHANGED <<macros, pending, lines>>
    BY <1>2 DEF Start
  <2>2. [file |-> o.source, next |-> 1] \in Frame({o.source})
    BY DEF Frame
  <2>3. PICK p : p = <<[file |-> o.source, next |-> 1]>>
    OBVIOUS
  <2>4. p \in Seq(Frame({o.source})) /\ Len(p) = 1
    BY <2>2, <2>3
  <2>5. include'.open = p /\ include' = [open |-> include'.open, read |-> include'.read,
                                         files |-> include'.files, bytes |-> include'.bytes]
    BY <2>1, <2>3 DEF SourceTypes, OpenFit
  <2>6. OpenFit(include')
    <3>1. \A i \in 2 .. Len(p) : p[i].file \in DOMAIN Files
      BY ONLY <2>4
    <3> QED
      BY <2>4, <2>5, <3>1 DEF OpenFit
  <2>7. OpenFit(include)' = OpenFit(include')
    BY DEF OpenFit
  <2> QED
    BY <2>1, <2>6, <2>7 DEF SourceTypes
<1> QED
  BY <1>1, <1>2

\* The end of a file, and of the source.
LEMMA EndTypes == ASSUME SourceTypes, EndOfFile \/ EndOfSource PROVE SourceTypes'
<1>1. CASE EndOfFile
  <2>1. PICK S : include.open \in Seq(Frame(S))
    BY DEF SourceTypes, OpenFit
  <2>2. PICK o, p : o = include.open /\ p = SubSeq(o, 1, Len(o) - 1)
    OBVIOUS
  <2>3. Len(o) \in Nat /\ Len(o) - 1 > 0
    BY <1>1, <2>1, <2>2 DEF EndOfFile, Depth
  <2>4. p \in Seq(Frame(S)) /\ Len(p) = Len(o) - 1 /\ \A i \in 1 .. Len(p) : p[i] = o[i]
    BY <2>1, <2>2, <2>3
  <2>5. include'.open = p /\ include' = [open |-> include'.open, read |-> include'.read,
                                         files |-> include'.files, bytes |-> include'.bytes]
    BY <1>1, <2>2 DEF EndOfFile, Depth, SourceTypes, OpenFit
  <2>6. \A i \in 2 .. Len(o) : o[i].file \in DOMAIN Files
    BY <2>2 DEF SourceTypes, OpenFit
  <2>7. \A i \in 2 .. Len(p) : p[i].file \in DOMAIN Files
    BY ONLY <2>3, <2>4, <2>6
  <2>8. OpenFit(include')
    BY <2>4, <2>5, <2>7 DEF OpenFit
  <2>9. OpenFit(include)' = OpenFit(include')
    BY DEF OpenFit
  <2> QED
    BY <1>1, <2>8, <2>9 DEF SourceTypes, EndOfFile
<1>2. CASE EndOfSource /\ ~Fail
  <2>1. include' = [open |-> <<>>, read |-> 0, files |-> 0, bytes |-> 0] /\ UNCHANGED <<macros, pending, lines>>
    BY <1>2 DEF EndOfSource
  <2>2. OpenFit(include')
    BY <2>1, NothingFits
  <2>3. OpenFit(include)' = OpenFit(include')
    BY DEF OpenFit
  <2> QED
    BY <2>1, <2>2, <2>3 DEF SourceTypes
<1> QED
  BY <1>1, <1>2, FailTypes

\* A name from an argument is a name, and never opens a definition.
LEMMA NamedType ==
  ASSUME NEW word \in STRING, NEW params \in Seq(STRING), NEW args \in Seq(Operand)
  PROVE  Named(word, params, args) \in STRING /\ (word # ".macro" => Named(word, params, args) # ".macro")
<1>1. CASE Filler(word, params, args) = {}
  BY <1>1 DEF Named
<1>2. CASE Filler(word, params, args) # {}
  <2>1. PICK i : i = CHOOSE j \in Filler(word, params, args) : TRUE
    OBVIOUS
  <2>2. i \in Filler(word, params, args)
    BY <1>2, <2>1
  <2>3. i \in DOMAIN args /\ PlainName(args[i])
    BY <2>2 DEF Filler
  <2>4. args[i] \in Operand
    BY <2>3
  <2>5. args[i].t = "expr" /\ args[i].sym # ".macro"
    BY <2>3 DEF PlainName
  <2>6. args[i].sym \in STRING
    BY <2>4, <2>5 DEF Operand
  <2>7. Named(word, params, args) = args[i].sym
    BY <1>2, <2>1 DEF Named
  <2> QED
    BY <2>5, <2>6, <2>7
<1> QED
  BY <1>1, <1>2

\* Arguments in place of parameters leave a statement.
LEMMA SubstituteType ==
  ASSUME NEW line \in Statement, NEW params \in Seq(STRING), NEW args \in Seq(Operand), Len(args) = Len(params)
  PROVE  Substitute(line, params, args) \in Statement
<1>1. ASSUME NEW op \in Operand PROVE Replace(op, params, args) \in Operand
  <2>1. CASE \E i \in DOMAIN params : params[i] = op.name
    <3>1. PICK i : i = CHOOSE j \in DOMAIN params : params[j] = op.name
      OBVIOUS
    <3>2. i \in DOMAIN params
      BY <2>1, <3>1
    <3>3. args[i] \in Operand
      BY <3>2
    <3> QED
      BY <3>1, <3>3 DEF Replace
  <2>2. CASE ~\E i \in DOMAIN params : params[i] = op.name
    BY <2>2 DEF Replace
  <2> QED
    BY <2>1, <2>2
<1>2. PICK ops, new, labels, names, m :
             /\ ops = line.ops /\ new = [i \in DOMAIN ops |-> Replace(ops[i], params, args)]
             /\ labels = line.labels /\ names = [i \in DOMAIN labels |-> Named(labels[i], params, args)]
             /\ m = Named(line.m, params, args)
  OBVIOUS
<1>3. ops \in Seq(Operand) /\ labels \in Seq(STRING) /\ line.m \in STRING \ {".macro"}
  BY <1>2 DEF Statement
<1>4. /\ DOMAIN ops = 1 .. Len(ops) /\ Len(ops) \in Nat /\ \A i \in 1 .. Len(ops) : ops[i] \in Operand
      /\ DOMAIN labels = 1 .. Len(labels) /\ Len(labels) \in Nat /\ \A i \in 1 .. Len(labels) : labels[i] \in STRING
  BY <1>3
<1>5. new \in Seq(Operand)
  BY <1>1, <1>2, <1>4
<1>6. names \in Seq(STRING)
  <2>1. \A i \in 1 .. Len(labels) : Named(labels[i], params, args) \in STRING
    BY <1>4, NamedType
  <2> QED
    BY <1>2, <1>4, <2>1
<1>7. m \in STRING \ {".macro"}
  BY <1>2, <1>3, NamedType
<1>8. Substitute(line, params, args) = [labels |-> names, m |-> m, ops |-> new]
  BY <1>2 DEF Substitute
<1> QED
  BY <1>5, <1>6, <1>7, <1>8 DEF Statement

\* One step of the expansion.
LEMMA ExpandTypes == ASSUME SourceTypes, Expand PROVE SourceTypes'
<1>1. PICK p, line : p = Head(pending) /\ line = p.line
  OBVIOUS
<1>2. pending \in Seq(Retained) /\ pending # <<>> /\ lines \in Seq(Statement)
  BY DEF SourceTypes, Expand
<1>3. p \in Retained /\ Tail(pending) \in Seq(Retained)
  BY <1>1, <1>2, HeadTailProperties
<1>4. line \in Statement /\ p.under \in Seq(STRING) /\ line.m \in STRING /\ line.ops \in Seq(Operand)
  BY <1>1, <1>3 DEF Retained, Statement
<1>5. CASE Fail
  BY <1>5, FailTypes
<1>6. CASE ~Fail /\ ~Invokes(line)
  <2>1. lines' = Append(lines, line) /\ pending' = Tail(pending) /\ UNCHANGED <<include, macros>>
    BY <1>1, <1>6 DEF Expand
  <2>2. lines' \in Seq(Statement)
    BY <1>2, <1>4, <2>1
  <2>3. MacrosFit(macros)' /\ OpenFit(include)'
    BY <2>1 DEF SourceTypes, MacrosFit, OpenFit
  <2> QED
    BY <1>3, <2>1, <2>2, <2>3 DEF SourceTypes
<1>7. CASE ~Fail /\ Invokes(line)
  <2>1. PICK d, under : d = macros.known[line.m] /\ under = Append(p.under, line.m)
    OBVIOUS
  <2>2. /\ Len(line.ops) = Len(d.params) /\ UNCHANGED <<include, macros, lines>>
        /\ pending' = [i \in 1 .. Len(d.body) |-> [line |-> Substitute(d.body[i], d.params, line.ops), under |-> under]]
                      \o Tail(pending)
    BY <1>1, <1>7, <2>1 DEF Expand
  <2>3. d \in Macro
    BY <1>7, <2>1 DEF SourceTypes, MacrosFit, Invokes
  <2>4. d.params \in Seq(STRING) /\ d.body \in Seq(Statement)
    BY <2>3 DEF Macro
  <2>5. under \in Seq(STRING)
    BY <1>4, <2>1
  <2>6. ASSUME NEW i \in 1 .. Len(d.body)
        PROVE  [line |-> Substitute(d.body[i], d.params, line.ops), under |-> under] \in Retained
    <3>1. d.body[i] \in Statement
      BY <2>4
    <3>2. Substitute(d.body[i], d.params, line.ops) \in Statement
      BY <1>4, <2>2, <2>4, <3>1, SubstituteType
    <3> QED
      BY <2>5, <3>2 DEF Retained
  <2>7. PICK q : q = [i \in 1 .. Len(d.body) |-> [line |-> Substitute(d.body[i], d.params, line.ops), under |-> under]]
    OBVIOUS
  <2>8. Len(d.body) \in Nat
    BY <2>4
  <2>9. q \in Seq(Retained)
    BY <2>6, <2>7, <2>8
  <2>10. pending' \in Seq(Retained)
    BY ONLY <1>3, <2>2, <2>7, <2>9
  <2>11. MacrosFit(macros)' /\ OpenFit(include)' /\ lines' \in Seq(Statement)
    BY <1>2, <2>2 DEF SourceTypes, MacrosFit, OpenFit
  <2> QED
    BY <2>10, <2>11 DEF SourceTypes
<1> QED
  BY <1>5, <1>6, <1>7

-----------------------------------------------------------------------------
(* A branch or a jump that names its target.                               *)

\* The operands with a value among those an instruction is written with.
Valued(field) == field = "imm" \/ field = "imm(rs1)" \/ field = "target"

\* What the line says of the word, before the labels are resolved.
Says(d, line, field, o, pc, env) ==
  /\ Valued(field) => HasValue(o, env.values, env.global)
  /\ CASE field = "imm" -> d.imm = Value(o, env)
       [] field = "imm(rs1)" -> d.imm = Value(o, env) /\ d.rs1 = o.base
       [] field = "(rs1)" -> d.rs1 = o.base
       [] field = "target" -> d.imm = IF NamesTarget(line) THEN Value(o, env) - pc ELSE Value(o, env)
       [] OTHER -> d[field] = o.n
ReadsLine(line, pc, env, w) ==
  /\ Decode(w).m = line.m
  /\ line.m \in IntegerMnemonics \cup FloatMnemonics =>
       \A k \in DOMAIN Written(line) : Says(Decode(w), line, Written(line)[k], line.ops[k], pc, env)

\* The forms of the instructions that name a target.
LEMMA TargetForm ==
  ASSUME NEW m, TargetOperand(m) # 0
  PROVE  m \in {"beq", "bne", "jal"} /\ (m = "jal" => Form(m) = "jal") /\ (m # "jal" => Form(m) = "branch")
<1>1. Form("beq") = "branch" /\ Form("bne") = "branch" /\ Form("jal") = "jal"
  BY IntegerRows DEF Is
<1>2. m \in {"beq", "bne", "jal"}
  BY DEF TargetOperand
<1> QED
  BY <1>1, <1>2

\* Only the last operand of a branch or a jump is a target.
LEMMA TargetIsLast ==
  ASSUME NEW line, TargetOperand(line.m) # 0, NEW k \in DOMAIN Written(line)
  PROVE  (Written(line)[k] = "target" <=> k = TargetOperand(line.m)) /\ k \in 1 .. TargetOperand(line.m)
<1>1. PICK f, wr, i : f = Form(line.m) /\ wr = Written(line) /\ i = TargetOperand(line.m)
  OBVIOUS
<1>2. line.m \in {"beq", "bne", "jal"} /\ (line.m = "jal" => f = "jal") /\ (line.m # "jal" => f = "branch")
  BY <1>1, TargetForm
<1>3. (f = "branch" => wr = <<"rs1", "rs2", "target">>) /\ (f = "jal" => wr = <<"rd", "target">>)
  BY <1>1, WrittenAs
<1>4. (line.m = "jal" => i = 2) /\ (line.m # "jal" => i = 3)
  BY <1>1, <1>2 DEF TargetOperand
<1>5. (i = 3 /\ wr = <<"rs1", "rs2", "target">>) \/ (i = 2 /\ wr = <<"rd", "target">>)
  BY <1>2, <1>3, <1>4
<1>6. k \in DOMAIN wr
  BY <1>1
<1>7. (wr[k] = "target" <=> k = i) /\ k \in 1 .. i
  BY ONLY <1>5, <1>6
<1> QED
  BY <1>1, <1>7

\* The offset in place of the label leaves the shape of the line.
LEMMA WrittenResolved ==
  ASSUME NEW line, NEW r, r.m = line.m, TargetOperand(line.m) # 0
  PROVE  Written(r) = Written(line)
BY TargetForm, WrittenAs

\* What each kind of field carries.
LEMMA CarriesValued ==
  /\ \A d, o, env : Carries(d, "imm", o, env) => d.imm = Value(o, env) /\ HasValue(o, env.values, env.global)
  /\ \A d, o, env : Carries(d, "target", o, env) => d.imm = Value(o, env) /\ HasValue(o, env.values, env.global)
  /\ \A d, o, env : Carries(d, "imm(rs1)", o, env) =>
       d.imm = Value(o, env) /\ d.rs1 = o.base /\ HasValue(o, env.values, env.global)
  /\ \A d, o, env : Carries(d, "(rs1)", o, env) => d.rs1 = o.base
  /\ \A d, f, o, env : Carries(d, f, o, env) /\ ~Valued(f) /\ f # "(rs1)" => d[f] = o.n
BY DEF Carries, Valued

\* A field that carries its operand says what the line says.
LEMMA OperandOf ==
  ASSUME NEW d, NEW line, NEW field, NEW o, NEW pc, NEW env, Carries(d, field, o, env),
         field = "target" => ~NamesTarget(line)
  PROVE  Says(d, line, field, o, pc, env)
BY CarriesValued DEF Says, Valued

\* The offset in place of the label is read back as the label.
LEMMA ResolvedReads ==
  ASSUME NEW line \in Statement, NEW pc, NEW env, NEW r, r = ResolveControlLabel(line, pc, env),
         NEW w, w = AssembleInstruction(r, env), w # NoWord
  PROVE  ReadsLine(line, pc, env, w)
<1>1. PICK m, i, o : m = line.m /\ i = TargetOperand(m) /\ o = line.ops
  OBVIOUS
<1>2. Reads(r, env, w)
  BY AssembledReads
<1>3. r.m = m /\ (NamesTarget(line) /\ HasValue(o[i], env.values, env.global) =>
                    r.ops = [o EXCEPT ![i] = Expr("", Value(o[i], env) - pc)])
      /\ (~(NamesTarget(line) /\ HasValue(o[i], env.values, env.global)) => r = line)
  BY <1>1 DEF ResolveControlLabel, Line
<1>4. m \in DOMAIN Opcodes /\ Decode(w).m = m
  BY <1>2, <1>3 DEF Reads
<1>5. DOMAIN o = 1 .. Len(o) /\ Len(o) \in Nat
  <2>1. o \in Seq(Operand)
    BY <1>1 DEF Statement
  <2> QED
    BY ONLY <2>1
<1>6. NamesTarget(line) => i \in DOMAIN o /\ i # 0
  <2>1. NamesTarget(line) => i \in DOMAIN o
    BY <1>1 DEF NamesTarget
  <2> QED
    BY ONLY <1>5, <2>1
<1>7. Written(r) = Written(line)
  <2>1. CASE NamesTarget(line)
    BY <1>1, <1>3, <1>6, <2>1, WrittenResolved
  <2>2. CASE ~NamesTarget(line)
    BY <1>3, <2>2
  <2> QED
    BY <2>1, <2>2
<1>8. ASSUME m \in IntegerMnemonics \cup FloatMnemonics, NEW k \in DOMAIN Written(line)
      PROVE  Says(Decode(w), line, Written(line)[k], o[k], pc, env)
  <2>1. PICK d, field : d = Decode(w) /\ field = Written(line)[k]
    OBVIOUS
  <2>2. Carries(d, field, r.ops[k], env)
    BY <1>2, <1>3, <1>7, <1>8, <2>1 DEF Reads
  <2>3. i # 0 => (field = "target" <=> k = i) /\ k \in 1 .. i
    BY <1>1, <2>1, TargetIsLast
  <2>4. CASE ~NamesTarget(line)
    <3>1. r = line
      BY <1>3, <2>4
    <3> QED
      BY <1>1, <2>1, <2>2, <2>4, <3>1, OperandOf
  <2>5. CASE NamesTarget(line) /\ ~HasValue(o[i], env.values, env.global)
    <3>1. r = line
      BY <1>3, <2>5
    <3>2. field # "target"
      <4> SUFFICES ASSUME field = "target" PROVE FALSE
        OBVIOUS
      <4>1. k = i
        BY <1>6, <2>3, <2>5
      <4>2. HasValue(o[k], env.values, env.global)
        BY <1>1, <2>2, <3>1, CarriesValued
      <4> QED
        BY <2>5, <4>1, <4>2
    <3> QED
      BY <1>1, <2>1, <2>2, <3>1, <3>2, OperandOf
  <2>6. CASE NamesTarget(line) /\ HasValue(o[i], env.values, env.global)
    <3>1. i \in DOMAIN o /\ i # 0
      BY <1>6, <2>6
    <3>2. PICK v : v = Value(o[i], env) - pc
      OBVIOUS
    <3>3. r.ops = [o EXCEPT ![i] = Expr("", v)]
      BY <1>3, <2>6, <3>2
    <3>4. k \in DOMAIN o
      BY <1>5, <2>3, <3>1
    <3>5. CASE k = i
      <4>1. r.ops[k] = Expr("", v) /\ field = "target"
        BY <2>3, <3>1, <3>3, <3>5
      <4>2. d.imm = Value(Expr("", v), env)
        <5>1. PICK e : e = Expr("", v)
          OBVIOUS
        <5>2. Carries(d, "target", e, env)
          BY <2>2, <4>1, <5>1
        <5>3. d.imm = Value(e, env)
          BY ONLY <5>2, CarriesValued
        <5> QED
          BY ONLY <5>1, <5>3
      <4>3. Value(Expr("", v), env) = v
        BY DEF Value, ValueOf, Expr
      <4> QED
        BY <2>1, <2>6, <3>2, <3>5, <4>1, <4>2, <4>3 DEF Says, Valued
    <3>6. CASE k # i
      <4>1. r.ops[k] = o[k] /\ field # "target"
        <5>1. PICK e : e = Expr("", v)
          OBVIOUS
        <5>2. r.ops = [o EXCEPT ![i] = e]
          BY <3>3, <5>1
        <5>3. r.ops[k] = o[k]
          BY ONLY <3>4, <3>6, <5>2
        <5>4. field # "target"
          BY <2>3, <3>1, <3>6
        <5> QED
          BY <5>3, <5>4
      <4> QED
        BY <2>1, <2>2, <4>1, OperandOf
    <3> QED
      BY <3>5, <3>6
  <2> QED
    BY <2>4, <2>5, <2>6
<1> QED
  BY <1>1, <1>4, <1>8 DEF ReadsLine

-----------------------------------------------------------------------------
(* The first pass, line by line: t[i] is what it knows after line i.       *)

Found(pc, global, symbols, values, equs) ==
  [pc |-> pc, global |-> global, symbols |-> symbols, values |-> values, equs |-> equs]
AtTop == Found(0, "", Nothing, Nothing, Nothing)

KeysOf(line, a) == LabelKeys(line.labels, a.global)
LabelledValues(line, a) == Labelled(a.values, KeysOf(line, a), a.pc)
SizeOf(line, a, b) == IF line.m = "none" THEN 0 ELSE LineSize(line, a.pc, Env(b.values, b.global))

FirstStep(line, a, b) ==
  /\ ~LabelsFail(line.labels, a.global, a.values)
  /\ ~DefinitionFails(line, b.global, DOMAIN b.symbols, LabelledValues(line, a), a.equs)
  /\ b.global = ScopeAfter(line.labels, a.global)
  /\ b.symbols = Labelled(a.symbols, KeysOf(line, a), a.pc)
  /\ b.values = Define(line, b.global, LabelledValues(line, a), LabelledValues(line, a))
  /\ b.equs = IF line.m = ".equ" THEN Define(line, b.global, LabelledValues(line, a), a.equs) ELSE a.equs
  /\ SizeOf(line, a, b) # -1 /\ b.pc = a.pc + SizeOf(line, a, b)

\* Labels and .equ constants are apart, and are values.
Sound(a) ==
  /\ \A k \in DOMAIN a.symbols : k \in DOMAIN a.values /\ a.values[k] = a.symbols[k] /\ k \notin DOMAIN a.equs
  /\ \A k \in DOMAIN a.equs : k \in DOMAIN a.values /\ a.values[k] = a.equs[k]

\* What is a label or an .equ constant stays it, and nothing else becomes one.
Kept(a, b) ==
  /\ DOMAIN a.values \subseteq DOMAIN b.values
  /\ \A k \in DOMAIN a.symbols : k \in DOMAIN b.symbols /\ b.symbols[k] = a.symbols[k]
  /\ \A k \in DOMAIN a.equs : k \in DOMAIN b.equs /\ b.equs[k] = a.equs[k]
  /\ \A k \in DOMAIN a.values : k \in DOMAIN b.symbols => k \in DOMAIN a.symbols
  /\ \A k \in DOMAIN a.values : k \in DOMAIN b.equs => k \in DOMAIN a.equs

\* Kept is transitive.
LEMMA KeptTwice == ASSUME NEW a, NEW b, NEW c, Kept(a, b), Kept(b, c) PROVE Kept(a, c)
BY DEF Kept
\* Kept is reflexive.
LEMMA KeptSelf == \A a : Kept(a, a)
BY DEF Kept

\* What one line adds: new labels, and the constant it defines.
Adds(a, b, labelled, new, pc) ==
  /\ new \cap DOMAIN a.values = {}
  /\ DOMAIN labelled = DOMAIN a.values \cup new
  /\ \A k \in DOMAIN a.values : labelled[k] = a.values[k]
  /\ \A k \in new : labelled[k] = pc
  /\ DOMAIN b.symbols = DOMAIN a.symbols \cup new
  /\ \A k \in DOMAIN a.symbols : k \notin new => b.symbols[k] = a.symbols[k]
  /\ \A k \in new : b.symbols[k] = pc
DefinesKey(line, a, b, labelled, key, v) ==
  /\ key \notin DOMAIN b.symbols
  /\ line.m = ".equ" => key \notin DOMAIN labelled
  /\ line.m # ".equ" => key \notin DOMAIN a.equs
  /\ DOMAIN b.values = DOMAIN labelled \cup {key} /\ b.values[key] = v
  /\ \A k \in DOMAIN labelled : k # key => b.values[k] = labelled[k]
  /\ line.m # ".equ" => b.equs = a.equs
  /\ line.m = ".equ" => /\ DOMAIN b.equs = DOMAIN a.equs \cup {key} /\ b.equs[key] = v
                        /\ \A k \in DOMAIN a.equs : k # key => b.equs[k] = a.equs[k]

NewKeys(line, a) == {KeysOf(line, a)[i] : i \in DOMAIN KeysOf(line, a)}

\* The labels of a line are new, and at its pc.
LEMMA LineAdds ==
  ASSUME NEW line, NEW a, NEW b, FirstStep(line, a, b)
  PROVE  Adds(a, b, LabelledValues(line, a), NewKeys(line, a), a.pc)
<1>1. PICK keys, new, f : /\ keys = KeysOf(line, a) /\ new = {keys[i] : i \in DOMAIN keys}
                          /\ f = LabelledValues(line, a)
  OBVIOUS
<1>2. new = NewKeys(line, a)
  BY <1>1 DEF NewKeys
<1>3. \A i \in DOMAIN keys : keys[i] \notin DOMAIN a.values
  BY <1>1 DEF FirstStep, LabelsFail, KeysOf
<1>4. new \cap DOMAIN a.values = {}
  BY <1>1, <1>3
<1>5. f = [k \in DOMAIN a.values \cup new |-> IF k \in new THEN a.pc ELSE a.values[k]]
  BY <1>1 DEF LabelledValues, Labelled
<1>6. b.symbols = [k \in DOMAIN a.symbols \cup new |-> IF k \in new THEN a.pc ELSE a.symbols[k]]
  BY <1>1 DEF FirstStep, Labelled
<1>7. DOMAIN f = DOMAIN a.values \cup new /\ (\A k \in new : f[k] = a.pc)
      /\ \A k \in DOMAIN a.values : f[k] = a.values[k]
  BY <1>4, <1>5
<1>8. DOMAIN b.symbols = DOMAIN a.symbols \cup new /\ (\A k \in new : b.symbols[k] = a.pc)
      /\ \A k \in DOMAIN a.symbols : k \notin new => b.symbols[k] = a.symbols[k]
  BY <1>6
<1> QED
  BY <1>1, <1>2, <1>4, <1>7, <1>8 DEF Adds

DefinedValue(line, a, b) == ValueOf(line.ops[2], LabelledValues(line, a), b.global)

\* Only .equ and .set define, one key each, from symbols that have a value.
LEMMA LineDefines ==
  ASSUME NEW line, NEW a, NEW b, FirstStep(line, a, b)
  PROVE  /\ ~Defines(line) => b.values = LabelledValues(line, a) /\ b.equs = a.equs
         /\ Defines(line) => /\ DefinesKey(line, a, b, LabelledValues(line, a), DefinedKey(line, b.global), DefinedValue(line, a, b))
                             /\ HasValue(line.ops[2], LabelledValues(line, a), b.global)
<1>1. PICK f, key, v : f = LabelledValues(line, a) /\ key = DefinedKey(line, b.global) /\ v = DefinedValue(line, a, b)
  OBVIOUS
<1>2. CASE ~Defines(line)
  BY <1>2 DEF FirstStep, Define, Defines
<1>3. CASE Defines(line)
  <2>1. b.values = Put(f, key, v)
    BY <1>1, <1>3 DEF FirstStep, Define, DefinedValue
  <2>2. line.m = ".equ" => b.equs = Put(a.equs, key, v)
    BY <1>1, <1>3 DEF FirstStep, Define, DefinedValue
  <2>3. line.m # ".equ" => b.equs = a.equs
    BY DEF FirstStep
  <2>4. key \notin DOMAIN b.symbols /\ (line.m = ".equ" => key \notin DOMAIN f) /\ (line.m # ".equ" => key \notin DOMAIN a.equs)
        /\ HasValue(line.ops[2], f, b.global)
    BY <1>1, <1>3 DEF FirstStep, DefinitionFails
  <2>5. DOMAIN b.values = DOMAIN f \cup {key} /\ b.values[key] = v /\ \A k \in DOMAIN f : k # key => b.values[k] = f[k]
    BY <2>1 DEF Put
  <2>6. line.m = ".equ" => /\ DOMAIN b.equs = DOMAIN a.equs \cup {key} /\ b.equs[key] = v
                           /\ \A k \in DOMAIN a.equs : k # key => b.equs[k] = a.equs[k]
    BY <2>2 DEF Put
  <2> QED
    BY <1>1, <1>3, <2>3, <2>4, <2>5, <2>6 DEF DefinesKey
<1> QED
  BY <1>2, <1>3

\* One line keeps labels and constants apart and where they were.
LEMMA LineIsSound ==
  ASSUME NEW line, NEW a, NEW b, Sound(a), FirstStep(line, a, b)
  PROVE  Sound(b) /\ Kept(a, b)
<1>1. PICK f, new, pc, key, v : /\ f = LabelledValues(line, a) /\ new = NewKeys(line, a) /\ pc = a.pc
                                /\ key = DefinedKey(line, b.global) /\ v = DefinedValue(line, a, b)
  OBVIOUS
<1>2. Adds(a, b, f, new, pc)
  BY <1>1, LineAdds
<1>3. CASE ~Defines(line)
  <2>1. b.values = f /\ b.equs = a.equs
    BY <1>1, <1>3, LineDefines
  <2> QED
    BY ONLY <1>2, <2>1, Sound(a) DEF Adds, Sound, Kept
<1>4. CASE Defines(line)
  <2>1. DefinesKey(line, a, b, f, key, v)
    BY <1>1, <1>4, LineDefines
  <2>2. CASE line.m = ".equ"
    <3>1. Sound(b)
      BY ONLY <1>2, <2>1, <2>2, Sound(a) DEF Adds, Sound, DefinesKey
    <3>2. Kept(a, b)
      BY ONLY <1>2, <2>1, <2>2, Sound(a) DEF Adds, Sound, Kept, DefinesKey
    <3> QED
      BY <3>1, <3>2
  <2>3. CASE line.m # ".equ"
    <3>1. Sound(b)
      BY ONLY <1>2, <2>1, <2>3, Sound(a) DEF Adds, Sound, DefinesKey
    <3>2. Kept(a, b)
      BY ONLY <1>2, <2>1, <2>3, Sound(a) DEF Adds, Sound, Kept, DefinesKey
    <3> QED
      BY <3>1, <3>2
  <2> QED
    BY <2>2, <2>3
<1> QED
  BY <1>3, <1>4

\* The last global label above each line.
LEMMA GlobalAtTop == GlobalOf(0) = ""
BY DEF GlobalOf

\* The scope after a line, from the scope before it.
LEMMA GlobalStep ==
  ASSUME NEW i \in Nat \ {0}
  PROVE  GlobalOf(i) = ScopeAfter(lines[i].labels, GlobalOf(i - 1))
<1> DEFINE HasGlobal(j) == \E l \in ToSet(lines[j].labels) : l \notin LocalNames
           S == {j \in 1 .. i : HasGlobal(j)}
           T == {j \in 1 .. i - 1 : HasGlobal(j)}
<1>1. HasGlobal(i) <=> GlobalLabels(lines[i].labels) # {}
  BY DEF ToSet, GlobalLabels
<1>2. GlobalOf(i) = IF S = {} THEN "" ELSE LastGlobal(lines[Max(S)].labels)
  BY DEF GlobalOf
<1>3. GlobalOf(i - 1) = IF T = {} THEN "" ELSE LastGlobal(lines[Max(T)].labels)
  BY DEF GlobalOf
<1>4. CASE HasGlobal(i)
  <2>1. i \in S /\ \A j \in S : j \in Int /\ i >= j
    BY <1>4
  <2> HIDE DEF S, HasGlobal
  <2>2. Max(S) = i
    <3>1. \A x \in S : (\A y \in S : x >= y) => x = i
      BY <2>1
    <3> QED
      BY <2>1, <3>1 DEF Max
  <2> QED
    BY <1>1, <1>2, <1>4, <2>1, <2>2 DEF ScopeAfter
<1>5. CASE ~HasGlobal(i)
  <2>1. S = T
    BY <1>5
  <2> HIDE DEF S, T, HasGlobal
  <2> QED
    BY <1>1, <1>2, <1>3, <1>5, <2>1 DEF ScopeAfter
<1> QED
  BY <1>4, <1>5

-----------------------------------------------------------------------------
(* What the second pass knows before it emits a line, and what the lines   *)
(* mean, in terms of the first.                                            *)

FirstPass(t, n) ==
  /\ t[0] = AtTop
  /\ \A i \in 1 .. n : FirstStep(lines[i], t[i - 1], t[i])
  /\ \A i \in 0 .. n : Sound(t[i]) /\ Kept(t[i], t[n]) /\ t[i].global = GlobalOf(i)
  /\ \A k \in DOMAIN t[n].symbols : \E i \in 1 .. n : k \in NewKeys(lines[i], t[i - 1])

\* The records before the first line.
LEMMA NothingFound == ASSUME NEW t, t[0] = AtTop PROVE FirstPass(t, 0)
<1>1. DOMAIN t[0].symbols = {} /\ DOMAIN t[0].values = {} /\ DOMAIN t[0].equs = {} /\ t[0].global = ""
  <2>1. DOMAIN Nothing = {}
    BY DEF Nothing
  <2>2. t[0].symbols = Nothing /\ t[0].values = Nothing /\ t[0].equs = Nothing /\ t[0].global = ""
    <3>1. AtTop.symbols = Nothing /\ AtTop.values = Nothing /\ AtTop.equs = Nothing /\ AtTop.global = ""
      BY DEF AtTop, Found
    <3> QED
      BY <3>1
  <2> QED
    BY ONLY <2>1, <2>2
<1>2. Sound(t[0]) /\ Kept(t[0], t[0])
  BY ONLY <1>1 DEF Sound, Kept
<1>3. \A i \in 0 .. 0 : i = 0
  OBVIOUS
<1>4. \A i \in 1 .. 0 : FALSE
  OBVIOUS
<1>5. \A k \in DOMAIN t[0].symbols : FALSE
  BY ONLY <1>1
<1> QED
  BY <1>1, <1>2, <1>3, <1>4, <1>5, GlobalAtTop DEF FirstPass

\* The records grow by a line.
LEMMA OneLineMore ==
  ASSUME NEW t, NEW n \in Nat, FirstPass(t, n), NEW b, FirstStep(lines[n + 1], t[n], b),
         NEW u, u = [i \in 0 .. n + 1 |-> IF i = n + 1 THEN b ELSE t[i]]
  PROVE  FirstPass(u, n + 1)
<1>1. u[n + 1] = b /\ u[n] = t[n] /\ u[0] = t[0] /\ \A i \in 0 .. n : u[i] = t[i]
  OBVIOUS
<1>2. Sound(b) /\ Kept(t[n], b)
  BY LineIsSound DEF FirstPass
<1>3. \A i \in 1 .. n + 1 : FirstStep(lines[i], u[i - 1], u[i])
  <2>1. \A i \in 1 .. n : u[i - 1] = t[i - 1] /\ u[i] = t[i] /\ FirstStep(lines[i], t[i - 1], t[i])
    BY <1>1 DEF FirstPass
  <2>2. (n + 1) - 1 = n /\ FirstStep(lines[n + 1], u[n], u[n + 1])
    BY <1>1
  <2>3. ASSUME NEW i \in 1 .. n + 1 PROVE FirstStep(lines[i], u[i - 1], u[i])
    <3>1. CASE i \in 1 .. n
      BY <2>1, <3>1
    <3>2. CASE i = n + 1
      BY <2>2, <3>2
    <3> QED
      BY <3>1, <3>2
  <2> QED
    BY <2>3
<1>4. b.global = GlobalOf(n + 1)
  <2>1. (n + 1) - 1 = n /\ n + 1 \in Nat \ {0}
    OBVIOUS
  <2>2. GlobalOf(n + 1) = ScopeAfter(lines[n + 1].labels, GlobalOf(n))
    BY <2>1, GlobalStep
  <2>3. t[n].global = GlobalOf(n)
    BY DEF FirstPass
  <2> QED
    BY <2>2, <2>3 DEF FirstStep
<1>5. ASSUME NEW i \in 0 .. n + 1 PROVE Sound(u[i]) /\ Kept(u[i], u[n + 1]) /\ u[i].global = GlobalOf(i)
  <2>1. CASE i = n + 1
    BY <1>1, <1>2, <1>4, <2>1, KeptSelf
  <2>2. CASE i \in 0 .. n
    <3>1. Sound(t[i]) /\ Kept(t[i], t[n]) /\ t[i].global = GlobalOf(i)
      BY <2>2 DEF FirstPass
    <3>2. Kept(t[i], b)
      BY <1>2, <3>1, KeptTwice
    <3> QED
      BY <1>1, <2>2, <3>1, <3>2
  <2> QED
    BY <2>1, <2>2
<1>6. ASSUME NEW k \in DOMAIN b.symbols PROVE \E i \in 1 .. n + 1 : k \in NewKeys(lines[i], u[i - 1])
  <2>1. Adds(t[n], b, LabelledValues(lines[n + 1], t[n]), NewKeys(lines[n + 1], t[n]), t[n].pc)
    BY LineAdds
  <2>2. k \in DOMAIN t[n].symbols \/ k \in NewKeys(lines[n + 1], t[n])
    BY <2>1 DEF Adds
  <2>3. CASE k \in DOMAIN t[n].symbols
    <3>1. PICK i \in 1 .. n : k \in NewKeys(lines[i], t[i - 1])
      BY <2>3 DEF FirstPass
    <3>2. u[i - 1] = t[i - 1] /\ i \in 1 .. n + 1
      BY <1>1
    <3> QED
      BY <3>1, <3>2
  <2>4. CASE k \in NewKeys(lines[n + 1], t[n])
    <3>1. u[(n + 1) - 1] = t[n] /\ n + 1 \in 1 .. n + 1
      BY <1>1
    <3> QED
      BY <2>4, <3>1
  <2> QED
    BY <2>2, <2>3, <2>4
<1> QED
  BY <1>1, <1>3, <1>5, <1>6 DEF FirstPass

\* The symbols of the second pass after line i, and the meaning of the symbols there.
Second(t, n, i) ==
  [k \in DOMAIN t[n].symbols \cup DOMAIN t[n].equs \cup DOMAIN t[i].values |->
     IF k \in DOMAIN t[n].equs THEN t[n].equs[k]
     ELSE IF k \in DOMAIN t[n].symbols THEN t[n].symbols[k] ELSE t[i].values[k]]
KnownAt(t, n, i) ==
  [k \in DOMAIN t[n].symbols \cup DOMAIN t[i].values |->
     IF k \in DOMAIN t[n].symbols THEN t[n].symbols[k] ELSE t[i].values[k]]

Extends(f, h) == \A k \in DOMAIN f : k \in DOMAIN h /\ h[k] = f[k]

\* An expression keeps its value when symbols are added.
LEMMA SameValue ==
  ASSUME NEW e, NEW f, NEW h, NEW global, HasValue(e, f, global), Extends(f, h)
  PROVE  HasValue(e, h, global) /\ ValueOf(e, h, global) = ValueOf(e, f, global)
BY DEF HasValue, ValueOf, Extends

\* What was known in the first pass is known in the second, with the same value.
LEMMA SecondExtends ==
  ASSUME NEW t, NEW n \in Nat, FirstPass(t, n), NEW i \in 0 .. n
  PROVE  Extends(t[i].values, Second(t, n, i)) /\ Extends(t[i].values, KnownAt(t, n, i))
<1>1. Sound(t[i]) /\ Kept(t[i], t[n])
  BY DEF FirstPass
<1>2. PICK a, c : a = t[i] /\ c = t[n]
  OBVIOUS
<1>3. Sound(a) /\ Kept(a, c)
  BY <1>1, <1>2
<1> QED
  BY <1>2, <1>3 DEF Second, KnownAt, Extends, Sound, Kept

\* A line between the record before it and the one after it.
Line3(t, n, i, a, b, c) ==
  /\ a = t[i - 1] /\ b = t[i] /\ c = t[n]
  /\ FirstStep(lines[i], a, b) /\ Sound(a) /\ Sound(b) /\ Sound(c) /\ Kept(a, b) /\ Kept(a, c) /\ Kept(b, c)
  /\ b.global = GlobalOf(i) /\ a.global = GlobalOf(i - 1)

\* Every line of the records has its two neighbours.
LEMMA LineOf ==
  ASSUME NEW t, NEW n \in Nat, FirstPass(t, n), NEW i \in 1 .. n
  PROVE  Line3(t, n, i, t[i - 1], t[i], t[n])
<1>1. i - 1 \in 0 .. n /\ i \in 0 .. n /\ n \in 0 .. n
  OBVIOUS
<1>2. FirstStep(lines[i], t[i - 1], t[i])
  BY DEF FirstPass
<1>3. \A j \in 0 .. n : Sound(t[j]) /\ Kept(t[j], t[n]) /\ t[j].global = GlobalOf(j)
  BY DEF FirstPass
<1>4. Kept(t[i - 1], t[i])
  BY <1>1, <1>2, <1>3, LineIsSound
<1> QED
  BY <1>1, <1>2, <1>3, <1>4 DEF Line3

\* A new label has its final place already.
LEMMA NewLabelKept ==
  ASSUME NEW t, NEW n, NEW i, NEW a, NEW b, NEW c, Line3(t, n, i, a, b, c), NEW k \in NewKeys(lines[i], a)
  PROVE  k \in DOMAIN c.symbols /\ c.symbols[k] = a.pc /\ k \notin DOMAIN c.equs /\ k \in DOMAIN b.symbols
<1>1. Adds(a, b, LabelledValues(lines[i], a), NewKeys(lines[i], a), a.pc)
  BY LineAdds DEF Line3
<1>2. k \in DOMAIN b.symbols /\ b.symbols[k] = a.pc
  BY <1>1 DEF Adds
<1> QED
  BY <1>2 DEF Line3, Kept, Sound

\* The labels of a line, too, are known before it in the second pass.
LEMMA LabelledExtends ==
  ASSUME NEW t, NEW n \in Nat, FirstPass(t, n), NEW i \in 1 .. n
  PROVE  /\ Extends(LabelledValues(lines[i], t[i - 1]), Second(t, n, i - 1))
         /\ Extends(LabelledValues(lines[i], t[i - 1]), KnownAt(t, n, i - 1))
<1>1. PICK a, b, c : a = t[i - 1] /\ b = t[i] /\ c = t[n]
  OBVIOUS
<1>2. Line3(t, n, i, a, b, c)
  BY <1>1, LineOf
<1>3. PICK f, new : f = LabelledValues(lines[i], a) /\ new = NewKeys(lines[i], a)
  OBVIOUS
<1>4. Adds(a, b, f, new, a.pc)
  BY <1>2, <1>3, LineAdds DEF Line3
<1>5. \A k \in new : k \in DOMAIN c.symbols /\ c.symbols[k] = a.pc /\ k \notin DOMAIN c.equs
  BY <1>2, <1>3, NewLabelKept
<1>6. Extends(a.values, Second(t, n, i - 1)) /\ Extends(a.values, KnownAt(t, n, i - 1))
  <2>1. i - 1 \in 0 .. n
    OBVIOUS
  <2> QED
    BY <1>1, <2>1, SecondExtends
<1>7. PICK g, h : g = Second(t, n, i - 1) /\ h = KnownAt(t, n, i - 1)
  OBVIOUS
<1>8. \A k \in new : k \in DOMAIN g /\ g[k] = a.pc /\ k \in DOMAIN h /\ h[k] = a.pc
  BY <1>1, <1>5, <1>7 DEF Second, KnownAt
<1>9. Extends(f, g) /\ Extends(f, h)
  BY ONLY <1>4, <1>6, <1>7, <1>8 DEF Adds, Extends
<1> QED
  BY <1>1, <1>3, <1>7, <1>9

\* A line that defines nothing leaves both as they were.
LEMMA NothingNew ==
  ASSUME NEW t, NEW n \in Nat, FirstPass(t, n), NEW i \in 1 .. n, ~Defines(lines[i])
  PROVE  Second(t, n, i) = Second(t, n, i - 1) /\ KnownAt(t, n, i) = KnownAt(t, n, i - 1)
<1>1. PICK a, b, c : a = t[i - 1] /\ b = t[i] /\ c = t[n]
  OBVIOUS
<1>2. Line3(t, n, i, a, b, c)
  BY <1>1, LineOf
<1>3. PICK f, new : f = LabelledValues(lines[i], a) /\ new = NewKeys(lines[i], a)
  OBVIOUS
<1>4. Adds(a, b, f, new, a.pc) /\ b.values = f
  BY <1>2, <1>3, LineAdds, LineDefines DEF Line3
<1>5. \A k \in new : k \in DOMAIN c.symbols
  BY <1>2, <1>3, NewLabelKept
<1>6. /\ DOMAIN c.symbols \cup DOMAIN b.values = DOMAIN c.symbols \cup DOMAIN a.values
      /\ \A k \in DOMAIN b.values : k \notin DOMAIN c.symbols => k \in DOMAIN a.values /\ b.values[k] = a.values[k]
  BY ONLY <1>4, <1>5 DEF Adds
<1>7. Second(t, n, i) = Second(t, n, i - 1)
  <2>1. DOMAIN c.symbols \cup DOMAIN c.equs \cup DOMAIN b.values = DOMAIN c.symbols \cup DOMAIN c.equs \cup DOMAIN a.values
    BY <1>6
  <2> QED
    BY <1>1, <1>6, <2>1 DEF Second
<1>8. KnownAt(t, n, i) = KnownAt(t, n, i - 1)
  BY <1>1, <1>6 DEF KnownAt
<1> QED
  BY <1>7, <1>8

\* What a line defines.
LEMMA SomethingNew ==
  ASSUME NEW t, NEW n \in Nat, FirstPass(t, n), NEW i \in 1 .. n, Defines(lines[i]),
         NEW key, key = DefinedKey(lines[i], t[i].global), NEW e, e = lines[i].ops[2], NEW global, global = t[i].global
  PROVE  /\ KnownAt(t, n, i) = Put(KnownAt(t, n, i - 1), key, ValueOf(e, KnownAt(t, n, i - 1), global))
         /\ lines[i].m = ".equ" => Second(t, n, i) = Second(t, n, i - 1)
         /\ lines[i].m = ".set" =>
              /\ key \notin DOMAIN t[n].symbols \cup DOMAIN t[n].equs /\ HasValue(e, Second(t, n, i - 1), global)
              /\ Second(t, n, i) = Put(Second(t, n, i - 1), key, ValueOf(e, Second(t, n, i - 1), global))
<1>1. PICK a, b, c : a = t[i - 1] /\ b = t[i] /\ c = t[n]
  OBVIOUS
<1>2. Line3(t, n, i, a, b, c)
  BY <1>1, LineOf
<1>3. PICK f, new, v, line : /\ f = LabelledValues(lines[i], a) /\ new = NewKeys(lines[i], a)
                             /\ v = DefinedValue(lines[i], a, b) /\ line = lines[i]
  OBVIOUS
<1>4. Adds(a, b, f, new, a.pc) /\ DefinesKey(line, a, b, f, key, v) /\ HasValue(e, f, global)
  BY <1>1, <1>2, <1>3, LineAdds, LineDefines DEF Line3
<1>5. \A k \in new : k \in DOMAIN c.symbols
  BY <1>2, <1>3, NewLabelKept
<1>6. PICK g, h : g = Second(t, n, i - 1) /\ h = KnownAt(t, n, i - 1)
  OBVIOUS
<1>7. Extends(f, g) /\ Extends(f, h)
  BY <1>1, <1>3, <1>6, LabelledExtends
<1>8. v = ValueOf(e, f, global)
  BY <1>1, <1>3 DEF DefinedValue
<1>9. v = ValueOf(e, h, global) /\ v = ValueOf(e, g, global) /\ HasValue(e, g, global)
  BY <1>4, <1>7, <1>8, SameValue
<1>10. Sound(b) /\ Kept(b, c)
  BY <1>2 DEF Line3
<1>11. key \notin DOMAIN c.symbols /\ key \in DOMAIN b.values /\ b.values[key] = v
  BY ONLY <1>4, <1>10 DEF DefinesKey, Kept
<1>12. /\ DOMAIN c.symbols \cup DOMAIN b.values = DOMAIN c.symbols \cup DOMAIN a.values \cup {key}
       /\ \A k \in DOMAIN b.values : k \notin DOMAIN c.symbols /\ k # key =>
            k \in DOMAIN a.values /\ b.values[k] = a.values[k]
  BY ONLY <1>4, <1>5 DEF Adds, DefinesKey
<1>13. KnownAt(t, n, i) = Put(h, key, v)
  <2>1. h = [k \in DOMAIN c.symbols \cup DOMAIN a.values |-> IF k \in DOMAIN c.symbols THEN c.symbols[k] ELSE a.values[k]]
    BY <1>1, <1>6 DEF KnownAt
  <2>2. KnownAt(t, n, i) = [k \in DOMAIN c.symbols \cup DOMAIN b.values |->
                              IF k \in DOMAIN c.symbols THEN c.symbols[k] ELSE b.values[k]]
    BY <1>1 DEF KnownAt
  <2> QED
    BY ONLY <1>11, <1>12, <2>1, <2>2 DEF Put
<1>14. ASSUME line.m = ".equ" PROVE Second(t, n, i) = g
  <2>1. key \in DOMAIN c.equs
    BY ONLY <1>4, <1>10, <1>14 DEF DefinesKey, Kept
  <2>2. g = [k \in DOMAIN c.symbols \cup DOMAIN c.equs \cup DOMAIN a.values |->
               IF k \in DOMAIN c.equs THEN c.equs[k] ELSE IF k \in DOMAIN c.symbols THEN c.symbols[k] ELSE a.values[k]]
    BY <1>1, <1>6 DEF Second
  <2>3. Second(t, n, i) = [k \in DOMAIN c.symbols \cup DOMAIN c.equs \cup DOMAIN b.values |->
               IF k \in DOMAIN c.equs THEN c.equs[k] ELSE IF k \in DOMAIN c.symbols THEN c.symbols[k] ELSE b.values[k]]
    BY <1>1 DEF Second
  <2>4. DOMAIN c.symbols \cup DOMAIN c.equs \cup DOMAIN b.values = DOMAIN c.symbols \cup DOMAIN c.equs \cup DOMAIN a.values
    BY ONLY <1>12, <2>1
  <2> QED
    BY ONLY <1>12, <2>1, <2>2, <2>3, <2>4
<1>15. ASSUME line.m = ".set" PROVE key \notin DOMAIN c.equs /\ Second(t, n, i) = Put(g, key, v)
  <2>1. key \notin DOMAIN c.equs
    BY ONLY <1>4, <1>10, <1>11, <1>15 DEF DefinesKey, Kept
  <2>2. g = [k \in DOMAIN c.symbols \cup DOMAIN c.equs \cup DOMAIN a.values |->
               IF k \in DOMAIN c.equs THEN c.equs[k] ELSE IF k \in DOMAIN c.symbols THEN c.symbols[k] ELSE a.values[k]]
    BY <1>1, <1>6 DEF Second
  <2>3. Second(t, n, i) = [k \in DOMAIN c.symbols \cup DOMAIN c.equs \cup DOMAIN b.values |->
               IF k \in DOMAIN c.equs THEN c.equs[k] ELSE IF k \in DOMAIN c.symbols THEN c.symbols[k] ELSE b.values[k]]
    BY <1>1 DEF Second
  <2>4. DOMAIN c.symbols \cup DOMAIN c.equs \cup DOMAIN b.values
          = DOMAIN c.symbols \cup DOMAIN c.equs \cup DOMAIN a.values \cup {key}
    BY ONLY <1>12
  <2> QED
    BY ONLY <1>11, <1>12, <2>1, <2>2, <2>3, <2>4 DEF Put
<1> QED
  BY <1>1, <1>3, <1>6, <1>9, <1>11, <1>13, <1>14, <1>15

-----------------------------------------------------------------------------
(* One line of the second pass: it has the size that the first pass gave   *)
(* it, and the bytes of its mnemonic and operands.                         *)

LEMMA Kinds ==
  /\ \A m \in IntegerData : m \notin FloatData /\ m \notin TextData /\ m \notin Alignments /\ m \notin SectionDirectives
                            /\ m \in Directives /\ m \notin {".equ", ".set", "none", "beq", "bne", "jal"}
  /\ \A m \in FloatData : m \notin IntegerData /\ m \notin TextData /\ m \notin Alignments /\ m \notin SectionDirectives
                            /\ m \in Directives /\ m \notin {".equ", ".set", "none", "beq", "bne", "jal"}
  /\ \A m \in TextData : m \notin IntegerData /\ m \notin FloatData /\ m \notin Alignments /\ m \notin SectionDirectives
                            /\ m \in Directives /\ m \notin {".equ", ".set", "none", "beq", "bne", "jal"}
  /\ \A m \in Alignments : m \notin IntegerData /\ m \notin FloatData /\ m \notin TextData /\ m \notin SectionDirectives
                            /\ m \in Directives /\ m \notin {".equ", ".set", "none", "beq", "bne", "jal"}
BY DEF IntegerData, FloatData, TextData, Alignments, SectionDirectives, Directives

\* What is no directive is an instruction.
LEMMA NotDirective ==
  ASSUME NEW m, m \notin IntegerData, m \notin FloatData, m \notin TextData, m \notin Alignments, m \notin {".equ", ".set"}
  PROVE  m \notin Directives
BY DEF Directives

\* No instruction has the name of a directive.
LEMMA OpcodesAreApart ==
  \A m \in DOMAIN Opcodes : m \notin IntegerData /\ m \notin FloatData /\ m \notin TextData /\ m \notin Alignments
                            /\ m \notin SectionDirectives /\ m \notin {".equ", ".set", "none"}
BY Mnemonics DEF IntegerData, FloatData, TextData, Alignments, SectionDirectives

\* Only branches and jumps are changed before they are assembled.
LEMMA Unresolved ==
  ASSUME NEW line \in Statement, line.m \notin {"beq", "bne", "jal"}, NEW pc, NEW env
  PROVE  ResolveControlLabel(line, pc, env) = line
<1>1. TargetOperand(line.m) = 0
  BY DEF TargetOperand
<1>2. line.ops \in Seq(Operand)
  BY DEF Statement
<1>3. 0 \notin DOMAIN line.ops
  BY ONLY <1>2
<1> QED
  BY <1>1, <1>3 DEF ResolveControlLabel, NamesTarget

\* Resolving a label leaves the mnemonic.
LEMMA ResolvedMnemonic ==
  ASSUME NEW line, NEW pc, NEW env PROVE ResolveControlLabel(line, pc, env).m = line.m
BY DEF ResolveControlLabel, Line

Plain(line) == ~IsSection(line) /\ ~Defines(line) /\ line.m # "none"

\* What is emitted, by the kind of line.
LEMMA EmittedKind ==
  ASSUME NEW r, NEW pc, NEW env, NEW m, m = r.m, m \notin {".equ", ".set"}
  PROVE  /\ m \in IntegerData => AssembleParsed(r, pc, env) = DataValues(r, env)
         /\ m \in TextData => AssembleParsed(r, pc, env) = TextValues(r)
         /\ m \in Alignments => AssembleParsed(r, pc, env) = Padding(r, pc, env)
<1>1. ~Defines(r)
  BY DEF Defines
<1>2. m \in Directives => AssembleParsed(r, pc, env) = AssembleDirective(r, pc, env)
  BY DEF AssembleParsed
<1>3. m \in IntegerData => AssembleDirective(r, pc, env) = DataValues(r, env)
  BY <1>1, Kinds DEF AssembleDirective
<1>4. m \in TextData => AssembleDirective(r, pc, env) = TextValues(r)
  BY <1>1, Kinds DEF AssembleDirective
<1>5. m \in Alignments => AssembleDirective(r, pc, env) = Padding(r, pc, env)
  BY <1>1, Kinds DEF AssembleDirective
<1> QED
  BY <1>2, <1>3, <1>4, <1>5, Kinds

\* line_size, by the kind of line.
LEMMA SizeKind ==
  ASSUME NEW line, Plain(line), NEW pc, NEW env, NEW m, m = line.m
  PROVE  /\ m \in IntegerData => LineSize(line, pc, env) = DataWidth(m) * Len(line.ops)
         /\ m \in TextData => LineSize(line, pc, env) = TextValues(line).len
         /\ m \in Alignments => LineSize(line, pc, env) = Padding(line, pc, env).len
         /\ m \notin IntegerData /\ m \notin TextData /\ m \notin Alignments => LineSize(line, pc, env) = 4
BY Kinds DEF LineSize, Plain

\* The length of what is emitted.
LEMMA LengthOf == \A n : Emits(n).len = n
BY DEF Emits

\* Both passes pad alike: the boundary has the same value in both.
LEMMA PaddingAgrees ==
  ASSUME NEW line, NEW pc, NEW f, NEW h, NEW global, Extends(f, h), Padding(line, pc, Env(f, global)).len # -1
  PROVE  Padding(line, pc, Env(h, global)) = Padding(line, pc, Env(f, global))
<1>1. PICK e, x, y : e = line.ops[1] /\ x = Env(f, global) /\ y = Env(h, global)
  OBVIOUS
<1>2. ~BoundaryFails(line, x)
  BY <1>1, LengthOf DEF Padding, Wrong
<1>3. HasValue(e, f, global)
  BY <1>1, <1>2 DEF BoundaryFails, IsImmediate, Env
<1>4. HasValue(e, h, global) /\ ValueOf(e, h, global) = ValueOf(e, f, global)
  BY <1>3, SameValue
<1>5. Value(e, x) = Value(e, y) /\ HasValue(e, y.values, y.global)
  BY <1>1, <1>4 DEF Value, Env
<1>6. ~BoundaryFails(line, y)
  BY <1>1, <1>2, <1>5 DEF BoundaryFails, IsImmediate
<1>7. Boundary(line, x) = Boundary(line, y)
  BY <1>1, <1>5 DEF Boundary
<1> QED
  BY <1>1, <1>2, <1>6, <1>7 DEF Padding

\* Integer data: their length and their values.
LEMMA DataEmitted ==
  ASSUME NEW line, NEW env, DataValues(line, env) # Wrong
  PROVE  /\ DataValues(line, env).len = DataWidth(line.m) * Len(line.ops)
         /\ \A k \in DOMAIN line.ops : HasValue(line.ops[k], env.values, env.global)
         /\ DataValues(line, env).data = [k \in DOMAIN line.ops |-> Value(line.ops[k], env)]
<1>1. PICK n, d : n = DataWidth(line.m) * Len(line.ops) /\ d = [k \in DOMAIN line.ops |-> Value(line.ops[k], env)]
  OBVIOUS
<1>2. DataValues(line, env) = [Emits(n) EXCEPT !.data = d]
      /\ \A k \in DOMAIN line.ops : HasValue(line.ops[k], env.values, env.global)
  BY <1>1 DEF DataValues
<1>3. [Emits(n) EXCEPT !.data = d].len = n /\ [Emits(n) EXCEPT !.data = d].data = d
  BY DEF Emits
<1> QED
  BY <1>1, <1>2, <1>3

\* An instruction: four bytes, its word.
LEMMA InstructionEmitted ==
  ASSUME NEW r, NEW pc, NEW env, r.m \notin Directives, AssembleParsed(r, pc, env) # Wrong
  PROVE  /\ AssembleParsed(r, pc, env).len = 4
         /\ AssembleInstruction(r, env) # NoWord
         /\ AssembleParsed(r, pc, env).word = AssembleInstruction(r, env)
<1>1. PICK w : w = AssembleInstruction(r, env)
  OBVIOUS
<1>2. w # NoWord /\ AssembleParsed(r, pc, env) = [Emits(4) EXCEPT !.word = w]
  BY <1>1 DEF AssembleParsed
<1>3. [Emits(4) EXCEPT !.word = w].len = 4 /\ [Emits(4) EXCEPT !.word = w].word = w
  BY DEF Emits
<1> QED
  BY <1>1, <1>2, <1>3

\* The bytes of a line are what it says.
Right(line, pc, env, bytes) ==
  /\ line.m \in DOMAIN Opcodes => ReadsLine(line, pc, env, bytes.word)
  /\ line.m \in IntegerData =>
       /\ \A k \in DOMAIN line.ops : HasValue(line.ops[k], env.values, env.global)
       /\ bytes.data = [k \in DOMAIN line.ops |-> Value(line.ops[k], env)]

\* What a line emits is what it says.
LEMMA RightBytes ==
  ASSUME NEW line \in Statement, Plain(line), NEW pc, NEW env, NEW bytes,
         bytes = AssembleParsed(ResolveControlLabel(line, pc, env), pc, env), bytes # Wrong
  PROVE  Right(line, pc, env, bytes)
<1>1. PICK r : r = ResolveControlLabel(line, pc, env)
  OBVIOUS
<1>2. r.m = line.m
  BY <1>1, ResolvedMnemonic
<1>3. ASSUME line.m \in DOMAIN Opcodes PROVE ReadsLine(line, pc, env, bytes.word)
  <2>1. r.m \notin Directives
    BY <1>2, <1>3, OpcodesAreApart, NotDirective
  <2>2. AssembleInstruction(r, env) # NoWord /\ bytes.word = AssembleInstruction(r, env)
    BY <1>1, <2>1, InstructionEmitted
  <2> QED
    BY <1>1, <2>2, ResolvedReads
<1>4. ASSUME line.m \in IntegerData
      PROVE  /\ \A k \in DOMAIN line.ops : HasValue(line.ops[k], env.values, env.global)
             /\ bytes.data = [k \in DOMAIN line.ops |-> Value(line.ops[k], env)]
  <2>1. r = line /\ line.m \notin {".equ", ".set"}
    BY <1>1, <1>4, Kinds, Unresolved
  <2>2. bytes = DataValues(line, env)
    BY <1>1, <1>4, <2>1, EmittedKind
  <2> QED
    BY <2>2, DataEmitted
<1> QED
  BY <1>3, <1>4 DEF Right

\* Both passes count the same.
LEMMA SizesAgree ==
  ASSUME NEW line \in Statement, Plain(line), NEW a, NEW b, SizeOf(line, a, b) # -1,
         NEW h, Extends(b.values, h), NEW env, env = Env(h, b.global), NEW bytes,
         bytes = AssembleParsed(ResolveControlLabel(line, a.pc, env), a.pc, env), bytes # Wrong,
         line.m \in FloatData => bytes.len = 4
  PROVE  bytes.len = SizeOf(line, a, b)
<1>1. PICK r, pc, x, m : r = ResolveControlLabel(line, a.pc, env) /\ pc = a.pc /\ x = Env(b.values, b.global) /\ m = line.m
  OBVIOUS
<1>2. SizeOf(line, a, b) = LineSize(line, pc, x)
  BY <1>1 DEF SizeOf, Plain
<1>3. m \notin {".equ", ".set"} /\ r.m = m
  BY <1>1, ResolvedMnemonic DEF Plain, Defines
<1>4. CASE m \in IntegerData
  <2>1. r = line
    BY <1>1, <1>4, Kinds, Unresolved
  <2>2. bytes = DataValues(line, env)
    BY <1>1, <1>3, <1>4, <2>1, EmittedKind
  <2>3. PICK size : size = DataWidth(m) * Len(line.ops)
    OBVIOUS
  <2>4. LineSize(line, pc, x) = size
    BY <1>1, <1>4, <2>3, SizeKind
  <2>5. DataValues(line, env).len = DataWidth(line.m) * Len(line.ops)
    BY <2>2, DataEmitted
  <2>6. bytes.len = size
    BY <1>1, <2>2, <2>3, <2>5
  <2> QED
    BY <1>2, <2>4, <2>6
<1>5. CASE m \in TextData
  <2>1. r = line
    BY <1>1, <1>5, Kinds, Unresolved
  <2>2. bytes = TextValues(line)
    BY <1>1, <1>3, <1>5, <2>1, EmittedKind
  <2> QED
    BY <1>1, <1>2, <1>5, <2>2, SizeKind
<1>6. CASE m \in Alignments
  <2>1. r = line
    BY <1>1, <1>6, Kinds, Unresolved
  <2>2. bytes = Padding(line, pc, env)
    BY <1>1, <1>3, <1>6, <2>1, EmittedKind
  <2>3. Padding(line, pc, x).len # -1
    BY <1>1, <1>2, <1>6, SizeKind
  <2>4. Padding(line, pc, env) = Padding(line, pc, x)
    BY <1>1, <2>3, PaddingAgrees
  <2> QED
    BY <1>1, <1>2, <1>6, <2>2, <2>4, SizeKind
<1>7. CASE m \notin IntegerData /\ m \notin TextData /\ m \notin Alignments
  <2>1. LineSize(line, pc, x) = 4
    BY <1>1, <1>7, SizeKind
  <2>2. m \notin FloatData => bytes.len = 4
    <3>1. m \notin FloatData => r.m \notin Directives
      BY <1>3, <1>7, NotDirective
    <3> QED
      BY <1>1, <3>1, InstructionEmitted
  <2> QED
    BY <1>1, <1>2, <2>1, <2>2
<1> QED
  BY <1>4, <1>5, <1>6, <1>7

-----------------------------------------------------------------------------
(* The source is well typed all along.                                     *)

LEMMA SourceStepTypes == ASSUME SourceTypes, SourceNext PROVE SourceTypes'
<1>1. CASE Expanded
  <2>1. include' = [open |-> <<>>, read |-> 0, files |-> 0, bytes |-> 0]
        /\ macros' = [known |-> Nothing, active |-> NoMacro, skipped |-> 0] /\ UNCHANGED <<pending, lines>>
    BY <1>1 DEF Expanded, Clear
  <2>2. MacrosFit(macros') /\ OpenFit(include')
    BY <2>1, NothingFits
  <2>3. MacrosFit(macros)' = MacrosFit(macros') /\ OpenFit(include)' = OpenFit(include')
    BY DEF MacrosFit, OpenFit
  <2> QED
    BY <2>1, <2>2, <2>3 DEF SourceTypes
<1> QED
  BY <1>1, StartTypes, ReadTypes, EndTypes, ExpandTypes DEF SourceNext

\* Whatever is read, the expanded program is a sequence of statements: no
\* .macro and no list of parameters gets into it, arguments that replace
\* parameters are operands, and the open files are ones that exist.
THEOREM SourceIsTyped == Spec => []SourceTypes
<1>1. Init => SourceTypes
  <2> SUFFICES ASSUME Init PROVE SourceTypes
    OBVIOUS
  <2>1. include = [open |-> <<>>, read |-> 0, files |-> 0, bytes |-> 0]
        /\ macros = [known |-> Nothing, active |-> NoMacro, skipped |-> 0] /\ pending = <<>> /\ lines = <<>>
    BY DEF Init, SourceInit
  <2>2. MacrosFit(macros) /\ OpenFit(include)
    BY <2>1, NothingFits
  <2> QED
    BY <2>1, <2>2 DEF SourceTypes
<1>2. SourceTypes /\ [Next]_vars => SourceTypes'
  <2> SUFFICES ASSUME SourceTypes, [Next]_vars PROVE SourceTypes'
    OBVIOUS
  <2>1. CASE SourceNext
    BY <2>1, SourceStepTypes
  <2>2. CASE Collect
    <3>1. Fail \/ SourceStays
      BY <2>2 DEF Collect, FailAll
    <3> QED
      BY <3>1, FailTypes, StayTypes DEF SourceStays, sourceVars
  <2>3. CASE Collected \/ Finish
    BY <2>3, StayTypes DEF Collected, Finish
  <2>4. CASE Emit
    <3>1. Fail \/ SourceStays
      BY <2>4 DEF Emit, EmitSection, EmitSet, EmitBytes, List, FailAll
    <3> QED
      BY <3>1, FailTypes, StayTypes DEF SourceStays, sourceVars
  <2>5. CASE UNCHANGED vars
    BY <2>5, StayTypes DEF vars, sourceVars
  <2> QED
    BY <2>1, <2>2, <2>3, <2>4, <2>5 DEF Next
<1> QED
  BY <1>1, <1>2, PTL DEF Spec

\* The records are about the program, which no longer changes.
LEMMA SamePass ==
  ASSUME lines' = lines, NEW t, NEW n PROVE FirstPass(t, n)' = FirstPass(t, n)
BY DEF FirstPass, GlobalOf

-----------------------------------------------------------------------------
(* The two passes against the records of the first.                        *)

\* The first pass has come past m lines.
CollectsTo(t, m) ==
  /\ FirstPass(t, m)
  /\ cursor.index = m + 1 /\ cursor.pc = t[m].pc /\ cursor.global = t[m].global
  /\ table.symbols = t[m].symbols /\ table.values = t[m].values /\ table.equs = t[m].equs

\* No floating datum among the first m lines has other than four bytes.
Even(m, listing) == \A i \in 1 .. m : lines[i].m \in FloatData => listing[i].bytes.len = 4

\* The listing agrees with the first pass.
Placed(t, m, pc, listing) ==
  /\ pc = t[m].pc
  /\ \A i \in 1 .. m :
       /\ listing[i].address = t[i - 1].pc
       /\ Right(lines[i], t[i - 1].pc, Env(Second(t, Len(lines), i - 1), t[i].global), listing[i].bytes)

\* The second pass has come past m lines.
EmitsTo(t, m) ==
  /\ FirstPass(t, Len(lines))
  /\ cursor.index = m + 1 /\ cursor.global = t[m].global
  /\ table.symbols = t[Len(lines)].symbols /\ table.equs = t[Len(lines)].equs
  /\ image.values = Second(t, Len(lines), m)
  /\ (\E S : image.listing \in Seq(S)) /\ Len(image.listing) = m
  /\ Even(m, image.listing) => Placed(t, m, cursor.pc, image.listing)

Passes ==
  /\ stage \in {"new", "read", "expand"} => cursor = TopOfProgram /\ table = NoTable
  /\ stage = "collect" => \E t : \E m \in 0 .. Len(lines) : CollectsTo(t, m)
  /\ stage = "emit" => \E t : \E m \in 0 .. Len(lines) : EmitsTo(t, m)
  /\ stage = "done" => \E t : EmitsTo(t, Len(lines))

\* After an error there is nothing to say.
LEMMA FailPasses == ASSUME Fail PROVE Passes'
BY DEF Fail, Passes

\* The program is finite.
LEMMA LinesCounted == ASSUME SourceTypes PROVE Len(lines) \in Nat
<1>1. lines \in Seq(Statement)
  BY DEF SourceTypes
<1> QED
  BY ONLY <1>1

\* The first pass starts where the preprocessor has ended.
LEMMA SourcePasses ==
  ASSUME SourceTypes', Passes, SourceNext, UNCHANGED <<cursor, table, image>> PROVE Passes'
<1>1. CASE Expanded
  <2>1. cursor' = TopOfProgram /\ table' = NoTable /\ stage' = "collect"
    BY <1>1 DEF Expanded, Passes
  <2>2. PICK t : t = [i \in {0} |-> AtTop]
    OBVIOUS
  <2>3. t[0] = AtTop
    BY <2>2
  <2>4. FirstPass(t, 0)
    BY <2>3, NothingFound
  <2>5. FirstPass(t, 0)'
    BY <1>1, <2>4, SamePass DEF Expanded
  <2>6. /\ t[0].pc = 0 /\ t[0].global = "" /\ t[0].symbols = Nothing /\ t[0].values = Nothing /\ t[0].equs = Nothing
        /\ TopOfProgram.index = 1 /\ TopOfProgram.pc = 0 /\ TopOfProgram.global = ""
        /\ NoTable.symbols = Nothing /\ NoTable.values = Nothing /\ NoTable.equs = Nothing
    <3>1. /\ AtTop.pc = 0 /\ AtTop.global = "" /\ AtTop.symbols = Nothing
          /\ AtTop.values = Nothing /\ AtTop.equs = Nothing
      BY DEF AtTop, Found
    <3>2. TopOfProgram.index = 1 /\ TopOfProgram.pc = 0 /\ TopOfProgram.global = ""
      BY DEF TopOfProgram
    <3>3. NoTable.symbols = Nothing /\ NoTable.values = Nothing /\ NoTable.equs = Nothing
      BY DEF NoTable
    <3> QED
      BY <2>3, <3>1, <3>2, <3>3
  <2>7. CollectsTo(t, 0)'
    <3>1. 0 + 1 = 1
      OBVIOUS
    <3> QED
      BY <2>1, <2>5, <2>6, <3>1 DEF CollectsTo
  <2>8. 0 \in 0 .. Len(lines')
    <3>1. lines' \in Seq(Statement)
      BY DEF SourceTypes
    <3> QED
      BY ONLY <3>1
  <2> QED
    BY <2>1, <2>7, <2>8 DEF Passes
<1>2. CASE Fail
  BY <1>2, FailPasses
<1>3. CASE stage \in {"new", "read", "expand"} /\ stage' \in {"new", "read", "expand"}
  BY <1>3 DEF Passes
<1>4. ASSUME ~Expanded, ~Fail PROVE stage \in {"new", "read", "expand"} /\ stage' \in {"new", "read", "expand"}
  <2>1. CASE Start
    BY <1>4, <2>1 DEF Start
  <2>2. ASSUME NEW line, Take(line), stage = "read" PROVE stage' = "read"
    BY <1>4, <2>2
       DEF Take, Include, Preprocess, Skipping, InMacro, If, Else, EndIf, MacroHeader, Retain, Drop, Keep
  <2>3. CASE ReadMain \/ ReadIncluded
    BY <2>2, <2>3 DEF ReadMain, ReadIncluded
  <2>4. CASE EndOfFile
    BY <2>4 DEF EndOfFile
  <2>5. CASE EndOfSource
    BY <1>4, <2>5 DEF EndOfSource
  <2>6. CASE Expand
    BY <1>4, <2>6 DEF Expand
  <2> QED
    BY <1>4, <2>1, <2>3, <2>4, <2>5, <2>6 DEF SourceNext
<1> QED
  BY <1>1, <1>2, <1>3, <1>4

\* One line of the first pass.
LEMMA CollectPasses ==
  ASSUME SourceTypes, Passes, Collect PROVE Passes'
<1>1. CASE Fail
  BY <1>1, FailPasses
<1>2. CASE ~Fail
  <2>1. PICK t : \E m \in 0 .. Len(lines) : CollectsTo(t, m)
    BY DEF Passes, Collect
  <2>2. PICK m \in 0 .. Len(lines) : CollectsTo(t, m)
    BY <2>1
  <2>3. Len(lines) \in Nat /\ m \in Nat /\ m + 1 \in 0 .. Len(lines)
    <3>1. ~(cursor.index > Len(lines)) /\ cursor.index = m + 1 /\ Len(lines) \in Nat
      BY <2>2, LinesCounted DEF Collect, AtEnd, CollectsTo
    <3> QED
      BY <3>1
  <2>4. PICK line, a, global, keys : line = Current /\ a = t[m] /\ global = ScopeAfter(line.labels, cursor.global)
                                     /\ keys = LabelKeys(line.labels, cursor.global)
    OBVIOUS
  <2>5. PICK symbols, labelled : symbols = Labelled(table.symbols, keys, cursor.pc)
                                 /\ labelled = Labelled(table.values, keys, cursor.pc)
    OBVIOUS
  <2>6. PICK values, equs : values = Define(line, global, labelled, labelled)
                      /\ equs = IF line.m = ".equ" THEN Define(line, global, labelled, table.equs) ELSE table.equs
    OBVIOUS
  <2>7. PICK size : size = IF line.m = "none" THEN 0 ELSE LineSize(line, cursor.pc, Env(values, global))
    OBVIOUS
  <2>8. /\ ~LabelsFail(line.labels, cursor.global, table.values)
        /\ ~DefinitionFails(line, global, DOMAIN symbols, labelled, table.equs)
        /\ size # -1
        /\ table'.symbols = symbols /\ table'.values = values /\ table'.equs = equs
        /\ cursor'.index = cursor.index + 1 /\ cursor'.pc = cursor.pc + size /\ cursor'.global = global
        /\ SourceStays
    BY <1>2, <2>4, <2>5, <2>6, <2>7 DEF Collect, FailAll
  <2>9. PICK b : b = Found(cursor.pc + size, global, symbols, values, equs)
    OBVIOUS
  <2>10. /\ b.pc = cursor.pc + size /\ b.global = global /\ b.symbols = symbols
         /\ b.values = values /\ b.equs = equs
    BY <2>9 DEF Found
  <2>11. /\ a.pc = cursor.pc /\ a.global = cursor.global /\ a.symbols = table.symbols
         /\ a.values = table.values /\ a.equs = table.equs /\ line = lines[m + 1]
    BY <2>2, <2>4 DEF CollectsTo, Current
  <2>12. KeysOf(line, a) = keys /\ LabelledValues(line, a) = labelled /\ SizeOf(line, a, b) = size
    BY <2>4, <2>5, <2>7, <2>10, <2>11 DEF KeysOf, LabelledValues, SizeOf
  <2>13. FirstStep(line, a, b)
    BY <2>4, <2>5, <2>6, <2>8, <2>10, <2>11, <2>12 DEF FirstStep
  <2>14. PICK u : u = [i \in 0 .. m + 1 |-> IF i = m + 1 THEN b ELSE t[i]]
    OBVIOUS
  <2>15. FirstPass(u, m + 1) /\ u[m + 1] = b
    BY <2>2, <2>3, <2>4, <2>11, <2>13, <2>14, OneLineMore DEF CollectsTo
  <2>16. UNCHANGED <<stage, lines>>
    BY <2>8 DEF SourceStays, sourceVars
  <2>17. FirstPass(u, m + 1)'
    BY <2>15, <2>16, SamePass
  <2>18. cursor'.index = (m + 1) + 1
    BY <2>2, <2>8 DEF CollectsTo
  <2>19. CollectsTo(u, m + 1)'
    BY <2>8, <2>10, <2>15, <2>17, <2>18 DEF CollectsTo
  <2> QED
    BY <2>3, <2>16, <2>19 DEF Passes, Collect
<1> QED
  BY <1>1, <1>2

\* The second pass starts with the labels and the constants of the first.
LEMMA CollectedPasses == ASSUME SourceTypes, Passes, Collected PROVE Passes'
<1>1. PICK t : \E m \in 0 .. Len(lines) : CollectsTo(t, m)
  BY DEF Passes, Collected
<1>2. PICK m \in 0 .. Len(lines) : CollectsTo(t, m)
  BY <1>1
<1>3. PICK n : n = Len(lines)
  OBVIOUS
<1>4. n \in Nat /\ m = n
  <2>1. cursor.index > n /\ cursor.index = m + 1 /\ n \in Nat
    BY <1>2, <1>3, LinesCounted DEF Collected, AtEnd, CollectsTo
  <2> QED
    BY <1>3, <2>1
<1>5. FirstPass(t, n) /\ table.symbols = t[n].symbols /\ table.equs = t[n].equs
  BY <1>2, <1>4 DEF CollectsTo
<1>6. t[0].pc = 0 /\ t[0].global = "" /\ DOMAIN t[0].values = {}
  <2>1. AtTop.pc = 0 /\ AtTop.global = "" /\ AtTop.values = Nothing
    BY DEF AtTop, Found
  <2>2. DOMAIN Nothing = {}
    BY DEF Nothing
  <2> QED
    BY <1>5, <2>1, <2>2 DEF FirstPass
<1>7. PICK v : v = [k \in DOMAIN table.symbols \cup DOMAIN table.equs |->
                      IF k \in DOMAIN table.equs THEN table.equs[k] ELSE table.symbols[k]]
  OBVIOUS
<1>8. image'.values = v /\ image'.listing = <<>> /\ cursor' = TopOfProgram
      /\ stage' = "emit" /\ UNCHANGED <<lines, table>>
  BY <1>7 DEF Collected, NoImage
<1>9. v = Second(t, n, 0)
  <2>1. PICK s, e, w : s = t[n].symbols /\ e = t[n].equs /\ w = t[0].values
    OBVIOUS
  <2>2. v = [k \in DOMAIN s \cup DOMAIN e |-> IF k \in DOMAIN e THEN e[k] ELSE s[k]]
    BY <1>5, <1>7, <2>1
  <2>3. Second(t, n, 0) = [k \in DOMAIN s \cup DOMAIN e \cup DOMAIN w |->
                             IF k \in DOMAIN e THEN e[k] ELSE IF k \in DOMAIN s THEN s[k] ELSE w[k]]
    BY <2>1 DEF Second
  <2>4. DOMAIN w = {}
    BY <1>6, <2>1
  <2> QED
    BY ONLY <2>2, <2>3, <2>4
<1>10. FirstPass(t, n)'
  BY <1>5, <1>8, SamePass
<1>12. TopOfProgram.index = 0 + 1 /\ TopOfProgram.pc = 0 /\ TopOfProgram.global = ""
  BY DEF TopOfProgram
<1>13. Placed(t, 0, cursor.pc, image.listing)'
  <2>1. \A i \in 1 .. 0 : FALSE
    OBVIOUS
  <2>2. cursor'.pc = t[0].pc
    BY <1>6, <1>8, <1>12
  <2> QED
    BY <2>1, <2>2 DEF Placed
<1>14. (\E S : image'.listing \in Seq(S)) /\ Len(image'.listing) = 0
  <2>1. <<>> \in Seq({}) /\ Len(<<>>) = 0
    OBVIOUS
  <2> QED
    BY <1>8, <2>1
<1>15. EmitsTo(t, 0)'
  BY <1>3, <1>5, <1>6, <1>8, <1>9, <1>10, <1>12, <1>13, <1>14 DEF EmitsTo
<1>16. 0 \in 0 .. Len(lines')
  BY <1>3, <1>4, <1>8
<1> QED
  BY <1>8, <1>15, <1>16 DEF Passes

\* Where the passes agree before line m + 1, its bytes are right and they
\* agree after it.
GoesOn(t, n, m, line, global, pc, bytes) ==
  pc = t[m].pc /\ (line.m \in FloatData => bytes.len = 4) =>
    /\ Right(line, t[m].pc, Env(Second(t, n, m), global), bytes)
    /\ t[m + 1].pc = t[m].pc + bytes.len

\* A line is listed, and the records of the first pass go on with it.
LEMMA ListedPasses ==
  ASSUME SourceTypes, stage = "emit", NEW t, NEW n, n = Len(lines), NEW m \in 0 .. n - 1, EmitsTo(t, m),
         NEW line, line = lines[m + 1], NEW global, global = t[m + 1].global,
         NEW section, NEW sections, NEW values, NEW bytes, List(global, section, sections, values, bytes),
         values = Second(t, n, m + 1),
         GoesOn(t, n, m, line, global, cursor.pc, bytes)
  PROVE  Passes'
<1>1. PICK o, e, p : o = image.listing /\ e = Entry(sections[section].name, bytes) /\ p = cursor.pc
  OBVIOUS
<1>2. image'.listing = Append(o, e) /\ image'.values = values /\ cursor'.index = cursor.index + 1
      /\ cursor'.pc = p + bytes.len /\ cursor'.global = global /\ UNCHANGED <<stage, lines, table>>
  BY <1>1 DEF List, SourceStays, sourceVars
<1>3. e.address = p /\ e.bytes = bytes
  BY <1>1 DEF Entry
<1>4. n \in Nat /\ m \in Nat /\ m + 1 \in 0 .. n /\ (m + 1) - 1 = m
  <2>1. n \in Nat
    BY LinesCounted
  <2> QED
    BY <2>1
<1>5. (\E S : o \in Seq(S)) /\ Len(o) = m /\ cursor.index = m + 1
  BY <1>1 DEF EmitsTo
<1>6. PICK q : q = Append(o, e)
  OBVIOUS
<1>7. (\E S : q \in Seq(S)) /\ Len(q) = m + 1 /\ q[m + 1] = e /\ \A i \in 1 .. m : q[i] = o[i]
  <2>1. PICK S : o \in Seq(S)
    BY <1>5
  <2>2. PICK T : T = S \cup {e}
    OBVIOUS
  <2>3. o \in Seq(T)
    <3>1. o = [i \in 1 .. m |-> o[i]] /\ \A i \in 1 .. m : o[i] \in T
      BY ONLY <1>4, <1>5, <2>1, <2>2
    <3> QED
      BY ONLY <1>4, <3>1
  <2>4. q \in Seq(T)
    BY ONLY <1>6, <2>2, <2>3
  <2> QED
    BY ONLY <1>4, <1>5, <1>6, <2>1, <2>4
<1>8. ASSUME Even(m + 1, q) PROVE Placed(t, m + 1, p + bytes.len, q)
  <2>1. Even(m, o)
    BY <1>4, <1>7, <1>8 DEF Even
  <2>2. p = t[m].pc /\ \A i \in 1 .. m :
           /\ o[i].address = t[i - 1].pc
           /\ Right(lines[i], t[i - 1].pc, Env(Second(t, n, i - 1), t[i].global), o[i].bytes)
    BY <1>1, <2>1 DEF EmitsTo, Placed
  <2>3. line.m \in FloatData => bytes.len = 4
    BY <1>3, <1>4, <1>7, <1>8 DEF Even
  <2>4. /\ Right(line, t[m].pc, Env(Second(t, n, m), global), bytes)
        /\ t[m + 1].pc = p + bytes.len
    BY <1>1, <2>2, <2>3 DEF GoesOn
  <2>5. ASSUME NEW i \in 1 .. m + 1
        PROVE  /\ q[i].address = t[i - 1].pc
               /\ Right(lines[i], t[i - 1].pc, Env(Second(t, n, i - 1), t[i].global), q[i].bytes)
    <3>1. CASE i \in 1 .. m
      BY <1>7, <2>2, <3>1
    <3>2. CASE i = m + 1
      BY <1>3, <1>4, <1>7, <2>2, <2>4, <3>2
    <3> QED
      BY <1>4, <3>1, <3>2
  <2> QED
    BY <2>4, <2>5 DEF Placed
<1>9. (Even(m + 1, image.listing) => Placed(t, m + 1, cursor.pc, image.listing))'
  <2>1. Even(m + 1, image.listing)' = Even(m + 1, q)
    BY <1>2, <1>6 DEF Even
  <2>2. Placed(t, m + 1, cursor.pc, image.listing)' = Placed(t, m + 1, p + bytes.len, q)
    BY <1>2, <1>6 DEF Placed
  <2> QED
    BY <1>8, <2>1, <2>2
<1>10. FirstPass(t, n)'
  BY <1>2, SamePass DEF EmitsTo
<1>11. cursor'.index = (m + 1) + 1
  BY <1>2, <1>5
<1>12. EmitsTo(t, m + 1)'
  BY <1>2, <1>6, <1>7, <1>9, <1>10, <1>11 DEF EmitsTo
<1> QED
  BY <1>2, <1>4, <1>12 DEF Passes

\* One line of the second pass.
LEMMA EmitPasses == ASSUME SourceTypes, Passes, Emit PROVE Passes'
<1>1. CASE Fail
  BY <1>1, FailPasses
<1>2. CASE ~Fail
  <2>1. stage = "emit" /\ ~AtEnd
    BY DEF Emit
  <2>2. PICK t : \E m \in 0 .. Len(lines) : EmitsTo(t, m)
    BY <2>1 DEF Passes
  <2>3. PICK m \in 0 .. Len(lines) : EmitsTo(t, m)
    BY <2>2
  <2>4. PICK n : n = Len(lines)
    OBVIOUS
  <2>5. n \in Nat /\ m \in 0 .. n - 1 /\ m \in Nat /\ m + 1 \in 1 .. n /\ (m + 1) - 1 = m
    <3>1. n \in Nat /\ cursor.index = m + 1 /\ ~(cursor.index > n)
      BY <2>1, <2>3, <2>4, LinesCounted DEF EmitsTo, AtEnd
    <3> QED
      BY <2>4, <3>1
  <2>6. FirstPass(t, n) /\ image.values = Second(t, n, m) /\ cursor.index = m + 1 /\ cursor.global = t[m].global
    BY <2>3, <2>4 DEF EmitsTo
  <2>7. PICK line, a, b, global : line = lines[m + 1] /\ a = t[m] /\ b = t[m + 1] /\ global = b.global
    OBVIOUS
  <2>8. line \in Statement
    <3>1. lines \in Seq(Statement)
      BY DEF SourceTypes
    <3> QED
      BY ONLY <2>4, <2>5, <2>7, <3>1
  <2>9. Line3(t, n, m + 1, t[(m + 1) - 1], t[m + 1], t[n])
    BY <2>5, <2>6, LineOf
  <2>10. FirstStep(line, a, b)
    BY <2>5, <2>7, <2>9 DEF Line3
  <2>11. line = Current /\ global = ScopeAfter(line.labels, cursor.global)
    BY <2>6, <2>7, <2>10 DEF Current, FirstStep
  <2>12. b.pc = a.pc + SizeOf(line, a, b) /\ SizeOf(line, a, b) # -1
    BY <2>10 DEF FirstStep
  <2>13. ~Defines(line) => image.values = Second(t, n, m + 1)
    BY <2>5, <2>6, <2>7, NothingNew
  <2>14. ASSUME NEW section, NEW sections, NEW values, NEW bytes,
                List(global, section, sections, values, bytes),
                values = Second(t, n, m + 1),
                cursor.pc = a.pc /\ (line.m \in FloatData => bytes.len = 4) =>
                  /\ Right(line, a.pc, Env(Second(t, n, m), global), bytes)
                  /\ b.pc = a.pc + bytes.len
         PROVE  Passes'
    <3>1. global = t[m + 1].global /\ line = lines[m + 1] /\ n = Len(lines)
      BY <2>4, <2>7
    <3>2. cursor.pc = t[m].pc /\ (line.m \in FloatData => bytes.len = 4) =>
            /\ Right(line, t[m].pc, Env(Second(t, n, m), global), bytes)
            /\ t[m + 1].pc = t[m].pc + bytes.len
      BY <2>7, <2>14
    <3>3. GoesOn(t, n, m, line, global, cursor.pc, bytes)
      BY <3>2 DEF GoesOn
    <3> QED
      BY <2>1, <2>3, <2>5, <2>14, <3>1, <3>3, ListedPasses
  <2>15. ASSUME IsSection(line) \/ Defines(line) \/ line.m = "none"
         PROVE  /\ Right(line, a.pc, Env(Second(t, n, m), global), Emits(0))
                /\ b.pc = a.pc + Emits(0).len
    <3>1. line.m \notin DOMAIN Opcodes /\ line.m \notin IntegerData
      BY <2>15, OpcodesAreApart, Kinds DEF IsSection, Defines
    <3>2. SizeOf(line, a, b) = 0
      <4>1. \A pc, env : IsSection(line) \/ Defines(line) => LineSize(line, pc, env) = 0
        BY Kinds DEF LineSize, IsSection, Defines
      <4> QED
        BY <2>15, <4>1 DEF SizeOf
    <3>3. a.pc + SizeOf(line, a, b) = a.pc + Emits(0).len
      BY <3>2, LengthOf
    <3> QED
      BY <2>12, <3>1, <3>3 DEF Right
  <2>16. CASE IsSection(line)
    <3>1. ~Defines(line)
      BY <2>16 DEF IsSection, SectionDirectives, Defines
    <3>4. line.m \notin {"none", ".equ", ".set"}
      BY <2>16 DEF IsSection, SectionDirectives
    <3>2. EmitSection(line, global)
      BY <2>11, <2>16, <3>4 DEF Emit
    <3>3. PICK section, sections : List(global, section, sections, image.values, Emits(0))
      BY <1>2, <3>2 DEF EmitSection, FailAll
    <3> QED
      BY <2>13, <2>14, <2>15, <2>16, <3>1, <3>3
  <2>17. CASE ~IsSection(line) /\ line.m \in {"none", ".equ"}
    <3>1. PICK section, sections : List(global, section, sections, image.values, Emits(0))
      BY <2>11, <2>17 DEF Emit
    <3>2. image.values = Second(t, n, m + 1)
      <4>1. CASE line.m = "none"
        BY <2>13, <4>1 DEF Defines
      <4>2. CASE line.m = ".equ"
        <5>1. Defines(line)
          BY <4>2 DEF Defines
        <5> QED
          BY <2>5, <2>6, <2>7, <4>2, <5>1, SomethingNew
      <4> QED
        BY <2>17, <4>1, <4>2
    <3> QED
      BY <2>14, <2>15, <2>17, <3>1, <3>2 DEF Defines
  <2>18. CASE ~IsSection(line) /\ line.m = ".set"
    <3>1. EmitSet(line, global)
      BY <2>11, <2>18 DEF Emit
    <3>2. PICK section, sections :
            List(global, section, sections, Define(line, global, image.values, image.values), Emits(0))
      BY <1>2, <3>1 DEF EmitSet, FailAll
    <3>3. Defines(line)
      BY <2>18 DEF Defines
    <3>4. Define(line, global, image.values, image.values) = Second(t, n, m + 1)
      <4>1. PICK key, e : key = DefinedKey(line, global) /\ e = line.ops[2]
        OBVIOUS
      <4>2. Second(t, n, m + 1) = Put(Second(t, n, m), key, ValueOf(e, Second(t, n, m), global))
        BY <2>5, <2>6, <2>7, <2>18, <3>3, <4>1, SomethingNew
      <4> QED
        BY <2>6, <3>3, <4>1, <4>2 DEF Define
    <3> QED
      BY <2>14, <2>15, <3>2, <3>3, <3>4
  <2>19. CASE ~IsSection(line) /\ line.m \notin {"none", ".equ", ".set"}
    <3>1. EmitBytes(line, global) /\ Plain(line) /\ ~Defines(line)
      BY <2>11, <2>19 DEF Emit, Plain, Defines
    <3>2. PICK env, bytes : env = Env(image.values, global)
                   /\ bytes = AssembleParsed(ResolveControlLabel(line, cursor.pc, env), cursor.pc, env)
      OBVIOUS
    <3>3. bytes # Wrong /\ \E section, sections : List(global, section, sections, image.values, bytes)
      BY <1>2, <3>1, <3>2 DEF EmitBytes, FailAll
    <3>4. PICK section, sections : List(global, section, sections, image.values, bytes)
      BY <3>3
    <3>5. ASSUME cursor.pc = a.pc, line.m \in FloatData => bytes.len = 4
          PROVE  Right(line, a.pc, env, bytes) /\ b.pc = a.pc + bytes.len
      <4>1. Right(line, a.pc, env, bytes)
        BY <2>8, <3>1, <3>2, <3>3, <3>5, RightBytes
      <4>2. Extends(b.values, image.values)
        BY <2>5, <2>6, <2>7, <2>13, <3>1, SecondExtends
      <4>3. bytes.len = SizeOf(line, a, b)
        <5>1. PICK h : h = image.values
          OBVIOUS
        <5>2. /\ env = Env(h, b.global) /\ Extends(b.values, h)
              /\ bytes = AssembleParsed(ResolveControlLabel(line, a.pc, env), a.pc, env)
          BY <2>7, <3>2, <3>5, <4>2, <5>1
        <5> QED
          BY ONLY <2>8, <2>12, <3>1, <3>3, <3>5, <5>2, SizesAgree
      <4> QED
        BY <2>12, <4>1, <4>3
    <3> QED
      BY <2>6, <2>13, <2>14, <3>1, <3>2, <3>4, <3>5
  <2> QED
    BY <2>16, <2>17, <2>18, <2>19
<1> QED
  BY ONLY <1>1, <1>2

\* The end of the second pass.
LEMMA FinishPasses == ASSUME SourceTypes, Passes, Finish PROVE Passes'
<1>1. PICK t : \E m \in 0 .. Len(lines) : EmitsTo(t, m)
  BY DEF Passes, Finish
<1>2. PICK m \in 0 .. Len(lines) : EmitsTo(t, m)
  BY <1>1
<1>3. m = Len(lines)
  <2>1. cursor.index > Len(lines) /\ cursor.index = m + 1 /\ Len(lines) \in Nat
    BY <1>2, LinesCounted DEF Finish, AtEnd, EmitsTo
  <2> QED
    BY <2>1
<1>4. /\ image'.listing = image.listing /\ image'.values = image.values /\ stage' = "done"
      /\ UNCHANGED <<lines, cursor, table>>
  <2>1. PICK s : image' = [image EXCEPT !.sections = s]
    BY DEF Finish
  <2> QED
    BY <2>1 DEF Finish
<1>5. FirstPass(t, m)'
  BY <1>2, <1>3, <1>4, SamePass DEF EmitsTo
<1>6. EmitsTo(t, m)'
  <2>1. Even(m, image.listing)' = Even(m, image.listing)
    BY <1>4 DEF Even
  <2>2. Placed(t, m, cursor.pc, image.listing)' = Placed(t, m, cursor.pc, image.listing)
    BY <1>4 DEF Placed
  <2> QED
    BY <1>2, <1>3, <1>4, <1>5, <2>1, <2>2 DEF EmitsTo
<1> QED
  BY <1>3, <1>4, <1>6 DEF Passes
\* Induction on the naturals, for a set.
LEMMA SetInduction ==
  ASSUME NEW S, 0 \in S, \A n \in Nat : n \in S => n + 1 \in S
  PROVE  Nat \subseteq S
<1> SUFFICES ASSUME Nat \ S # {} PROVE FALSE
  OBVIOUS
<1> DEFINE T == Nat \ S
<1>1. \E x \in T : \A y \in T : ~(<<y, x>> \in OpToRel(<, Nat))
  <2>1. T \subseteq Nat /\ T # {}
    OBVIOUS
  <2> HIDE DEF T
  <2> QED
    BY <2>1, WFMin, NatLessThanWellFounded, Zenon
<1>2. PICK x \in T : \A y \in T : ~(<<y, x>> \in OpToRel(<, Nat))
  BY <1>1
<1>3. \A y \in T : ~(y < x)
  BY <1>2, Zenon DEF OpToRel
<1>4. x \in Nat /\ x # 0 /\ x \notin S
  OBVIOUS
<1>5. x - 1 \in Nat /\ x - 1 < x /\ (x - 1) + 1 = x
  BY <1>4
<1>6. x - 1 \in S
  BY <1>3, <1>5
<1> QED
  BY <1>4, <1>5, <1>6

-----------------------------------------------------------------------------
(* The two passes agree all along, and what follows at the end.            *)

\* While a line is assembled, the records of the first pass say where it is
\* and which symbols it sees; as long as no floating datum of other than four
\* bytes was emitted, each line of the listing is at the pc that the first
\* pass gave it and holds what it says with those symbols.
THEOREM PassesAgree == Spec => [](SourceTypes /\ Passes)
<1>1. Init => Passes
  BY DEF Init, SourceInit, Passes
<1>2. SourceTypes /\ SourceTypes' /\ Passes /\ [Next]_vars => Passes'
  <2> SUFFICES ASSUME SourceTypes, SourceTypes', Passes, [Next]_vars PROVE Passes'
    OBVIOUS
  <2>1. CASE UNCHANGED vars
    <3>1. UNCHANGED <<stage, lines, cursor, table, image>>
      BY <2>1 DEF vars, sourceVars
    <3>2. \A t, n : FirstPass(t, n)' = FirstPass(t, n)
      BY <3>1, SamePass
    <3>3. \A t, m : CollectsTo(t, m)' = CollectsTo(t, m)
      BY <3>1, <3>2 DEF CollectsTo
    <3>4. \A t, m : EmitsTo(t, m)' = EmitsTo(t, m)
      BY <3>1, <3>2 DEF EmitsTo, Even, Placed
    <3> QED
      BY <3>1, <3>3, <3>4 DEF Passes
  <2> QED
    BY <2>1, SourcePasses, CollectPasses, CollectedPasses, EmitPasses, FinishPasses DEF Next
<1> QED
  BY <1>1, <1>2, SourceIsTyped, PTL DEF Spec

\* A program that was assembled, with the records of the first pass.
Ended(t, n) ==
  /\ n \in Nat /\ n = Len(lines) /\ Program = 1 .. n
  /\ FirstPass(t, n)
  /\ table.symbols = t[n].symbols /\ table.equs = t[n].equs
  /\ \A i \in 1 .. n :
       /\ Address(i) = t[i - 1].pc
       /\ Right(lines[i], t[i - 1].pc, Env(Second(t, n, i - 1), t[i].global), image.listing[i].bytes)

\* At the end, without odd floats, the records speak for the whole listing.
LEMMA ProgramEnds ==
  ASSUME SourceTypes, Passes, stage = "done", OddFloats = {} PROVE \E t, n : Ended(t, n)
<1>1. PICK t : EmitsTo(t, Len(lines))
  BY DEF Passes
<1>2. PICK n : n = Len(lines)
  OBVIOUS
<1>3. n \in Nat /\ Program = 1 .. n
  <2>1. lines \in Seq(Statement)
    BY DEF SourceTypes
  <2> QED
    BY ONLY <1>2, <2>1 DEF Program
<1>4. Even(n, image.listing)
  BY <1>3 DEF OddFloats, Even
<1>5. Placed(t, n, cursor.pc, image.listing)
  BY <1>1, <1>2, <1>4 DEF EmitsTo
<1> QED
  BY <1>1, <1>2, <1>3, <1>5 DEF EmitsTo, Placed, Ended, Address

\* Each label is where its line was emitted.
LEMMA LabelIsAt ==
  ASSUME NEW t, NEW n, Ended(t, n), NEW key \in DOMAIN table.symbols
  PROVE  table.symbols[key] = At(key)
<1>1. n \in Nat /\ Program = 1 .. n /\ FirstPass(t, n) /\ table.symbols = t[n].symbols
      /\ \A i \in 1 .. n : Address(i) = t[i - 1].pc
  BY DEF Ended
<1>2. \A i \in 1 .. n : Line3(t, n, i, t[i - 1], t[i], t[n])
  BY <1>1, LineOf
<1>3. ASSUME NEW i \in 1 .. n PROVE i \in LabelLines(key) <=> key \in NewKeys(lines[i], t[i - 1])
  <2>1. PICK labels, a : labels = lines[i].labels /\ a = t[i - 1]
    OBVIOUS
  <2>2. a.global = GlobalOf(i - 1)
    BY <1>2, <2>1 DEF Line3
  <2>3. \A j : LabelScope(i, j) = ScopeAfter(SubSeq(labels, 1, j), a.global)
    BY <2>1, <2>2 DEF LabelScope, ScopeAfter
  <2>4. KeysOf(lines[i], a) = [j \in DOMAIN labels |-> Key(labels[j], LabelScope(i, j))]
    BY <2>1, <2>3 DEF KeysOf, LabelKeys
  <2>5. key \in NewKeys(lines[i], a) <=> \E j \in DOMAIN labels : key = Key(labels[j], LabelScope(i, j))
    BY <2>4 DEF NewKeys
  <2> QED
    BY <1>1, <2>1, <2>5 DEF LabelLines
<1>4. PICK j \in 1 .. n : key \in NewKeys(lines[j], t[j - 1])
  BY <1>1 DEF FirstPass
<1>5. PICK i : i = CHOOSE l \in LabelLines(key) : TRUE
  OBVIOUS
<1>6. i \in LabelLines(key)
  BY <1>3, <1>4, <1>5
<1>7. i \in 1 .. n
  BY <1>1, <1>6 DEF LabelLines
<1>8. t[n].symbols[key] = t[i - 1].pc
  BY <1>2, <1>3, <1>6, <1>7, NewLabelKept
<1> QED
  BY <1>1, <1>5, <1>7, <1>8 DEF At

\* The symbols after each line, from the records.
LEMMA KnownIs ==
  ASSUME NEW t, NEW n, Ended(t, n)
  PROVE  \A i \in 0 .. n : Known[i] = KnownAt(t, n, i)
<1>1. n \in Nat /\ Program = 1 .. n /\ FirstPass(t, n) /\ table.symbols = t[n].symbols
  BY DEF Ended
<1> DEFINE first == [k \in DOMAIN table.symbols |-> At(k)]
           D == {0} \cup Program
           Solves(f) == f = [i \in D |-> IF i = 0 THEN first ELSE Define(lines[i], GlobalOf(i), f[i - 1], f[i - 1])]
<1>2. Known = CHOOSE f : Solves(f)
  BY DEF Known
<1>3. D = 0 .. n
  BY <1>1
<1>4. KnownAt(t, n, 0) = first
  <2>1. t[0] = AtTop /\ AtTop.values = Nothing /\ DOMAIN Nothing = {}
    BY <1>1 DEF FirstPass, AtTop, Found, Nothing
  <2>2. PICK s, w : s = t[n].symbols /\ w = t[0].values
    OBVIOUS
  <2>3. DOMAIN w = {}
    BY <2>1, <2>2
  <2>4. KnownAt(t, n, 0) = [k \in DOMAIN s \cup DOMAIN w |-> IF k \in DOMAIN s THEN s[k] ELSE w[k]]
    BY <2>2 DEF KnownAt
  <2>5. first = [k \in DOMAIN s |-> s[k]]
    BY <1>1, <2>2, LabelIsAt
  <2> HIDE DEF first
  <2> QED
    BY ONLY <2>3, <2>4, <2>5
<1>5. ASSUME NEW i \in 1 .. n
      PROVE  KnownAt(t, n, i) = Define(lines[i], GlobalOf(i), KnownAt(t, n, i - 1), KnownAt(t, n, i - 1))
  <2>1. t[i].global = GlobalOf(i)
    BY <1>1, LineOf DEF Line3
  <2>2. CASE ~Defines(lines[i])
    BY <1>1, <2>2, NothingNew DEF Define
  <2>3. CASE Defines(lines[i])
    <3>1. PICK key, e, global : key = DefinedKey(lines[i], t[i].global) /\ e = lines[i].ops[2] /\ global = t[i].global
      OBVIOUS
    <3>2. KnownAt(t, n, i) = Put(KnownAt(t, n, i - 1), key, ValueOf(e, KnownAt(t, n, i - 1), global))
      BY <1>1, <2>3, <3>1, SomethingNew
    <3> QED
      BY <2>1, <2>3, <3>1, <3>2 DEF Define
  <2> QED
    BY <2>2, <2>3
<1> HIDE DEF first, D
<1>6. PICK g : g = [i \in D |-> KnownAt(t, n, i)]
  OBVIOUS
<1>7. Solves(g)
  <2>1. ASSUME NEW i \in D
        PROVE  KnownAt(t, n, i) = IF i = 0 THEN first ELSE Define(lines[i], GlobalOf(i), g[i - 1], g[i - 1])
    <3>1. CASE i = 0
      BY <1>4, <3>1
    <3>2. CASE i # 0
      <4>1. i \in 1 .. n /\ i - 1 \in D
        BY <1>1, <1>3, <3>2
      <4>2. g[i - 1] = KnownAt(t, n, i - 1)
        BY <1>6, <4>1
      <4> QED
        BY <1>5, <3>2, <4>1, <4>2
    <3> QED
      BY <3>1, <3>2
  <2> QED
    BY <1>6, <2>1
<1>8. PICK f : f = Known
  OBVIOUS
<1>9. Solves(f)
  BY <1>2, <1>7, <1>8
<1>10. f[0] = first /\ \A i \in 1 .. n : f[i] = Define(lines[i], GlobalOf(i), f[i - 1], f[i - 1])
  <2>1. 0 \in D /\ \A i \in 1 .. n : i \in D /\ i # 0
    BY <1>1, <1>3
  <2> QED
    BY <1>9, <2>1
<1> HIDE DEF Solves
<1> DEFINE S == {i \in Nat : i \in 0 .. n => f[i] = KnownAt(t, n, i)}
<1>11. 0 \in S
  BY <1>4, <1>10
<1>12. ASSUME NEW i \in Nat, i \in S PROVE i + 1 \in S
  <2>1. ASSUME i + 1 \in 0 .. n PROVE f[i + 1] = KnownAt(t, n, i + 1)
    <3>1. i \in 0 .. n /\ i + 1 \in 1 .. n /\ (i + 1) - 1 = i
      BY <1>1, <2>1
    <3>2. f[i] = KnownAt(t, n, i)
      BY <1>12, <3>1
    <3>3. f[i + 1] = Define(lines[i + 1], GlobalOf(i + 1), f[(i + 1) - 1], f[(i + 1) - 1])
      BY <1>10, <3>1
    <3>4. KnownAt(t, n, i + 1) = Define(lines[i + 1], GlobalOf(i + 1), KnownAt(t, n, (i + 1) - 1), KnownAt(t, n, (i + 1) - 1))
      BY <1>5, <3>1
    <3> QED
      BY <3>1, <3>2, <3>3, <3>4
  <2> QED
    BY <2>1
<1> HIDE DEF S
<1>13. Nat \subseteq S
  BY <1>11, <1>12, SetInduction
<1>14. ASSUME NEW i \in 0 .. n PROVE f[i] = KnownAt(t, n, i)
  <2>1. i \in S
    BY <1>1, <1>13
  <2> QED
    BY <2>1 DEF S
<1> QED
  BY <1>8, <1>14

\* The value that the second pass takes is what the operand means.
LEMMA MeaningIs ==
  ASSUME NEW t, NEW n, Ended(t, n), NEW i \in 1 .. n, ~Defines(lines[i]),
         NEW e, HasValue(e, Second(t, n, i - 1), t[i].global)
  PROVE  Meaning(e, i, Known) = Value(e, Env(Second(t, n, i - 1), t[i].global))
<1>1. n \in Nat /\ n = Len(lines) /\ FirstPass(t, n) /\ table.equs = t[n].equs
  BY DEF Ended
<1>2. PICK key, known, c, h, g : /\ key = Key(e.sym, t[i].global) /\ known = Known /\ c = t[n]
                                 /\ h = Second(t, n, i - 1) /\ g = KnownAt(t, n, i - 1)
  OBVIOUS
<1>3. t[i].global = GlobalOf(i) /\ Sound(c)
  BY <1>1, <1>2, LineOf DEF Line3
<1>4. Value(e, Env(Second(t, n, i - 1), t[i].global)) = IF e.sym = "" THEN e.plus ELSE e.plus + h[key]
  BY <1>2 DEF Value, Env, ValueOf
<1>5. Meaning(e, i, Known) =
        IF e.sym = "" THEN e.plus
        ELSE e.plus + (IF key \in DOMAIN c.equs THEN known[n][key] ELSE known[i][key])
  BY <1>1, <1>2, <1>3 DEF Meaning
<1>6. ASSUME e.sym # "" PROVE h[key] = IF key \in DOMAIN c.equs THEN known[n][key] ELSE known[i][key]
  <2>1. key \in DOMAIN h
    BY <1>2, <1>6 DEF HasValue
  <2>2. CASE key \in DOMAIN c.equs
    <3>1. h[key] = c.equs[key]
      BY <1>2, <2>1, <2>2 DEF Second
    <3>2. known[n] = KnownAt(t, n, n)
      BY <1>1, <1>2, KnownIs
    <3>3. key \notin DOMAIN c.symbols /\ key \in DOMAIN c.values /\ c.values[key] = c.equs[key]
      BY <1>3, <2>2 DEF Sound
    <3>4. KnownAt(t, n, n)[key] = c.values[key]
      BY <1>2, <3>3 DEF KnownAt
    <3> QED
      BY <2>2, <3>1, <3>2, <3>3, <3>4
  <2>3. CASE key \notin DOMAIN c.equs
    <3>1. known[i] = g
      BY <1>1, <1>2, KnownIs, NothingNew
    <3>2. h[key] = g[key]
      BY <1>2, <2>1, <2>3 DEF Second, KnownAt
    <3> QED
      BY <2>3, <3>1, <3>2
  <2> QED
    BY <2>2, <2>3
<1>7. PICK v : v = IF key \in DOMAIN c.equs THEN known[n][key] ELSE known[i][key]
  OBVIOUS
<1>8. e.sym # "" => h[key] = v
  BY <1>6, <1>7
<1>9. PICK p, x, y, a, b : /\ p = e.plus /\ x = Meaning(e, i, Known) /\ a = h[key] /\ b = (e.sym = "")
                           /\ y = Value(e, Env(Second(t, n, i - 1), t[i].global))
  OBVIOUS
<1>10. x = (IF b THEN p ELSE p + v) /\ y = (IF b THEN p ELSE p + a) /\ (~b => a = v)
  <2>1. x = IF e.sym = "" THEN p ELSE p + v
    BY <1>5, <1>7, <1>9
  <2>2. y = IF e.sym = "" THEN p ELSE p + a
    BY <1>4, <1>9
  <2> QED
    BY <1>8, <1>9, <2>1, <2>2
<1> QED
  BY <1>9, <1>10

\* The word of an instruction decodes to its line.
LEMMA LineDecodes ==
  ASSUME NEW t, NEW n, Ended(t, n), NEW i \in 1 .. n, lines[i].m \in DOMAIN Opcodes
  PROVE  DecodesToLine(i, Known)
<1>1. PICK line, pc, env, w, d : /\ line = lines[i] /\ pc = t[i - 1].pc /\ env = Env(Second(t, n, i - 1), t[i].global)
                                 /\ w = image.listing[i].bytes.word /\ d = Decode(w)
  OBVIOUS
<1>2. ReadsLine(line, pc, env, w) /\ Address(i) = pc
  BY <1>1 DEF Ended, Right
<1>3. d.m = line.m
  BY <1>1, <1>2 DEF ReadsLine
<1>4. ~Defines(line)
  BY <1>1, OpcodesAreApart DEF Defines
<1>5. env.values = Second(t, n, i - 1) /\ env.global = t[i].global
  BY <1>1 DEF Env
<1>6. \A o : HasValue(o, env.values, env.global) => Meaning(o, i, Known) = Value(o, env)
  BY <1>1, <1>4, <1>5, MeaningIs
<1>7. ASSUME line.m \in IntegerMnemonics \cup FloatMnemonics, NEW k \in DOMAIN Written(line), NEW o, o = line.ops[k],
             NEW field, field = Written(line)[k]
      PROVE  /\ field = "imm" => d.imm = Meaning(o, i, Known)
             /\ field = "imm(rs1)" => d.imm = Meaning(o, i, Known) /\ d.rs1 = o.base
             /\ field = "target" => d.imm = IF NamesTarget(line) THEN Meaning(o, i, Known) - Address(i) ELSE Meaning(o, i, Known)
             /\ field = "(rs1)" => d.rs1 = o.base
             /\ ~Valued(field) /\ field # "(rs1)" => d[field] = o.n
  <2>1. Says(d, line, field, o, pc, env)
    BY <1>1, <1>2, <1>3, <1>7 DEF ReadsLine
  <2>2. Valued(field) => Meaning(o, i, Known) = Value(o, env)
    BY <1>6, <2>1 DEF Says
  <2>3. /\ field = "imm" => d.imm = Value(o, env)
        /\ field = "imm(rs1)" => d.imm = Value(o, env) /\ d.rs1 = o.base
        /\ field = "target" => d.imm = IF NamesTarget(line) THEN Value(o, env) - pc ELSE Value(o, env)
        /\ field = "(rs1)" => d.rs1 = o.base
        /\ ~Valued(field) /\ field # "(rs1)" => d[field] = o.n
    BY <2>1 DEF Says, Valued
  <2> QED
    BY <1>2, <2>2, <2>3 DEF Valued
<1>8. ASSUME line.m \in IntegerMnemonics \cup FloatMnemonics, NEW k \in DOMAIN Written(line), NEW o, o = line.ops[k],
             NEW field, field = Written(line)[k]
      PROVE  CASE field = "imm"      -> d.imm = Meaning(o, i, Known)
               [] field = "imm(rs1)" -> d.imm = Meaning(o, i, Known) /\ d.rs1 = o.base
               [] field = "(rs1)"    -> d.rs1 = o.base
               [] field = "target"   -> d.imm = IF NamesTarget(line) THEN Meaning(o, i, Known) - Address(i) ELSE Meaning(o, i, Known)
               [] OTHER -> d[field] = o.n
  BY <1>7, <1>8 DEF Valued
<1>9. DecodesToLine(i, Known) <=>
        /\ d.m = line.m
        /\ d.m \in IntegerMnemonics \cup FloatMnemonics =>
             \A k \in DOMAIN Written(line) :
               CASE Written(line)[k] = "imm"      -> d.imm = Meaning(line.ops[k], i, Known)
                 [] Written(line)[k] = "imm(rs1)" -> d.imm = Meaning(line.ops[k], i, Known) /\ d.rs1 = line.ops[k].base
                 [] Written(line)[k] = "(rs1)"    -> d.rs1 = line.ops[k].base
                 [] Written(line)[k] = "target"   -> d.imm = IF NamesTarget(line) THEN Meaning(line.ops[k], i, Known) - Address(i)
                                                            ELSE Meaning(line.ops[k], i, Known)
                 [] OTHER -> d[Written(line)[k]] = line.ops[k].n
  BY <1>1 DEF DecodesToLine
<1> QED
  BY ONLY <1>3, <1>8, <1>9

\* The data of a line are its values.
LEMMA LineHolds ==
  ASSUME NEW t, NEW n, Ended(t, n), NEW i \in 1 .. n, lines[i].m \in IntegerData
  PROVE  HoldsItsValues(i, Known)
<1>1. PICK o, env, data : /\ o = lines[i].ops /\ env = Env(Second(t, n, i - 1), t[i].global)
                          /\ data = image.listing[i].bytes.data
  OBVIOUS
<1>2. /\ \A k \in DOMAIN o : HasValue(o[k], env.values, env.global)
      /\ data = [k \in DOMAIN o |-> Value(o[k], env)]
  BY <1>1 DEF Ended, Right
<1>3. ~Defines(lines[i])
  BY Kinds DEF Defines
<1>4. env.values = Second(t, n, i - 1) /\ env.global = t[i].global
  BY <1>1 DEF Env
<1>5. \A k \in DOMAIN o : Meaning(o[k], i, Known) = Value(o[k], env)
  BY <1>1, <1>2, <1>3, <1>4, MeaningIs
<1> QED
  BY <1>1, <1>2, <1>5 DEF HoldsItsValues

\* For every source, every set of include files and every limit: in a program
\* that was assembled and emits no floating datum of other than four bytes,
\* the address of each label is where its line was emitted, every branch and
\* jump lands on the line it names, each number of the image is the one of the
\* source, and each instruction reads back as its line.
THEOREM LabelsReached == Spec => []LabelsAreReached
<1>1. SourceTypes /\ Passes => LabelsAreReached
  <2> SUFFICES ASSUME SourceTypes, Passes, stage = "done", OddFloats = {}
               PROVE  /\ \A k \in DOMAIN table.symbols : table.symbols[k] = At(k)
                      /\ \A i \in Program : lines[i].m \in DOMAIN Opcodes => DecodesToLine(i, Known)
                      /\ \A i \in Program : lines[i].m \in IntegerData => HoldsItsValues(i, Known)
    BY Zenon DEF LabelsAreReached
  <2>1. PICK t, n : Ended(t, n)
    BY ProgramEnds
  <2>2. Program = 1 .. n
    BY <2>1 DEF Ended
  <2> QED
    BY <2>1, <2>2, LabelIsAt, LineDecodes, LineHolds
<1> QED
  BY <1>1, PassesAgree, PTL
=============================================================================
