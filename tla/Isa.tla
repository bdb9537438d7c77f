---------------------------------- MODULE Isa ----------------------------------
(***************************************************************************)
(* Encoding and decoding of RV64 instructions (crates/isa).  A word is cut *)
(* at the boundaries all formats share, so that each slice is a small      *)
(* number: f7 = bits 31..25, rs2 = 24..20, rs1 = 19..15, f3 = 14..12,      *)
(* rd = 11..7 and op = 6..0.  What the code ORs into the word are disjoint *)
(* groups of bits: here they are assignments to slices.                    *)
(***************************************************************************)
EXTENDS Integers, Sequences

NoWord == [op |-> -1]
Slices(f7, rs2, rs1, f3, rd, op) ==
  [f7 |-> f7, rs2 |-> rs2, rs1 |-> rs1, f3 |-> f3, rd |-> rd, op |-> op]

\* Bits hi..lo of a number in two's complement (\div rounds down).
Bits(v, hi, lo) == (v \div 2^lo) % 2^(hi - lo + 1)
Signed(v, width) == IF v >= 2^(width - 1) THEN v - 2^width ELSE v
Registers(i) == {i[f] : f \in {"rd", "rs1", "rs2"} \cap DOMAIN i}
RegistersFit(i) == \A r \in Registers(i) : r \in 0 .. 31

-----------------------------------------------------------------------------
(* Part of the generated table of opcodes: the fixed bits of a mnemonic,   *)
(* the slices they occupy, and the fields of its row in their order.       *)

Fixed(form) ==
  CASE form = "r" -> {"f7", "f3", "op"}
    [] form \in {"addi", "load", "store", "branch", "jalr"} -> {"f3", "op"}
    [] form \in {"u", "jal", "r4"} -> {"op"}
    [] form = "fr" -> {"f7", "op"}
    [] form = "convert" -> {"f7", "rs2", "op"}
    [] form = "move" -> {"f7", "rs2", "f3", "op"}
    [] form = "float compare" -> {"f7", "f3", "op"}
    [] form \in {"float load", "float store"} -> {"f3", "op"}

Row(form, f7, rs2, f3, op) ==
  [form |-> form, match |-> Slices(f7, rs2, 0, f3, 0, op)]

\* The conversions to and from integers: f7 names the format and the
\* direction, rs2 the integer.
ToInteger == {"fcvt.w.s", "fcvt.wu.s", "fcvt.l.s", "fcvt.lu.s", "fcvt.w.d", "fcvt.wu.d", "fcvt.l.d", "fcvt.lu.d"}
FromInteger == {"fcvt.s.w", "fcvt.s.wu", "fcvt.s.l", "fcvt.s.lu", "fcvt.d.w", "fcvt.d.wu", "fcvt.d.l", "fcvt.d.lu"}
Convert(f7, rs2) == Row("convert", f7, rs2, 0, 83)

Conversion(m) ==
  CASE m = "fcvt.w.s" -> Convert(96, 0)  [] m = "fcvt.wu.s" -> Convert(96, 1)
    [] m = "fcvt.l.s" -> Convert(96, 2)  [] m = "fcvt.lu.s" -> Convert(96, 3)
    [] m = "fcvt.w.d" -> Convert(97, 0)  [] m = "fcvt.wu.d" -> Convert(97, 1)
    [] m = "fcvt.l.d" -> Convert(97, 2)  [] m = "fcvt.lu.d" -> Convert(97, 3)
    [] m = "fcvt.s.w" -> Convert(104, 0) [] m = "fcvt.s.wu" -> Convert(104, 1)
    [] m = "fcvt.s.l" -> Convert(104, 2) [] m = "fcvt.s.lu" -> Convert(104, 3)
    [] m = "fcvt.d.w" -> Convert(105, 0) [] m = "fcvt.d.wu" -> Convert(105, 1)
    [] m = "fcvt.d.l" -> Convert(105, 2) [] m = "fcvt.d.lu" -> Convert(105, 3)
    [] m = "fcvt.s.d" -> Convert(32, 1)  [] m = "fcvt.d.s"  -> Convert(33, 0)

Integers64 == {"addi", "add", "sub", "mul", "lui", "auipc", "lw", "ld", "sw", "sd", "beq", "bne", "jal", "jalr"}
Floats == {"fadd.s", "fadd.d", "fmul.s", "fmadd.s", "feq.s", "flw", "fsw", "fmv.x.w", "fmv.w.x", "fmv.x.d", "fmv.d.x"}
Conversions == ToInteger \cup FromInteger \cup {"fcvt.s.d", "fcvt.d.s"}

Integer64(m) ==
  CASE m = "addi"  -> Row("addi", 0, 0, 0, 19)
    [] m = "add"   -> Row("r", 0, 0, 0, 51)       [] m = "sub"   -> Row("r", 32, 0, 0, 51)
    [] m = "mul"   -> Row("r", 1, 0, 0, 51)
    [] m = "lui"   -> Row("u", 0, 0, 0, 55)       [] m = "auipc" -> Row("u", 0, 0, 0, 23)
    [] m = "lw"    -> Row("load", 0, 0, 2, 3)     [] m = "ld"    -> Row("load", 0, 0, 3, 3)
    [] m = "sw"    -> Row("store", 0, 0, 2, 35)   [] m = "sd"    -> Row("store", 0, 0, 3, 35)
    [] m = "beq"   -> Row("branch", 0, 0, 0, 99)  [] m = "bne"   -> Row("branch", 0, 0, 1, 99)
    [] m = "jal"   -> Row("jal", 0, 0, 0, 111)    [] m = "jalr"  -> Row("jalr", 0, 0, 0, 103)

Float(m) ==
  CASE m = "fadd.s"  -> Row("fr", 0, 0, 0, 83)         [] m = "fadd.d"  -> Row("fr", 1, 0, 0, 83)
    [] m = "fmul.s"  -> Row("fr", 8, 0, 0, 83)         [] m = "fmadd.s" -> Row("r4", 0, 0, 0, 67)
    [] m = "feq.s"   -> Row("float compare", 80, 0, 2, 83)
    [] m = "flw"     -> Row("float load", 0, 0, 2, 7)  [] m = "fsw"     -> Row("float store", 0, 0, 2, 39)
    [] m = "fmv.x.w" -> Row("move", 112, 0, 0, 83)     [] m = "fmv.w.x" -> Row("move", 120, 0, 0, 83)
    [] m = "fmv.x.d" -> Row("move", 113, 0, 0, 83)     [] m = "fmv.d.x" -> Row("move", 121, 0, 0, 83)

Opcodes ==
  [m \in Integers64 \cup Floats \cup Conversions |->
     CASE m \in Integers64 -> Integer64(m) [] m \in Floats -> Float(m) [] m \in Conversions -> Conversion(m)]

FormFields(form) ==
  CASE form \in {"r", "float compare"} -> <<"rd", "rs1", "rs2">>
    [] form = "fr" -> <<"rd", "rs1", "rs2", "rm">>
    [] form = "convert" -> <<"rd", "rs1", "rm">>
    [] form = "move" -> <<"rd", "rs1">>
    [] form = "r4" -> <<"rd", "rs1", "rs2", "rs3", "rm">>
    [] form \in {"addi", "load", "jalr", "float load"} -> <<"rd", "rs1", "imm12">>
    [] form \in {"store", "float store"} -> <<"imm12hi", "rs1", "rs2", "imm12lo">>
    [] form = "branch" -> <<"bimm12hi", "rs1", "rs2", "bimm12lo">>
    [] form = "u" -> <<"rd", "imm20">>
    [] form = "jal" -> <<"rd", "jimm20">>

Form(m)   == Opcodes[m].form
Match(m)  == Opcodes[m].match
Fields(m) == FormFields(Form(m))

-----------------------------------------------------------------------------
(* Encoding.  Each refuses a register above 31 and an immediate that its   *)
(* field cannot hold.                                                      *)

EncodeRType(m, i) ==
  IF RegistersFit(i) THEN [Match(m) EXCEPT !.rs2 = i.rs2, !.rs1 = i.rs1, !.rd = i.rd] ELSE NoWord

EncodeFr(m, i) ==
  IF RegistersFit(i) /\ i.rm \in 0 .. 7
  THEN [Match(m) EXCEPT !.rs2 = i.rs2, !.rs1 = i.rs1, !.f3 = i.rm, !.rd = i.rd] ELSE NoWord

EncodeFConvert(m, i) ==
  IF RegistersFit(i) /\ i.rm \in 0 .. 7
  THEN [Match(m) EXCEPT !.rs1 = i.rs1, !.f3 = i.rm, !.rd = i.rd] ELSE NoWord

EncodeFMove(m, i) ==
  IF RegistersFit(i) THEN [Match(m) EXCEPT !.rs1 = i.rs1, !.rd = i.rd] ELSE NoWord

EncodeU(m, i) ==
  IF RegistersFit(i) /\ i.imm \in 0 .. 2^20 - 1
  THEN Slices(Bits(i.imm, 19, 13), Bits(i.imm, 12, 8), Bits(i.imm, 7, 3), Bits(i.imm, 2, 0), i.rd, Match(m).op)
  ELSE NoWord

\* The twelve high bits: addi, loads, jalr.
WithImm12(m, i) ==
  [Match(m) EXCEPT !.f7 = Bits(i.imm, 11, 5), !.rs2 = Bits(i.imm, 4, 0), !.rs1 = i.rs1, !.rd = i.rd]

Imm12Fits(i) == RegistersFit(i) /\ i.imm \in -(2^11) .. 2^11 - 1
EncodeAddi(i)    == IF Imm12Fits(i) THEN WithImm12("addi", i) ELSE NoWord
EncodeLoad(m, i) == IF Imm12Fits(i) THEN WithImm12(m, i) ELSE NoWord
EncodeJalr(i)    == IF Imm12Fits(i) THEN WithImm12("jalr", i) ELSE NoWord

EncodeStore(m, i) ==
  IF Imm12Fits(i)
  THEN [Match(m) EXCEPT !.f7 = Bits(i.imm, 11, 5), !.rs2 = i.rs2, !.rs1 = i.rs1, !.rd = Bits(i.imm, 4, 0)]
  ELSE NoWord

EncodeBranchBit11Kept(m, i) ==         \* bit 11 left where the slice has bit 0
  IF RegistersFit(i) /\ i.imm \in -(2^12) .. 2^12 - 2 /\ i.imm % 2 = 0
  THEN [Match(m) EXCEPT !.f7 = Bits(i.imm, 12, 12) * 64 + Bits(i.imm, 10, 5),
                        !.rs2 = i.rs2, !.rs1 = i.rs1, !.rd = Bits(i.imm, 4, 0)]
  ELSE NoWord

EncodeBranch(m, i) ==
  IF RegistersFit(i) /\ i.imm \in -(2^12) .. 2^12 - 2 /\ i.imm % 2 = 0
  THEN [Match(m) EXCEPT !.f7 = Bits(i.imm, 12, 12) * 64 + Bits(i.imm, 10, 5),
                        !.rs2 = i.rs2, !.rs1 = i.rs1,
                        !.rd = Bits(i.imm, 4, 1) * 2 + Bits(i.imm, 11, 11)]
  ELSE NoWord

EncodeJal(i) ==
  IF RegistersFit(i) /\ i.imm \in -(2^20) .. 2^20 - 2 /\ i.imm % 2 = 0
  THEN Slices(Bits(i.imm, 20, 20) * 64 + Bits(i.imm, 10, 5), Bits(i.imm, 4, 1) * 2 + Bits(i.imm, 11, 11),
              Bits(i.imm, 19, 15), Bits(i.imm, 14, 12), i.rd, Match("jal").op)
  ELSE NoWord

-----------------------------------------------------------------------------
(* Decoding *)

\* A fused operation has its format in bits 26..25, below rs3.
Matches(m, w) ==
  /\ \A s \in Fixed(Form(m)) : w[s] = Match(m)[s]
  /\ Form(m) = "r4" => w.f7 % 4 = Match(m).f7 % 4

StoreImm(w)  == Signed(w.f7 * 32 + w.rd, 12)
HighImm(w)   == Signed(w.f7 * 32 + w.rs2, 12)
BranchImm(w) == Signed((w.f7 \div 64) * 4096 + (w.f7 % 64) * 32 + (w.rd \div 2) * 2 + (w.rd % 2) * 2048, 13)
UpperImm(w)  == ((w.f7 * 32 + w.rs2) * 32 + w.rs1) * 8 + w.f3
JumpImm(w) ==
  Signed((w.f7 \div 64) * 2^20 + ((w.f7 % 64) * 16 + w.rs2 \div 2) * 2 + (w.rs2 % 2) * 2048
         + (w.rs1 * 8 + w.f3) * 4096, 21)

\* The instructions the machine executes, in the order decode tries them.
DecodeInteger(m, w) ==
  CASE m \in {"add", "sub"} -> [m |-> m, rd |-> w.rd, rs1 |-> w.rs1, rs2 |-> w.rs2]
    [] Form(m) = "u"        -> [m |-> m, rd |-> w.rd, imm |-> UpperImm(w)]
    [] Form(m) \in {"addi", "load", "jalr"} -> [m |-> m, rd |-> w.rd, rs1 |-> w.rs1, imm |-> HighImm(w)]
    [] Form(m) = "store"    -> [m |-> m, rs2 |-> w.rs2, rs1 |-> w.rs1, imm |-> StoreImm(w)]
    [] Form(m) = "branch"   -> [m |-> m, rs1 |-> w.rs1, rs2 |-> w.rs2, imm |-> BranchImm(w)]
    [] Form(m) = "jal"      -> [m |-> m, rd |-> w.rd, imm |-> JumpImm(w)]

DecodeFloat(m, w) ==
  CASE m \in {"fadd.s", "fadd.d"} -> [m |-> m, rd |-> w.rd, rs1 |-> w.rs1, rs2 |-> w.rs2, rm |-> w.f3]
    [] Form(m) = "convert" -> [m |-> m, rd |-> w.rd, rs1 |-> w.rs1, rm |-> w.f3]
    [] Form(m) = "move"    -> [m |-> m, rd |-> w.rd, rs1 |-> w.rs1]

IntegerMnemonics == {m \in DOMAIN Opcodes : m \in {"add", "sub"} \/ Form(m) \in {"addi", "load", "jalr", "u", "store", "branch", "jal"}}
FloatMnemonics == {m \in DOMAIN Opcodes : m \in {"fadd.s", "fadd.d"} \/ Form(m) \in {"convert", "move"}}

\* The rest of the table is decoded to its mnemonic and raw bits.
Decode(w) ==
  LET rows == {m \in DOMAIN Opcodes : Matches(m, w)} IN
  IF rows = {} THEN [m |-> "illegal", word |-> w]
  ELSE LET m == CHOOSE x \in rows : TRUE IN
       IF m \in IntegerMnemonics THEN DecodeInteger(m, w)
       ELSE IF m \in FloatMnemonics THEN DecodeFloat(m, w)
       ELSE [m |-> m, word |-> w]

\* encode: raw bits are emitted again if they match their row.
Encode(i) ==
  LET f == Form(i.m) IN
  CASE i.m \in {"add", "sub"} -> EncodeRType(i.m, i)
    [] f = "u"       -> EncodeU(i.m, i)
    [] f = "addi"    -> EncodeAddi(i)
    [] f = "load"    -> EncodeLoad(i.m, i)
    [] f = "store"   -> EncodeStore(i.m, i)
    [] f = "branch"  -> EncodeBranch(i.m, i)
    [] f = "jal"     -> EncodeJal(i)
    [] f = "jalr"    -> EncodeJalr(i)
    [] f = "convert" -> EncodeFConvert(i.m, i)
    [] f = "move"    -> EncodeFMove(i.m, i)
    [] i.m \in {"fadd.s", "fadd.d"} -> EncodeFr(i.m, i)
    [] OTHER -> IF Matches(i.m, i.word) THEN i.word ELSE NoWord
=============================================================================
