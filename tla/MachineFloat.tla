----------------------------- MODULE MachineFloat -----------------------------
(***************************************************************************)
(* The floating-point instructions of the host machine (crates/machine):   *)
(* FADD, FCVT and FMV in binary32 and binary64, their rounding modes and   *)
(* the flags they add to fcsr.  The code computes with whole numbers only  *)
(* (class BigUint) and picks the result's bits itself; so does this        *)
(* module, bit for bit, in formats whose widths are constants.  A word is  *)
(* a natural number: sign, exponent field, fraction, as in the code.       *)
(* BigUint is a natural number here.                                       *)
(*                                                                         *)
(* `last` is the instruction of the StepResult that Machine::step returns. *)
(***************************************************************************)
EXTENDS Integers, FiniteSets

CONSTANTS
    Single, Double,    \* a format: [exp |-> exponent bits, frac |-> fraction bits]
    Loads,             \* what the registers hold when a program starts: [f, x]
    Fcsrs,             \* what fcsr holds then: [frm, fflags]
    MaxInstructions    \* bound: instructions a run retires

FormatsAssumption == /\ Single.frac >= 2 /\ Double.frac >= Single.frac + 2
                     /\ Single.exp >= 2 /\ Double.exp >= Single.exp

ASSUME FormatsAssumption

Width(F) == 1 + F.exp + F.frac
WBits    == Width(Single)             \* 32 in the code
XBits    == Width(Double)             \* 64 in the code

VARIABLES f, x, frm, fflags, instructions, last

vars == <<f, x, frm, fflags, instructions, last>>

-----------------------------------------------------------------------------
\* Rounding modes
RNE == 0
RTZ == 1
RDN == 2
RUP == 3
RMM == 4

IsValidRoundingMode(rm) == rm <= RMM

\* The fields of a format
Precision(F)    == F.frac + 1
Bias(F)         == 2 ^ (F.exp - 1) - 1
SignMask(F)     == 2 ^ (F.frac + F.exp)
ExponentMask(F) == (2 ^ F.exp - 1) * 2 ^ F.frac
CanonicalNan(F) == ExponentMask(F) + 2 ^ (F.frac - 1)

Negative(v, F) == v >= SignMask(F)
Field(v, F)    == (v % SignMask(F)) \div 2 ^ F.frac
Fraction(v, F) == v % 2 ^ F.frac
SignBit(negative, F) == IF negative THEN SignMask(F) ELSE 0

IsNan(v, F)          == v % SignMask(F) > ExponentMask(F)
IsSignalingNan(v, F) == IsNan(v, F) /\ Fraction(v, F) < 2 ^ (F.frac - 1)
IsInfinite(v, F)     == v % SignMask(F) = ExponentMask(F)

\* finite_components: value = significand * 2 ^ exponent.
Significand(v, F) == IF Field(v, F) = 0 THEN Fraction(v, F) ELSE 2 ^ F.frac + Fraction(v, F)
Exponent(v, F)    == (IF Field(v, F) = 0 THEN 1 ELSE Field(v, F)) - Bias(F) - F.frac

BitLen(n) == IF n = 0 THEN 0 ELSE CHOOSE k \in 1 .. 31 : 2 ^ (k - 1) <= n /\ n \div 2 ^ (k - 1) = 1

-----------------------------------------------------------------------------
(* A number without its low `shift` bits, rounded by what they held.       *)
Increments(significand, rest, unit, negative, rm) ==
    CASE rm = RNE -> 2 * rest > unit \/ (2 * rest = unit /\ significand % 2 = 1)
      [] rm = RDN -> negative
      [] rm = RUP -> ~negative
      [] rm = RMM -> 2 * rest >= unit
      [] OTHER    -> FALSE

RoundBig(n, shift, negative, rm) ==
    LET kept == n \div 2 ^ shift
        rest == n % 2 ^ shift
    IN  [value   |-> IF rest # 0 /\ Increments(kept, rest, 2 ^ shift, negative, rm)
                     THEN kept + 1 ELSE kept,
         inexact |-> rest # 0]

\* Both branches of round_binary: to the right the bits are rounded away, to
\* the left there is nothing to lose.
Shifted(n, shift, negative, rm) ==
    IF shift > 0 THEN RoundBig(n, shift, negative, rm)
                 ELSE [value |-> n * 2 ^ (0 - shift), inexact |-> FALSE]

Answer(word, flags) == [word |-> word, flags |-> flags]
Inexact(r)          == IF r.inexact THEN {"NX"} ELSE {}

OverflowResult(negative, F, rm) ==
    LET infinity == CASE rm = RTZ -> FALSE [] rm = RDN -> negative
                      [] rm = RUP -> ~negative [] OTHER -> TRUE
    IN  Answer(SignBit(negative, F) + ExponentMask(F) - (IF infinity THEN 0 ELSE 1), {"OF", "NX"})

\* Mutant of RoundNormal: the carry into the next exponent comes after the
\* check for overflow.
RoundNormalCarryUnchecked(n, exponent, negative, F, rm) ==
    LET r     == Shifted(n, BitLen(n) - Precision(F), negative, rm)
        carry == r.value = 2 ^ Precision(F)
        top   == exponent + BitLen(n) - 1
    IN  Answer(SignBit(negative, F)
                   + (top + Bias(F) + (IF carry THEN 1 ELSE 0)) * 2 ^ F.frac
                   + (IF carry THEN 0 ELSE r.value % 2 ^ F.frac), Inexact(r))

RoundNormal(n, exponent, negative, F, rm) ==
    LET r     == Shifted(n, BitLen(n) - Precision(F), negative, rm)
        carry == r.value = 2 ^ Precision(F)
        top   == exponent + BitLen(n) - 1 + (IF carry THEN 1 ELSE 0)
    IN  IF top > Bias(F) THEN OverflowResult(negative, F, rm)
        ELSE Answer(SignBit(negative, F) + (top + Bias(F)) * 2 ^ F.frac
                        + (IF carry THEN 0 ELSE r.value % 2 ^ F.frac), Inexact(r))

\* A significand that rounds up to the smallest normal number is returned
\* without the underflow flag.
RoundSubnormal(n, exponent, negative, F, rm) ==
    LET r == Shifted(n, (1 - Bias(F)) - F.frac - exponent, negative, rm)
    IN  IF r.value >= 2 ^ F.frac
        THEN Answer(SignBit(negative, F) + 2 ^ F.frac, Inexact(r))
        ELSE Answer(SignBit(negative, F) + r.value, IF r.inexact THEN {"UF", "NX"} ELSE {})

RoundBinary(n, exponent, negative, F, rm) ==
    LET top == exponent + BitLen(n) - 1
    IN  IF n = 0 THEN Answer(SignBit(negative, F), {})
        ELSE IF top > Bias(F) THEN OverflowResult(negative, F, rm)
        ELSE IF top >= 1 - Bias(F) THEN RoundNormal(n, exponent, negative, F, rm)
        ELSE RoundSubnormal(n, exponent, negative, F, rm)

-----------------------------------------------------------------------------
\* add_binary on two finite operands: both over the smaller exponent.
AddFinite(l, r, F, rm) ==
    LET common == IF Exponent(l, F) < Exponent(r, F) THEN Exponent(l, F) ELSE Exponent(r, F)
        a == Significand(l, F) * 2 ^ (Exponent(l, F) - common)
        b == Significand(r, F) * 2 ^ (Exponent(r, F) - common)
    IN  IF Negative(l, F) = Negative(r, F)
        THEN RoundBinary(a + b, common, Negative(l, F), F, rm)
        ELSE IF a > b THEN RoundBinary(a - b, common, Negative(l, F), F, rm)
        ELSE IF a < b THEN RoundBinary(b - a, common, Negative(r, F), F, rm)
        ELSE RoundBinary(0, common, rm = RDN, F, rm)

AddBinary(l, r, F, rm) ==
    CASE IsSignalingNan(l, F) \/ IsSignalingNan(r, F) -> Answer(CanonicalNan(F), {"NV"})
      [] ~(IsSignalingNan(l, F) \/ IsSignalingNan(r, F)) /\ (IsNan(l, F) \/ IsNan(r, F))
            -> Answer(CanonicalNan(F), {})
      [] ~(IsNan(l, F) \/ IsNan(r, F)) /\ (IsInfinite(l, F) \/ IsInfinite(r, F))
            -> IF IsInfinite(l, F) /\ IsInfinite(r, F) /\ l # r THEN Answer(CanonicalNan(F), {"NV"})
               ELSE Answer(IF IsInfinite(l, F) THEN l ELSE r, {})
      [] OTHER -> AddFinite(l, r, F, rm)

ConvertBinary(v, from, to, rm) ==
    IF IsNan(v, from)
    THEN Answer(CanonicalNan(to), IF IsSignalingNan(v, from) THEN {"NV"} ELSE {})
    ELSE IF IsInfinite(v, from)
    THEN Answer(SignBit(Negative(v, from), to) + ExponentMask(to), {})
    ELSE RoundBinary(Significand(v, from), Exponent(v, from), Negative(v, from), to, rm)

ConvertIntegerToBinary(negative, magnitude, to, rm) ==
    RoundBinary(magnitude, 0, negative /\ magnitude # 0, to, rm)

\* An integer of `bits` bits in a register: sign-extended, unsigned ones too.
SignExtend(n, bits) == IF n >= 2 ^ (bits - 1) THEN n + 2 ^ XBits - 2 ^ bits ELSE n

InvalidIntegerResult(signed, negative, bits) ==
    SignExtend(CASE signed /\ negative  -> 2 ^ (bits - 1)
                 [] signed /\ ~negative -> 2 ^ (bits - 1) - 1
                 [] ~signed /\ negative -> 0
                 [] OTHER               -> 2 ^ bits - 1, bits)

\* Mutant of OutOfRange: any negative number is beyond the unsigned range,
\* also one that rounds to zero.
OutOfRangeBySign(magnitude, negative, signed, bits) ==
    IF signed THEN magnitude > (IF negative THEN 2 ^ (bits - 1) ELSE 2 ^ (bits - 1) - 1)
              ELSE negative \/ magnitude > 2 ^ bits - 1

OutOfRange(magnitude, negative, signed, bits) ==
    IF signed THEN magnitude > (IF negative THEN 2 ^ (bits - 1) ELSE 2 ^ (bits - 1) - 1)
              ELSE (negative /\ magnitude # 0) \/ magnitude > 2 ^ bits - 1

ConvertBinaryToInteger(v, from, signed, bits, rm) ==
    LET r == Shifted(Significand(v, from), 0 - Exponent(v, from), Negative(v, from), rm)
    IN  IF \/ IsNan(v, from) \/ IsInfinite(v, from)
           \/ OutOfRange(r.value, Negative(v, from), signed, bits)
        THEN Answer(InvalidIntegerResult(signed, Negative(v, from), bits), {"NV"})
        ELSE Answer(SignExtend(IF signed /\ Negative(v, from) THEN (2 ^ bits - r.value) % 2 ^ bits
                                                              ELSE r.value, bits),
                    Inexact(r))

-----------------------------------------------------------------------------
(* The instructions.  A binary32 value lives in the low half of a register *)
(* whose high half is all ones; any other register reads as NaN.           *)
Boxes      == 2 ^ (XBits - WBits) - 1
Box(s)     == Boxes * 2 ^ WBits + s
BoxedF32(w) == IF w \div 2 ^ WBits = Boxes THEN w % 2 ^ WBits ELSE CanonicalNan(Single)

Format(k) == IF k = "S" THEN Single ELSE Double
Bits(k)   == IF k \in {"W", "Wu"} THEN WBits ELSE XBits
Signed(k) == k \in {"W", "L"}

Floats   == {"S", "D"}
Integral == {"W", "Wu", "L", "Lu"}

FloatOperand(k, rs) == IF k = "S" THEN BoxedF32(f[rs]) ELSE f[rs]
Boxed(k, word)      == IF k = "S" THEN Box(word) ELSE word

\* x0 reads as zero whatever is written to it.
WriteX(rd, word) == IF rd = "x0" THEN x ELSE [x EXCEPT ![rd] = word]

Mode(rm) == IF rm = 7 THEN frm ELSE rm

Retire(instruction, flags) ==
    /\ fflags' = fflags \cup flags
    /\ instructions' = instructions + 1
    /\ last' = instruction
    /\ UNCHANGED frm

\* FAddS, FAddD
FAdd(k, rd, rs1, rs2, rm) ==
    /\ IsValidRoundingMode(Mode(rm))
    /\ \E sum \in {AddBinary(FloatOperand(k, rs1), FloatOperand(k, rs2), Format(k), Mode(rm))} :
         /\ f' = [f EXCEPT ![rd] = Boxed(k, sum.word)]
         /\ Retire([op |-> "fadd", kind |-> k, rd |-> rd, rs1 |-> rs1, rs2 |-> rs2,
                    mode |-> Mode(rm)], sum.flags)
    /\ UNCHANGED x

Converted(to, from, rd, rs, rm) ==
    [op |-> "fcvt", to |-> to, from |-> from, rd |-> rd, rs1 |-> rs, mode |-> Mode(rm)]

\* SFromD, DFromS
FormatFromFormat(to, from, rd, rs, rm) ==
    /\ IsValidRoundingMode(Mode(rm))
    /\ \E c \in {ConvertBinary(FloatOperand(from, rs), Format(from), Format(to), Mode(rm))} :
         /\ f' = [f EXCEPT ![rd] = Boxed(to, c.word)]
         /\ Retire(Converted(to, from, rd, rs, rm), c.flags)
    /\ UNCHANGED x

\* W, WU, L, LU from S or D
IntegerFromFloat(to, from, rd, rs, rm) ==
    /\ IsValidRoundingMode(Mode(rm))
    /\ \E c \in {ConvertBinaryToInteger(FloatOperand(from, rs), Format(from), Signed(to), Bits(to),
                                        Mode(rm))} :
         /\ x' = WriteX(rd, c.word)
         /\ Retire(Converted(to, from, rd, rs, rm), c.flags)
    /\ UNCHANGED f

\* S or D from W, WU, L, LU
IntegerNegative(k, word)  == Signed(k) /\ word % 2 ^ Bits(k) >= 2 ^ (Bits(k) - 1)
IntegerMagnitude(k, word) == IF IntegerNegative(k, word) THEN 2 ^ Bits(k) - (word % 2 ^ Bits(k))
                                                         ELSE word % 2 ^ Bits(k)

FloatFromInteger(to, from, rd, rs, rm) ==
    /\ IsValidRoundingMode(Mode(rm))
    /\ \E c \in {ConvertIntegerToBinary(IntegerNegative(from, x[rs]), IntegerMagnitude(from, x[rs]),
                                        Format(to), Mode(rm))} :
         /\ f' = [f EXCEPT ![rd] = Boxed(to, c.word)]
         /\ Retire(Converted(to, from, rd, rs, rm), c.flags)
    /\ UNCHANGED x

\* FMV.X.W and FMV.X.D, FMV.W.X and FMV.D.X: bits, never values.
MoveToX(k, rd, rs) ==
    /\ x' = WriteX(rd, IF k = "S" THEN SignExtend(f[rs] % 2 ^ WBits, WBits) ELSE f[rs])
    /\ Retire([op |-> "fmv", kind |-> k, rd |-> rd, rs1 |-> rs], {})
    /\ UNCHANGED f

MoveFromX(k, rd, rs) ==
    /\ f' = [f EXCEPT ![rd] = IF k = "S" THEN Box(x[rs] % 2 ^ WBits) ELSE x[rs]]
    /\ Retire([op |-> "fmv", kind |-> k, rd |-> rd, rs1 |-> rs], {})
    /\ UNCHANGED x

Init ==
    /\ \E l \in Loads : f = l.f /\ x = l.x
    /\ \E c \in Fcsrs : frm = c.frm /\ fflags = c.fflags
    /\ instructions = 0
    /\ last = [op |-> "none"]

Next ==
    /\ instructions < MaxInstructions
    /\ \/ \E k \in Floats, rd, rs1, rs2 \in DOMAIN f, rm \in 0 .. 7 : FAdd(k, rd, rs1, rs2, rm)
       \/ \E to, from \in Floats, rd, rs \in DOMAIN f, rm \in 0 .. 7 :
            to # from /\ FormatFromFormat(to, from, rd, rs, rm)
       \/ \E to \in Integral, from \in Floats, rd \in DOMAIN x, rs \in DOMAIN f, rm \in 0 .. 7 :
            IntegerFromFloat(to, from, rd, rs, rm)
       \/ \E to \in Floats, from \in Integral, rd \in DOMAIN f, rs \in DOMAIN x, rm \in 0 .. 7 :
            FloatFromInteger(to, from, rd, rs, rm)
       \/ \E k \in Floats, rd \in DOMAIN x, rs \in DOMAIN f : MoveToX(k, rd, rs)
       \/ \E k \in Floats, rd \in DOMAIN f, rs \in DOMAIN x : MoveFromX(k, rd, rs)

Spec == Init /\ [][Next]_vars
=============================================================================
