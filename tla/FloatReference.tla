---------------------------- MODULE FloatReference ----------------------------
(***************************************************************************)
(* What the floating-point instructions of MachineFloat promise, stated    *)
(* without shifts, carries or exponents: a finite word stands for a whole  *)
(* number of units of the smallest distance of any format, and the result  *)
(* of an operation is the word chosen by the rounding mode among the two   *)
(* that enclose the exact result.  The words of a format are ordered like  *)
(* the numbers they stand for, with infinity in the place of the power of  *)
(* two that follows the largest finite number.                             *)
(***************************************************************************)
EXTENDS MachineFloat

\* The unit is 2 ^ -Scale.
Scale == Bias(Double) - 1 + Double.frac

Magnitudes(F) == 0 .. ExponentMask(F)
Magnitude(m, F) == Significand(m, F) * 2 ^ (Exponent(m, F) + Scale)

\* Magnitude tabulated, as TLC evaluates it for every result.
MagnitudeIn == [F \in {Single, Double} |-> [m \in Magnitudes(F) |-> Magnitude(m, F)]]

Exact(v, F) == (IF Negative(v, F) THEN -1 ELSE 1) * MagnitudeIn[F][v % SignMask(F)]

AbsoluteOf(n) == IF n < 0 THEN 0 - n ELSE n

\* The last word of F whose magnitude does not exceed q.
Below(q, F) == CHOOSE m \in Magnitudes(F) :
                 /\ MagnitudeIn[F][m] <= q
                 /\ m = ExponentMask(F) \/ MagnitudeIn[F][m + 1] > q

(* The word the mode chooses for a number of magnitude q, when it may      *)
(* choose infinity.                                                        *)
Nearest(q, negative, F, mode) ==
    LET low  == Below(q, F)
        down == q - MagnitudeIn[F][low]
        up   == MagnitudeIn[F][low + 1] - q
    IN  IF low = ExponentMask(F) \/ down = 0 THEN low
        ELSE CASE mode = RNE -> IF down < up \/ (down = up /\ low % 2 = 0) THEN low ELSE low + 1
               [] mode = RTZ -> low
               [] mode = RDN -> IF negative THEN low + 1 ELSE low
               [] mode = RUP -> IF negative THEN low ELSE low + 1
               [] mode = RMM -> IF down < up THEN low ELSE low + 1

\* A mode that rounds towards zero from here never answers infinity.
StaysFinite(negative, mode) ==
    mode = RTZ \/ (mode = RDN /\ ~negative) \/ (mode = RUP /\ negative)

(* The whole number of `unit`s the mode chooses for the number q.          *)
WholeUnits(q, unit, mode) ==
    LET low  == q \div unit
        rest == q % unit
    IN  IF rest = 0 THEN low
        ELSE CASE mode = RDN -> low
               [] mode = RUP -> low + 1
               [] mode = RTZ -> IF q < 0 THEN low + 1 ELSE low
               [] mode = RNE -> IF 2 * rest < unit \/ (2 * rest = unit /\ low % 2 = 0) THEN low
                                ELSE low + 1
               [] mode = RMM -> IF 2 * rest < unit \/ (2 * rest = unit /\ q < 0) THEN low
                                ELSE low + 1

(* Chapter F of the ISA manual: a number is tiny when it is below the      *)
(* smallest normal number of F, rounded to the precision of F with an      *)
(* exponent that has no lower bound, that is to half the smallest number.  *)
Tiny(q, F, mode) ==
    AbsoluteOf(WholeUnits(2 * q, MagnitudeIn[F][1], mode)) < 2 * 2 ^ F.frac

(* The result and the flags for the exact number q, whose sign is          *)
(* `negative` when it is zero.                                             *)
Rounded(q, negative, F, mode) ==
    LET m         == Nearest(AbsoluteOf(q), negative, F, mode)
        overflows == m = ExponentMask(F)
        inexact   == overflows \/ MagnitudeIn[F][m] # AbsoluteOf(q)
    IN  Answer(SignBit(negative, F) + (IF overflows /\ StaysFinite(negative, mode) THEN m - 1 ELSE m),
               (IF inexact THEN {"NX"} ELSE {}) \cup (IF overflows THEN {"OF"} ELSE {})
                   \cup (IF inexact /\ Tiny(q, F, mode) THEN {"UF"} ELSE {}))

Finite(v, F) == ~IsNan(v, F) /\ ~IsInfinite(v, F)

\* The sign of an exact zero: the common sign of the operands, or the mode's.
SumSign(l, r, F, mode) ==
    LET q == Exact(l, F) + Exact(r, F)
    IN  IF q # 0 THEN q < 0
        ELSE IF Negative(l, F) = Negative(r, F) THEN Negative(l, F) ELSE mode = RDN

Sum(l, r, F, mode) == Rounded(Exact(l, F) + Exact(r, F), SumSign(l, r, F, mode), F, mode)

Least(signed, bits)    == IF signed THEN 0 - 2 ^ (bits - 1) ELSE 0
Greatest(signed, bits) == IF signed THEN 2 ^ (bits - 1) - 1 ELSE 2 ^ bits - 1

\* A register that holds the integer n: unsigned 32-bit results are
\* sign-extended too.
Register(n, bits) == SignExtend(n % 2 ^ bits, bits)

\* Out of range, or infinite: the end of the range on that side, and invalid.
Saturated(q, signed, bits, mode) ==
    LET n == WholeUnits(q, 2 ^ Scale, mode)
    IN  IF n < Least(signed, bits) THEN Answer(Register(Least(signed, bits), bits), {"NV"})
        ELSE IF n > Greatest(signed, bits)
        THEN Answer(Register(Greatest(signed, bits), bits), {"NV"})
        ELSE Answer(Register(n, bits), IF q % 2 ^ Scale # 0 THEN {"NX"} ELSE {})

-----------------------------------------------------------------------------
\* What an instruction read, in the state before it.
Left       == FloatOperand(last'.kind, last'.rs1)
Right      == FloatOperand(last'.kind, last'.rs2)
Source     == FloatOperand(last'.from, last'.rs1)
IntegerIn  == (IF IntegerNegative(last'.from, x[last'.rs1]) THEN -1 ELSE 1)
                  * IntegerMagnitude(last'.from, x[last'.rs1])

FloatResult(k, rd) == IF k = "S" THEN f'[rd] % 2 ^ WBits ELSE f'[rd]

Delivers(word, answer) == word = answer.word /\ fflags' = fflags \cup answer.flags

Subnormal(v, F) == v % SignMask(F) < 2 ^ F.frac

(* The same of a rounded number, but for an underflow whose result is the  *)
(* smallest normal number: whether that raises UF is left open here.       *)
DeliversRounded(word, answer, F) ==
    /\ word = answer.word
    /\ fflags' \ {"UF"} = (fflags \cup answer.flags) \ {"UF"}
    /\ "UF" \in fflags' => "UF" \in fflags \cup answer.flags
    /\ Subnormal(word, F) /\ "NX" \in answer.flags => "UF" \in fflags'
    /\ "UF" \in fflags => "UF" \in fflags'

SumIsRounded(k) ==
    Finite(Left, Format(k)) /\ Finite(Right, Format(k))
        => DeliversRounded(FloatResult(k, last'.rd), Sum(Left, Right, Format(k), last'.mode),
                           Format(k))

FormatIsRounded(to, from) ==
    Finite(Source, Format(from))
        => DeliversRounded(FloatResult(to, last'.rd),
                           Rounded(Exact(Source, Format(from)), Negative(Source, Format(from)),
                                   Format(to), last'.mode), Format(to))

IntegerIsRounded(to) ==
    DeliversRounded(FloatResult(to, last'.rd),
                    Rounded(IntegerIn * 2 ^ Scale, IntegerIn < 0, Format(to), last'.mode),
                    Format(to))

(* A sum of finite numbers and a conversion of one are the exact result    *)
(* rounded once by the instruction's mode (or fcsr's), at every boundary:  *)
(* ties, carries into the next power of two, the step from subnormal to    *)
(* normal, overflow, cancellation, the sign of zero; and the flags added   *)
(* are those of that rounding, none of the earlier ones lost.  UF is       *)
(* raised by every inexact subnormal result and by no number that is not   *)
(* tiny; UnderflowAsInTheManual asks for more.                             *)
CorrectlyRounded ==
    [][/\ last'.op = "fadd" => SumIsRounded(last'.kind)
       /\ (last'.op = "fcvt" /\ last'.to \in Floats)
            => IF last'.from \in Floats THEN FormatIsRounded(last'.to, last'.from)
                                        ELSE IntegerIsRounded(last'.to)]_vars

ToInteger(to, from) ==
    /\ Finite(Source, Format(from)) =>
         Delivers(x'[last'.rd], Saturated(Exact(Source, Format(from)), Signed(to), Bits(to),
                                          last'.mode))
    /\ IsInfinite(Source, Format(from)) =>
         Delivers(x'[last'.rd],
                  Answer(Register(IF Negative(Source, Format(from)) THEN Least(Signed(to), Bits(to))
                                  ELSE Greatest(Signed(to), Bits(to)), Bits(to)), {"NV"}))

(* A conversion to an integer answers the integer the mode chooses, or the *)
(* end of the range it lies beyond and the invalid flag: after rounding,   *)
(* so that -0.5 converts to an unsigned 0 and not to an error.  W results  *)
(* come back sign-extended, unsigned ones too.                             *)
IntegersSaturate ==
    [][last'.op = "fcvt" /\ last'.to \in Integral /\ last'.rd # "x0"
         => ToInteger(last'.to, last'.from)]_vars

(* SPEC.md, section 11.1, has the flags computed as chapter F of the ISA   *)
(* manual says, where every tiny inexact result is an underflow.  The      *)
(* machine looks at the result it delivers instead (round_binary), and     *)
(* raises NX alone when a tiny number is rounded up to the smallest normal *)
(* one.  A sum that is tiny is exact, so only a conversion shows it.       *)
UnderflowAsInTheManual ==
    [][/\ last'.op = "fcvt" /\ last'.to = "S" /\ last'.from = "D" /\ Finite(Source, Double)
       /\ "UF" \in Rounded(Exact(Source, Double), Negative(Source, Double), Single,
                          last'.mode).flags
       => "UF" \in fflags']_vars
=============================================================================
