------------------------------ MODULE MCAssembler ------------------------------
(* Programs of up to MaxLines lines of Pool, with files to include: "lib"    *)
(* defines a macro that branches to its argument, "either" assembles one of  *)
(* two parts by the value of S, "code" holds instructions of every encoding  *)
(* and some with operands of another shape, "loop" includes itself.          *)
EXTENDS Assembler

n(v) == Expr("", v)
s(name) == Expr(name, 0)
x(i) == Reg("x", i)
f(i) == Reg("f", i)

Jump(target) == Line(<<>>, "jal", <<x(1), target>>)

MCPool == {
  Line(<<"a">>, "addi", <<x(1), x(31), s("a")>>),
  Line(<<"b">>, "none", <<>>),
  Line(<<".L">>, ".byte", <<n(1), s("S")>>),
  Line(<<>>, "bne", <<x(1), x(2), s(".L")>>),
  Jump(Expr("b", 4)),
  Line(<<>>, ".dword", <<s("b")>>),
  Line(<<>>, ".balign", <<n(2048)>>),
  Line(<<>>, ".asciz", <<Text("word", 3)>>),
  Line(<<>>, ".double", <<n(1)>>),
  Line(<<>>, ".equ", <<s("K"), s("S")>>),
  Line(<<>>, ".set", <<s("S"), n(0)>>),
  Line(<<>>, ".set", <<s("S"), Expr("S", 6)>>),
  Line(<<>>, ".if", <<s("S")>>),
  Line(<<>>, ".else", <<>>),
  Line(<<>>, ".endif", <<>>),
  Line(<<>>, ".macro", <<"m">>),
  Line(<<>>, ".endm", <<>>),
  Line(<<>>, "m", <<s("a")>>),
  Line(<<>>, "m", <<>>),
  Line(<<>>, ".include", <<Text("lib", 3)>>),
  Line(<<>>, ".include", <<Text("code", 4)>>),
  Line(<<>>, ".include", <<Text("loop", 4)>>),
  Line(<<>>, ".include", <<Text("either", 6)>>),
  Line(<<>>, ".data", <<>>)}

MCFiles == [
  lib  |-> [bytes |-> 40, lines |-> <<
    Line(<<>>, ".macro", <<"m", "p">>),
    Line(<<>>, "beq", <<x(0), x(3), Param("p")>>),
    Line(<<>>, ".endm", <<>>)>>],
  code |-> [bytes |-> 100, lines |-> <<
    Line(<<>>, "add", <<x(1), x(2), x(31)>>),
    Line(<<>>, "auipc", <<x(5), n(74565)>>),
    Line(<<>>, "ld", <<x(1), Mem("", -8, 2)>>),
    Line(<<>>, "sd", <<x(3), Mem("", -33, 4)>>),
    Line(<<>>, "bne", <<x(1), x(2), n(-4)>>),
    Line(<<>>, "jalr", <<x(0), Mem("", 0, 1)>>),
    Line(<<>>, "fadd.d", <<f(1), f(2), f(3)>>),
    Line(<<>>, "fcvt.lu.d", <<x(1), f(2), n(1)>>),
    Line(<<>>, "fmv.d.x", <<f(1), x(2)>>),
    Line(<<>>, "fmadd.s", <<f(1), f(2), f(3), f(4)>>),
    Line(<<>>, "fsw", <<f(1), Mem("", 40, 2)>>),
    Line(<<>>, "addi", <<f(3), Mem("", -5, 4)>>),
    Line(<<>>, "lw", <<f(1), f(2), n(2047)>>),
    Line(<<>>, "sub", <<f(1), Mem("", 4, 2)>>),
    Line(<<>>, "flw", <<f(1), f(2), n(-2048)>>),
    Line(<<>>, "fsw", <<f(1), Mem("", 5000, 2)>>),
    Line(<<>>, ".section", <<Text("extra", 5), Text("aw", 2)>>),
    Line(<<"b">>, ".half", <<n(-2), s("b")>>),
    Line(<<>>, ".align", <<n(4)>>),
    Line(<<>>, ".float", <<n(1)>>),
    Line(<<>>, ".text", <<>>)>>],
  either |-> [bytes |-> 60, lines |-> <<
    Line(<<>>, ".if", <<s("S")>>),
    Line(<<>>, ".macro", <<"m", "q">>),
    Line(<<>>, "jal", <<x(1), Param("q")>>),
    Line(<<"\\q">>, "none", <<>>),
    Line(<<>>, ".endm", <<>>),
    Line(<<"b">>, "lw", <<x(4), Mem("S", 2, 3)>>),
    Line(<<>>, ".else", <<>>),
    Line(<<>>, ".include", <<Text("lib", 3)>>),
    Line(<<"b">>, "none", <<>>),
    Line(<<>>, ".endif", <<>>)>>],
  loop |-> [bytes |-> 10, lines |-> <<Line(<<>>, ".include", <<Text("loop", 4)>>)>>]]

MCHoles == [word \in {"\\q"} |-> "q"]

MCOptions == {
  [roots |-> {"root"}, base |-> "root", source |-> "main", depth |-> 2, bytes |-> 150, files |-> 2],
  [roots |-> {"missing"}, base |-> "root", source |-> "main", depth |-> 2, bytes |-> 150, files |-> 2]}
=============================================================================
