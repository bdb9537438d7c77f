------------------------------ MODULE HostTarget ------------------------------
(***************************************************************************)
(* The machine the host debuggers drive (crates/machine, over              *)
(* crates/memory).  A machine is a record: program counter, integer        *)
(* registers, memory and the count of retired instructions.  Memory is     *)
(* counted in 32-bit words, so pc + 4 is pc + 1; a word is an instruction  *)
(* or a datum, and a datum does not decode.  A fetch, a load or a store    *)
(* beyond the last word is the error of Memory::range and changes nothing. *)
(*                                                                         *)
(* Of the instruction set this module keeps what the debuggers look at:    *)
(* arithmetic, branches, calls and returns, memory accesses, and an        *)
(* instruction that is refused.  Floating point is in MachineFloat.        *)
(*                                                                         *)
(* `live` is not in the code: it is the list of the calls the program is   *)
(* really inside, kept with the machine so that whatever saves, restores   *)
(* or replaces the machine carries it along; `indirect` says that a call   *)
(* went through a register.                                                *)
(***************************************************************************)
EXTENDS Integers, Sequences

CONSTANT Words                     \* memory size, in words

ASSUME WordsAssumption == Words \in Nat \ {0}

Registers == {"zero", "ra", "sp", "a0"}
Addresses == 0 .. Words - 1
Datum(n)  == [op |-> "data", value |-> n]
NoAccess  == [kind |-> "none"]

\* Machine::new: everything zero.
NewMachine == [pc |-> 0, x |-> [r \in Registers |-> 0],
               mem |-> [a \in Addresses |-> Datum(0)], count |-> 0,
               live |-> <<>>, indirect |-> FALSE]

\* Machine::load stores word after word; what lies beyond memory is the
\* error, reported after the words before it are in.
Load(mem, at, words) == [a \in Addresses |->
                           IF a - at + 1 \in DOMAIN words THEN words[a - at + 1] ELSE mem[a]]
Fits(at, words)      == at \in Nat /\ at + Len(words) <= Words

\* write_memory checks the whole range before it writes.
InRange(at, n) == at \in Nat /\ at + n <= Words
Image(mem, at, n) == [k \in 1 .. n |-> mem[at + k - 1]]

With(x, rd, v) == IF rd = "zero" THEN x ELSE [x EXCEPT ![rd] = v]

-----------------------------------------------------------------------------
(* What one instruction does: the machine after it and the access it made. *)

Next4(m) == [m EXCEPT !.pc = @ + 1, !.count = @ + 1]

Arithmetic(m, i) ==
  [ok |-> TRUE, access |-> NoAccess,
   m  |-> [Next4(m) EXCEPT !.x = With(@, i.rd, m.x[i.rs1] + (IF i.op = "addi" THEN i.imm
                                                             ELSE m.x[i.rs2]))]]

Branch(m, i) ==
  LET taken == (m.x[i.rs1] = m.x[i.rs2]) = (i.op = "beq") IN
  [ok |-> TRUE, access |-> NoAccess,
   m  |-> [Next4(m) EXCEPT !.pc = m.pc + (IF taken THEN i.imm ELSE 1)]]

\* jal and jalr; the latter reads rs1 before it writes rd.
Jump(m, i) ==
  LET target == IF i.op = "jal" THEN m.pc + i.imm ELSE m.x[i.rs1] + i.imm
      calls  == i.rd = "ra"
      leaves == i.op = "jalr" /\ i.rd = "zero" /\ i.rs1 = "ra" /\ m.live # <<>> IN
  [ok |-> TRUE, access |-> NoAccess,
   m  |-> [Next4(m) EXCEPT !.pc = target,
                           !.x = With(@, i.rd, m.pc + 1),
                           !.indirect = @ \/ (calls /\ i.op = "jalr"),
                           !.live = IF calls THEN Append(@, [return_pc |-> m.pc + 1, target |-> target])
                                    ELSE IF leaves THEN SubSeq(@, 1, Len(@) - 1) ELSE @]]

LoadStore(m, i) ==
  LET at == m.x[i.rs1] + i.imm IN
  [ok     |-> at \in Addresses,
   access |-> [kind |-> IF i.op = "lw" THEN "read" ELSE "write", address |-> at],
   m      |-> IF at \notin Addresses THEN m
              ELSE IF i.op = "lw" THEN [Next4(m) EXCEPT !.x = With(@, i.rd, m.mem[at].value)]
              ELSE [Next4(m) EXCEPT !.mem[at] = Datum(m.x[i.rs2])]]

Refused(m) == [ok |-> FALSE, access |-> NoAccess, m |-> m]

\* Machine::step: fetch, decode, execute.  An error leaves the machine alone.
Step(m) ==
  IF m.pc \notin Addresses THEN Refused(m)
  ELSE LET i == m.mem[m.pc] IN
       CASE i.op \in {"addi", "add"}  -> Arithmetic(m, i)
         [] i.op \in {"beq", "bne"}   -> Branch(m, i)
         [] i.op \in {"jal", "jalr"}  -> Jump(m, i)
         [] i.op \in {"lw", "sw"}     -> LoadStore(m, i)
         [] OTHER                     -> Refused(m)

\* call_return_address of the monitor: does the word at pc call?
IsCall(i) == i.op \in {"jal", "jalr"} /\ i.rd = "ra"

=============================================================================
