---------------------------- MODULE MCGuestDebug ----------------------------
(***************************************************************************)
(* Small instances of GuestDebug.  Words are named for the instruction     *)
(* they stand for; the register file is reduced to the one register that   *)
(* jalr jumps through and that ld and sd address with.                     *)
(***************************************************************************)
EXTENDS GuestDebug, FiniteSets

MCWord == {"ebreak", "zero", "add", "blt", "jalr", "beq0", "ecall", "ld", "sd"}

MCKind ==
  [w \in MCWord |->
     CASE w = "ebreak" -> "ebreak"
       [] w = "zero" -> "illegal"
       [] w = "blt" -> "unsupported"
       [] w = "ld" -> "load"
       [] w = "sd" -> "store"
       [] w = "ecall" -> "ecall"
       [] OTHER -> "plain"]

(* jalr goes where the register points, beq0 and blt to word 1.            *)
MCSucc ==
  [<<w, r, a>> \in MCWord \X Regs \X Ram |->
     CASE w = "jalr" -> r
       [] w \in {"beq0", "blt"} -> 1
       [] OTHER -> After(a)]

MCEffective == [<<w, r>> \in MCWord \X Regs |-> r]

(* An image from the words at 0, 1, 2, ... , with EBREAK at the entry.     *)
Image(words) == [a \in Ram |-> words[a + 1]]

NoPayload == [a \in {} |-> "zero"]

(* Straight line with a service call; a loop; an indirect jump; a program  *)
(* with an ebreak of its own and a branch the stepper does not decode.     *)
CoreImages ==
  {Image(<<"ebreak", "add", "ecall", "add">>),
   Image(<<"ebreak", "add", "add", "beq0">>),
   Image(<<"ebreak", "jalr", "add", "ecall">>),
   Image(<<"ebreak", "add", "ebreak", "blt">>)}
CoreRegs == {1, 3}

(* A program that loads and stores, in the data word 2 or over itself, and *)
(* one that may already have overwritten itself.                           *)
EditImages == {Image(<<"ebreak", "sd", "zero">>), Image(<<"ebreak", "add", "ebreak">>)}
EditPayload == [a \in {1, 2} |-> IF a = 1 THEN "sd" ELSE "zero"]
EditRegs == {1, 2}

WatchImages == {Image(<<"ebreak", "ld", "beq0">>), Image(<<"ebreak", "sd", "beq0">>)}
WatchRegs == {2}
=============================================================================
