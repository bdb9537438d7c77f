--------------------------- MODULE MCHostDebuggers ---------------------------
(* Programs and commands for model checking the host debuggers. *)
EXTENDS HostDebuggers

Op(o, rd, rs1, rs2, imm) == [op |-> o, rd |-> rd, rs1 |-> rs1, rs2 |-> rs2, imm |-> imm]
Jal(rd, imm)       == Op("jal", rd, "zero", "zero", imm)
Jalr(rd, rs1)      == Op("jalr", rd, rs1, "zero", 0)
Addi(rd, rs1, imm) == Op("addi", rd, rs1, "zero", imm)
Nop                == Addi("zero", "zero", 0)
Ret                == Jalr("zero", "ra")

\* main calls a leaf and goes round; the leaf writes memory.
Leaf == <<Jal("ra", 2), Jal("zero", -1), Op("sw", "zero", "sp", "a0", 7), Ret>>

\* f calls itself while a0 > 0, keeping ra in memory at sp.
Recursive == <<Jal("ra", 2), Op("beq", "zero", "zero", "zero", 0),
               Op("sw", "zero", "sp", "ra", 12), Addi("sp", "sp", 1),
               Op("beq", "zero", "a0", "zero", 3), Addi("a0", "a0", -1), Jal("ra", -4),
               Addi("sp", "sp", -1), Op("lw", "ra", "sp", "zero", 12), Ret>>

\* _start is the second word; the call goes through a register.
Indirect == <<Ret, Addi("ra", "zero", 3), Jalr("ra", "ra")>>

MCPrograms == [leaf |-> [words |-> Leaf, start |-> 0],
               indirect |-> [words |-> Indirect, start |-> 1],
               huge |-> [words |-> [k \in 1 .. Words + 1 |-> Nop], start |-> 0]]
MCRecursive == [recursive |-> [words |-> Recursive, start |-> 0]]
MCLines == [nop |-> <<Nop>>, pair |-> <<Nop, Nop>>]

LoadCommands == [name : {"assemble-program"}, program : {"leaf", "indirect", "wrong"}]
                  \cup [name : {"assemble"}, line : {"pair"}]
StopCommands == {[name |-> "break", at |-> 2, condition |-> "always"],
                 [name |-> "break", at |-> 1, condition |-> "a0"],
                 [name |-> "break", at |-> 1, condition |-> "unknown"],
                 [name |-> "break", at |-> 0, condition |-> "malformed"],
                 [name |-> "watch", at |-> 7, kind |-> "write"],
                 [name |-> "delete break", id |-> 1], [name |-> "delete watch", id |-> 1]}
RunCommands  == {[name |-> "run", count |-> MaxRunSteps], [name |-> "continue", count |-> MaxRunSteps],
                 [name |-> "continue", count |-> 2], [name |-> "step"],
                 [name |-> "stepidp", count |-> 2], [name |-> "step-over"], [name |-> "step-out"]}
EditCommands == {[name |-> "edit", at |-> 3, word |-> Nop],
                 [name |-> "fill", at |-> 2, count |-> 2, word |-> Datum(0)],
                 [name |-> "copy", from |-> 0, at |-> 1, count |-> 1],
                 [name |-> "undo"], [name |-> "set", register |-> "a0", value |-> 1],
                 [name |-> "assemble-program", program |-> "huge"]}   \* fails half way
FileCommands == [name : {"snapshot", "restore", "project-save", "project-load", "reset"}]

MCCommands == LoadCommands \cup StopCommands \cup RunCommands \cup EditCommands \cup FileCommands
MCClass(c) == CASE c \in LoadCommands -> "load" [] c \in StopCommands -> "stop"
                [] c \in RunCommands -> "run"   [] c \in EditCommands -> "edit"
                [] c \in FileCommands -> "file"
MCDeepCommands == {[name |-> "assemble-program", program |-> "recursive"],
                   [name |-> "set", register |-> "a0", value |-> 2],
                   [name |-> "run", count |-> 1], [name |-> "run", count |-> 6],
                   [name |-> "step-over"], [name |-> "step-out"]}
MCOneClass(c) == "any"
MCDeepBudget == [any |-> 4]
MCBudget == [load |-> 1, stop |-> 2, run |-> 3, edit |-> 1, file |-> 2]
==============================================================================
