-------------------------- MODULE HostDebuggersProofs --------------------------
(***************************************************************************)
(* What holds of the host debuggers for every memory, every program, every *)
(* set of commands and every limit: the numbers of breakpoints and         *)
(* watchpoints stay fresh through any files loaded in any order, the       *)
(* history is one path, the frames are the calls, a run stops where it     *)
(* must, and the second debugger does what the first does.                 *)
(*                                                                         *)
(* The invariants come in parts, each with the facts about the files that  *)
(* a later load will need.  Nothing is assumed of the programs and hardly  *)
(* anything of the commands, so pcs, registers and words have no types     *)
(* here: only counts, numbers and lengths do.                              *)
(***************************************************************************)
EXTENDS HostDebuggers, SequenceTheorems, TLAPS

-----------------------------------------------------------------------------
(* Sequences *)

IsSequence(s) == s \in Seq(Range(s))

\* The history with one more entry, the oldest forgotten at the limit.
Forgetting(h) == IF Len(h) = MaxHistory THEN Tail(h) ELSE h

\* Any sequence is one over its own elements.
LEMMA SequenceOf == ASSUME NEW S, NEW s \in Seq(S) PROVE IsSequence(s) /\ Len(s) \in Nat
BY SeqOfRange, LenProperties DEF IsSequence

\* What Append does to a sequence of anything.
LEMMA Appended ==
  ASSUME NEW s, IsSequence(s), NEW e
  PROVE  /\ IsSequence(Append(s, e)) /\ Append(s, e) # <<>> /\ Len(s) \in Nat
         /\ Len(Append(s, e)) = Len(s) + 1
         /\ \A k \in 1 .. Len(s) : Append(s, e)[k] = s[k]
         /\ Append(s, e)[Len(s) + 1] = e
<1> DEFINE T == Range(s) \cup {e}
<1>1. s \in Seq(T) /\ e \in T
  BY SeqMonotonic, Range(s) \subseteq T DEF IsSequence
<1> HIDE DEF T
<1>2. /\ Append(s, e) \in Seq(T) /\ Append(s, e) # <<>>
      /\ Len(Append(s, e)) = Len(s) + 1
      /\ \A k \in 1 .. Len(s) : Append(s, e)[k] = s[k]
      /\ Append(s, e)[Len(s) + 1] = e
  BY <1>1, AppendProperties
<1>3. IsSequence(Append(s, e)) /\ Len(s) \in Nat
  BY <1>1, <1>2, SequenceOf
<1> QED
  BY <1>2, <1>3

\* What Tail does.
LEMMA Tailed ==
  ASSUME NEW s, IsSequence(s), s # <<>>
  PROVE  /\ IsSequence(Tail(s)) /\ Len(s) \in Nat \ {0}
         /\ Len(Tail(s)) = Len(s) - 1
         /\ \A k \in 1 .. Len(s) - 1 : Tail(s)[k] = s[k + 1]
<1> DEFINE T == Range(s)
<1>1. s \in Seq(T)
  BY DEF IsSequence
<1> HIDE DEF T
<1>2. Tail(s) \in Seq(T) /\ Len(s) \in Nat \ {0}
  BY <1>1, HeadTailProperties, EmptySeq
<1>3. Len(Tail(s)) = Len(s) - 1 /\ \A k \in 1 .. Len(Tail(s)) : Tail(s)[k] = s[k + 1]
  BY <1>1, HeadTailProperties
<1> QED
  BY <1>2, <1>3, SequenceOf

\* The empty one.
LEMMA Empty == IsSequence(<<>>) /\ Len(<<>>) = 0
BY EmptySeq, SequenceOf

\* A sequence with no entries is the empty one.
LEMMA NoEntries == ASSUME NEW s, IsSequence(s) PROVE (Len(s) = 0) <=> (s = <<>>)
BY EmptySeq, Empty DEF IsSequence

\* Removing the last.
LEMMA Shortened ==
  ASSUME NEW s, IsSequence(s), s # <<>>
  PROVE  /\ IsSequence(SubSeq(s, 1, Len(s) - 1)) /\ Len(s) \in Nat \ {0}
         /\ Len(SubSeq(s, 1, Len(s) - 1)) = Len(s) - 1
         /\ \A k \in 1 .. Len(s) - 1 : SubSeq(s, 1, Len(s) - 1)[k] = s[k]
<1> DEFINE T == Range(s)
<1>1. s \in Seq(T)
  BY DEF IsSequence
<1> HIDE DEF T
<1>2. Len(s) \in Nat \ {0} /\ \A k \in 1 .. Len(s) - 1 : s[k] \in T
  BY <1>1, EmptySeq, ElementOfSeq
<1>3. PICK n : n = Len(s) - 1
  OBVIOUS
<1>4. n \in Nat /\ n - 1 + 1 = n /\ 1 \in Int /\ n \in Int /\ \A k \in 1 .. n : s[k] \in T
  BY <1>2, <1>3
<1>5. /\ SubSeq(s, 1, n) \in Seq(T)
      /\ Len(SubSeq(s, 1, n)) = IF 1 <= n THEN n - 1 + 1 ELSE 0
      /\ \A k \in 1 .. n - 1 + 1 : SubSeq(s, 1, n)[k] = s[1 + k - 1]
  <2>1. \A S, q : \A m, k \in Int : (\A i \in m .. k : q[i] \in S) =>
          /\ SubSeq(q, m, k) \in Seq(S)
          /\ Len(SubSeq(q, m, k)) = (IF m <= k THEN k - m + 1 ELSE 0)
          /\ \A i \in 1 .. k - m + 1 : SubSeq(q, m, k)[i] = q[m + i - 1]
    BY SubSeqProperties, Zenon
  <2> QED
    BY <1>4, <2>1
<1>6. IsSequence(SubSeq(s, 1, n))
  BY <1>5, SequenceOf
<1>7. Len(SubSeq(s, 1, n)) = n
  BY <1>4, <1>5
<1>8. ASSUME NEW k \in 1 .. n PROVE SubSeq(s, 1, n)[k] = s[k]
  <2>1. k \in 1 .. n - 1 + 1 /\ 1 + k - 1 = k
    BY <1>4
  <2> QED
    BY <1>5, <2>1
<1> QED
  BY <1>2, <1>3, <1>6, <1>7, <1>8, Zenon

-----------------------------------------------------------------------------
(* The machine *)

\* A machine is a record with these fields, and its count is a number.
MachineOK(m) ==
  /\ m = [pc |-> m.pc, x |-> m.x, mem |-> m.mem, count |-> m.count,
          live |-> m.live, indirect |-> m.indirect]
  /\ m.count \in Nat

\* The frames after the instruction at pc, as record_retired infers them.
FramesAfter(m, f) ==
  LET i == m.mem[m.pc] IN
  IF i.op = "jal" /\ i.rd = "ra"
  THEN Append(f, [return_pc |-> m.pc + 1, target |-> m.pc + i.imm])
  ELSE IF i.op = "jalr" /\ i.rd = "zero" /\ i.rs1 = "ra" /\ f # <<>>
  THEN SubSeq(f, 1, Len(f) - 1)
  ELSE f

\* A record with these fields is one.
LEMMA MachineOf ==
  ASSUME NEW n, NEW a, NEW b, NEW c, NEW d, NEW e, NEW f, d \in Nat,
         n = [pc |-> a, x |-> b, mem |-> c, count |-> d, live |-> e, indirect |-> f]
  PROVE  /\ MachineOK(n) /\ n.pc = a /\ n.x = b /\ n.mem = c /\ n.count = d
         /\ n.live = e /\ n.indirect = f
BY DEF MachineOK

\* Replacing fields of a machine: what an instruction does, and what a write does.
LEMMA Moved ==
  ASSUME NEW m, MachineOK(m), NEW a, NEW n, n = [m EXCEPT !.pc = a]
  PROVE  /\ MachineOK(n) /\ n.pc = a /\ n.x = m.x /\ n.mem = m.mem /\ n.count = m.count
         /\ n.live = m.live /\ n.indirect = m.indirect
<1>1. n = [pc |-> a, x |-> m.x, mem |-> m.mem, count |-> m.count, live |-> m.live,
           indirect |-> m.indirect]
  BY DEF MachineOK
<1> QED
  BY <1>1, MachineOf DEF MachineOK

LEMMA RegistersSet ==
  ASSUME NEW m, MachineOK(m), NEW a, NEW n, n = [m EXCEPT !.x = a]
  PROVE  /\ MachineOK(n) /\ n.pc = m.pc /\ n.x = a /\ n.mem = m.mem /\ n.count = m.count
         /\ n.live = m.live /\ n.indirect = m.indirect
<1>1. n = [pc |-> m.pc, x |-> a, mem |-> m.mem, count |-> m.count, live |-> m.live,
           indirect |-> m.indirect]
  BY DEF MachineOK
<1> QED
  BY <1>1, MachineOf DEF MachineOK

LEMMA MemorySet ==
  ASSUME NEW m, MachineOK(m), NEW a, NEW n, n = [m EXCEPT !.mem = a]
  PROVE  /\ MachineOK(n) /\ n.pc = m.pc /\ n.x = m.x /\ n.mem = a /\ n.count = m.count
         /\ n.live = m.live /\ n.indirect = m.indirect
<1>1. n = [pc |-> m.pc, x |-> m.x, mem |-> a, count |-> m.count, live |-> m.live,
           indirect |-> m.indirect]
  BY DEF MachineOK
<1> QED
  BY <1>1, MachineOf DEF MachineOK

\* The next machine but for the registers, the target or a word of memory.
LEMMA NextIs ==
  ASSUME NEW m, MachineOK(m)
  PROVE  Next4(m) = [pc |-> m.pc + 1, x |-> m.x, mem |-> m.mem, count |-> m.count + 1,
                     live |-> m.live, indirect |-> m.indirect]
<1> PICK a, c : a = m.pc + 1 /\ c = m.count + 1
  OBVIOUS
<1> PICK n : n = [m EXCEPT !.pc = a, !.count = c]
  OBVIOUS
<1>1. Next4(m) = n
  BY DEF Next4
<1>2. n = [pc |-> a, x |-> m.x, mem |-> m.mem, count |-> c, live |-> m.live,
           indirect |-> m.indirect]
  BY DEF MachineOK
<1> QED
  BY <1>1, <1>2, Zenon

\* Replacing what a jump replaces.
LEMMA Jumped ==
  ASSUME NEW a, NEW x, NEW mem, NEW c, NEW l, NEW k, NEW t, NEW w, NEW j, NEW h, NEW n,
         NEW o, o = [n EXCEPT !.pc = t, !.x = w, !.indirect = j, !.live = h],
         n = [pc |-> a, x |-> x, mem |-> mem, count |-> c, live |-> l, indirect |-> k]
  PROVE  o = [pc |-> t, x |-> w, mem |-> mem, count |-> c, live |-> h, indirect |-> j]
OBVIOUS

\* n is m after one more instruction, its calls as they were.
Counted(m, n) == /\ MachineOK(n) /\ n.count = m.count + 1
                 /\ n.live = m.live /\ n.indirect = m.indirect

LEMMA CountedOf ==
  ASSUME NEW m, MachineOK(m), NEW n, NEW pc, NEW x, NEW mem, NEW c, c = m.count + 1,
         n = [pc |-> pc, x |-> x, mem |-> mem, count |-> c, live |-> m.live, indirect |-> m.indirect]
  PROVE  Counted(m, n)
<1>1. c \in Nat
  BY DEF MachineOK
<1> QED
  BY <1>1, MachineOf DEF Counted

LEMMA ArithmeticCounts ==
  ASSUME NEW m, MachineOK(m), NEW i
  PROVE  Counted(m, Arithmetic(m, i).m)
<1> PICK v : v = m.x[i.rs1] + (IF i.op = "addi" THEN i.imm ELSE m.x[i.rs2])
  OBVIOUS
<1> PICK n : n = Next4(m)
  OBVIOUS
<1> PICK w, a, c : w = With(n.x, i.rd, v) /\ a = m.pc + 1 /\ c = m.count + 1
  OBVIOUS
<1>1. n = [pc |-> a, x |-> m.x, mem |-> m.mem, count |-> c, live |-> m.live, indirect |-> m.indirect]
  BY NextIs, Zenon
<1>2. Arithmetic(m, i).m = [n EXCEPT !.x = w]
  BY DEF Arithmetic
<1>3. PICK j : j = Arithmetic(m, i).m
  OBVIOUS
<1>4. j = [pc |-> a, x |-> w, mem |-> m.mem, count |-> c, live |-> m.live, indirect |-> m.indirect]
  BY ONLY <1>1, <1>2, <1>3
<1>5. c = m.count + 1
  OBVIOUS
<1>6. Counted(m, j)
  BY ONLY MachineOK(m), <1>4, <1>5, CountedOf
<1> QED
  BY <1>3, <1>6, Zenon

LEMMA BranchCounts ==
  ASSUME NEW m, MachineOK(m), NEW i
  PROVE  Counted(m, Branch(m, i).m)
<1> PICK n : n = Next4(m)
  OBVIOUS
<1> PICK w, a, c : /\ w = m.pc + (IF (m.x[i.rs1] = m.x[i.rs2]) = (i.op = "beq") THEN i.imm ELSE 1)
                   /\ a = m.pc + 1 /\ c = m.count + 1
  OBVIOUS
<1>1. n = [pc |-> a, x |-> m.x, mem |-> m.mem, count |-> c, live |-> m.live, indirect |-> m.indirect]
  BY NextIs, Zenon
<1>2. Branch(m, i).m = [n EXCEPT !.pc = w]
  BY DEF Branch
<1>3. PICK j : j = Branch(m, i).m
  OBVIOUS
<1>4. j = [pc |-> w, x |-> m.x, mem |-> m.mem, count |-> c, live |-> m.live, indirect |-> m.indirect]
  BY ONLY <1>1, <1>2, <1>3
<1>5. c = m.count + 1
  OBVIOUS
<1>6. Counted(m, j)
  BY ONLY MachineOK(m), <1>4, <1>5, CountedOf
<1> QED
  BY <1>3, <1>6, Zenon

LEMMA LoadStoreCounts ==
  ASSUME NEW m, MachineOK(m), NEW i, LoadStore(m, i).ok
  PROVE  Counted(m, LoadStore(m, i).m)
<1> PICK at : at = m.x[i.rs1] + i.imm
  OBVIOUS
<1> PICK n : n = Next4(m)
  OBVIOUS
<1> PICK w, v, a, c : /\ w = With(n.x, i.rd, m.mem[at].value)
                      /\ v = [n.mem EXCEPT ![at] = Datum(m.x[i.rs2])]
                      /\ a = m.pc + 1 /\ c = m.count + 1
  OBVIOUS
<1>1. n = [pc |-> a, x |-> m.x, mem |-> m.mem, count |-> c, live |-> m.live, indirect |-> m.indirect]
  BY NextIs, Zenon
<1>2. at \in Addresses
  BY Zenon DEF LoadStore
<1>3. LoadStore(m, i).m = (IF i.op = "lw" THEN [n EXCEPT !.x = w] ELSE [n EXCEPT !.mem = v])
  BY <1>2 DEF LoadStore
<1>4. PICK j : j = LoadStore(m, i).m
  OBVIOUS
<1>5. c = m.count + 1
  OBVIOUS
<1>6. CASE i.op = "lw"
  <2>1. j = [pc |-> a, x |-> w, mem |-> m.mem, count |-> c, live |-> m.live, indirect |-> m.indirect]
    BY ONLY <1>1, <1>3, <1>4, <1>6
  <2>2. Counted(m, j)
    BY ONLY MachineOK(m), <1>5, <2>1, CountedOf
  <2> QED
    BY <1>4, <2>2, Zenon
<1>7. CASE i.op # "lw"
  <2>1. j = [pc |-> a, x |-> m.x, mem |-> v, count |-> c, live |-> m.live, indirect |-> m.indirect]
    BY ONLY <1>1, <1>3, <1>4, <1>7
  <2>2. Counted(m, j)
    BY ONLY MachineOK(m), <1>5, <2>1, CountedOf
  <2> QED
    BY <1>4, <2>2, Zenon
<1> QED
  BY <1>6, <1>7

\* A jump counts, and moves the calls as record_retired moves the frames,
\* unless the call went through a register.
LEMMA JumpCounts ==
  ASSUME NEW m, MachineOK(m), NEW i, i = m.mem[m.pc], i.op \in {"jal", "jalr"}
  PROVE  LET n == Jump(m, i).m IN
         /\ MachineOK(n) /\ n.count = m.count + 1
         /\ ~n.indirect => ~m.indirect /\ n.live = FramesAfter(m, m.live)
<1> DEFINE target == IF i.op = "jal" THEN m.pc + i.imm ELSE m.x[i.rs1] + i.imm
           calls  == i.rd = "ra"
           leaves == i.op = "jalr" /\ i.rd = "zero" /\ i.rs1 = "ra" /\ m.live # <<>>
           live   == IF calls THEN Append(m.live, [return_pc |-> m.pc + 1, target |-> target])
                     ELSE IF leaves THEN SubSeq(m.live, 1, Len(m.live) - 1) ELSE m.live
<1> PICK n : n = Next4(m)
  OBVIOUS
<1> PICK t, w, a, c, l, k : /\ t = target /\ w = With(n.x, i.rd, m.pc + 1) /\ a = m.pc + 1
                            /\ c = m.count + 1 /\ l = live
                            /\ k = (m.indirect \/ (calls /\ i.op = "jalr"))
  OBVIOUS
<1>1. n = [pc |-> a, x |-> m.x, mem |-> m.mem, count |-> c, live |-> m.live, indirect |-> m.indirect]
  BY NextIs, Zenon
<1>2. c \in Nat
  BY DEF MachineOK
<1> PICK j : j = Jump(m, i).m
  OBVIOUS
<1>3. j = [n EXCEPT !.pc = t, !.x = w, !.indirect = k, !.live = l]
  <2>1. n.live = m.live /\ n.indirect = m.indirect /\ n.x = m.x
    BY ONLY <1>1, SMTT(30)
  <2> QED
    BY <2>1, Zenon DEF Jump
<1>4. j = [pc |-> t, x |-> w, mem |-> m.mem, count |-> c, live |-> l, indirect |-> k]
  BY ONLY <1>1, <1>3, Jumped
<1>5. ~k => ~m.indirect /\ l = FramesAfter(m, m.live)
  BY DEF FramesAfter
<1> HIDE DEF target, live
<1>6. MachineOK(j) /\ j.count = c /\ j.live = l /\ j.indirect = k
  BY ONLY <1>2, <1>4, MachineOf
<1> QED
  BY <1>5, <1>6, Zenon

\* An instruction that is executed counts one, and the calls the program is
\* inside change as the frames would.
LEMMA StepExecutes ==
  ASSUME NEW m, MachineOK(m), Step(m).ok
  PROVE  /\ m.pc \in Addresses
         /\ MachineOK(Step(m).m)
         /\ Step(m).m.count = m.count + 1
         /\ ~Step(m).m.indirect => ~m.indirect /\ Step(m).m.live = FramesAfter(m, m.live)
<1> PICK i : i = m.mem[m.pc]
  OBVIOUS
<1>1. m.pc \in Addresses
  BY DEF Step, Refused
<1>2. ASSUME i.op \notin {"jal", "jalr"} PROVE FramesAfter(m, m.live) = m.live
  BY <1>2 DEF FramesAfter
<1>3. CASE i.op \in {"addi", "add"}
  <2>1. Step(m) = Arithmetic(m, i)
    BY <1>1, <1>3 DEF Step
  <2> QED
    BY <1>1, <1>2, <1>3, <2>1, ArithmeticCounts DEF Counted
<1>4. CASE i.op \in {"beq", "bne"}
  <2>1. Step(m) = Branch(m, i)
    BY <1>1, <1>4 DEF Step
  <2> QED
    BY <1>1, <1>2, <1>4, <2>1, BranchCounts DEF Counted
<1>5. CASE i.op \in {"jal", "jalr"}
  <2>1. Step(m) = Jump(m, i)
    BY <1>1, <1>5 DEF Step
  <2> QED
    BY <1>1, <1>5, <2>1, JumpCounts
<1>6. CASE i.op \in {"lw", "sw"}
  <2>1. Step(m) = LoadStore(m, i)
    BY <1>1, <1>6 DEF Step
  <2> QED
    BY <1>1, <1>2, <1>6, <2>1, LoadStoreCounts DEF Counted
<1>7. CASE i.op \notin {"addi", "add", "beq", "bne", "jal", "jalr", "lw", "sw"}
  BY <1>1, <1>7 DEF Step, Refused
<1> QED
  BY <1>1, <1>3, <1>4, <1>5, <1>6, <1>7

LEMMA NewMachineOK == MachineOK(NewMachine) /\ NewMachine.live = <<>> /\ ~NewMachine.indirect
BY MachineOf DEF NewMachine

\* The console's instance of the machine is the same machine.
LEMMA SameTarget ==
  /\ \A m : C!Step(m) = Step(m)
  /\ \A i : C!IsCall(i) = IsCall(i)
  /\ \A at, n : C!InRange(at, n) = InRange(at, n)
  /\ \A mem, at, words : C!Load(mem, at, words) = Load(mem, at, words)
  /\ \A mem, at, n : C!Image(mem, at, n) = Image(mem, at, n)
  /\ C!NewMachine = NewMachine /\ C!Addresses = Addresses
<1>1. C!Addresses = Addresses /\ C!Datum(0) = Datum(0)
  BY DEF Addresses, C!Addresses, Datum, C!Datum
<1>2. \A m : C!Next4(m) = Next4(m)
  BY DEF C!Next4, Next4
<1>3. \A x, r, v : C!With(x, r, v) = With(x, r, v)
  BY DEF C!With, With
<1>4. \A m, i : C!Arithmetic(m, i) = Arithmetic(m, i)
  BY <1>2, <1>3, Zenon DEF C!Arithmetic, Arithmetic, C!NoAccess, NoAccess
<1>5. \A m, i : C!Branch(m, i) = Branch(m, i)
  BY <1>2, <1>3, Zenon DEF C!Branch, Branch, C!NoAccess, NoAccess
<1>6. ASSUME NEW m, NEW i PROVE C!Jump(m, i) = Jump(m, i)
  <2> PICK n : n = Next4(m)
    OBVIOUS
  <2> PICK w : w = With(n.x, i.rd, m.pc + 1)
    OBVIOUS
  <2>1. C!Next4(m) = n /\ Next4(m) = n
    BY <1>2
  <2>2. C!With(n.x, i.rd, m.pc + 1) = w /\ With(n.x, i.rd, m.pc + 1) = w
    BY <1>3
  <2> QED
    BY <2>1, <2>2 DEF C!Jump, Jump, C!NoAccess, NoAccess
<1>7. \A m, i : C!LoadStore(m, i) = LoadStore(m, i)
  BY <1>1, <1>2, <1>3, ZenonT(60) DEF C!LoadStore, LoadStore, C!Datum, Datum
<1>8. \A m : C!Refused(m) = Refused(m)
  BY DEF C!Refused, Refused, C!NoAccess, NoAccess
<1>9. \A m : C!Step(m) = Step(m)
  BY <1>1, <1>4, <1>5, <1>6, <1>7, <1>8 DEF C!Step, Step
<1>10. \A i : C!IsCall(i) = IsCall(i)
  BY Zenon DEF C!IsCall, IsCall
<1>11. \A at, n : C!InRange(at, n) = InRange(at, n)
  BY Zenon DEF C!InRange, InRange
<1>12. \A mem, at, words : C!Load(mem, at, words) = Load(mem, at, words)
  BY <1>1, Zenon DEF C!Load, Load
<1>13. \A mem, at, n : C!Image(mem, at, n) = Image(mem, at, n)
  BY Zenon DEF C!Image, Image
<1>14. C!NewMachine = NewMachine
  BY <1>1, Zenon DEF C!NewMachine, NewMachine, C!Registers, Registers
<1> QED
  BY <1>1, <1>9, <1>10, <1>11, <1>12, <1>13, <1>14

-----------------------------------------------------------------------------
(* What one step may do to the Monitor, as far as the invariants care. *)

\* Memory or a register, and nothing else, or nothing at all.
Touches == /\ \/ machine' = machine
              \/ \E w : machine' = [machine EXCEPT !.mem = w]
              \/ \E w : machine' = [machine EXCEPT !.x = w]
           /\ torn' = torn /\ UNCHANGED <<tables, trail, disk>>

\* A breakpoint or a watchpoint more or less.
Tabulates == /\ \/ \E at : /\ breaks' = Adding(breaks, at, ids.break)
                           /\ ids' = [ids EXCEPT !.break = @ + 1] /\ UNCHANGED watches
                \/ \E w : /\ watches' = Adding(watches, ids.watch, w)
                          /\ ids' = [ids EXCEPT !.watch = @ + 1] /\ UNCHANGED breaks
                \/ \E at : breaks' = Without(breaks, at) /\ UNCHANGED <<watches, ids>>
                \/ \E id : watches' = Without(watches, id) /\ UNCHANGED <<breaks, ids>>
             /\ torn' = torn /\ UNCHANGED <<machine, trail, disk>>

\* A new machine with empty tables, or with the tables of the old one.
Restarts == /\ MachineOK(machine') /\ machine'.live = <<>>
            /\ history' = <<>> /\ frames' = <<>>
            /\ breaks' = EmptyFunction /\ watches' = EmptyFunction /\ UNCHANGED <<ids, disk>>
            /\ torn' = torn \ {"history", "frames"}

Tears == /\ MachineOK(machine')
         /\ torn' = torn \cup {"history", "frames"} /\ UNCHANGED <<tables, trail, disk>>

Saves == /\ \/ /\ disk' = [disk EXCEPT !.snapshot = SnapshotBytes]
               /\ torn' = Copied(torn, "frames", "snapshot")
            \/ /\ disk' = [disk EXCEPT !.project = [kind |-> "project", source |-> source,
                                                    snapshot |-> SnapshotBytes]]
               /\ torn' = Copied(torn, "frames", "project")
         /\ UNCHANGED <<machine, tables, trail>>

Loads == /\ \/ /\ disk.snapshot # NoFile /\ ApplySnapshot(disk.snapshot)
               /\ torn' = Copied(torn \ {"history"}, "snapshot", "frames")
            \/ /\ disk.project # NoFile /\ ApplySnapshot(disk.project.snapshot)
               /\ torn' = Copied(torn \ {"history"}, "project", "frames")
         /\ UNCHANGED disk

Executes == Step(machine).ok /\ Retire /\ torn' = torn

MonitorMoves == Touches \/ Tabulates \/ Restarts \/ Tears \/ Saves \/ Loads \/ Executes

\* The new machine of assemble-program and of reset.
LEMMA FreshMachine ==
  ASSUME NEW mem, NEW pc, NEW m, m = [NewMachine EXCEPT !.mem = mem],
         NEW n, n = [m EXCEPT !.pc = pc]
  PROVE  MachineOK(m) /\ m.live = <<>> /\ ~m.indirect /\ MachineOK(n) /\ n.live = <<>>
<1>1. MachineOK(m) /\ m.live = <<>> /\ ~m.indirect
  BY NewMachineOK, MemorySet DEF NewMachine
<1>2. n = [m EXCEPT !.pc = pc]
  OBVIOUS
<1>3. MachineOK(n) /\ n.live = <<>>
  BY ONLY <1>1, <1>2, Moved, SMTT(90)
<1> QED
  BY <1>1, <1>3

\* Every command is one of these moves.
LEMMA CommandMoves ==
  ASSUME NEW c, Execute(c), torn' = TornAfter(c, said')
  PROVE  MonitorMoves
<1> USE DEF Answer
<1>1. ASSUME Refuse, c.name # "snapshot", c.name # "project-save"
      PROVE  c.name # "assemble-program" => Touches
  BY <1>1 DEF Refuse, Touches, TornAfter
<1>2. CASE c.name = "assemble" /\ Assemble(c.line)
  <2>1. torn' = torn
    BY <1>2 DEF TornAfter
  <2> QED
    BY <1>2, <2>1 DEF Assemble, Touches, MonitorMoves, tables
<1>3. CASE c.name = "assemble-program" /\ AssembleProgram(c.program)
  <2>1. CASE c.program \notin DOMAIN Programs
    BY <1>3, <2>1 DEF AssembleProgram, Touches, MonitorMoves, TornAfter
  <2>2. CASE c.program \in DOMAIN Programs
                /\ ~Fits(Programs[c.program].start, Programs[c.program].words)
    <3>1. PICK mem : machine' = [NewMachine EXCEPT !.mem = mem]
      BY <1>3, <2>2 DEF AssembleProgram
    <3>2. MachineOK(machine')
      BY <3>1, FreshMachine
    <3> QED
      BY <1>3, <2>2, <3>2 DEF AssembleProgram, Tears, MonitorMoves, TornAfter
  <2>3. CASE c.program \in DOMAIN Programs
                /\ Fits(Programs[c.program].start, Programs[c.program].words)
    <3>1. PICK mem, pc, m : m = [NewMachine EXCEPT !.mem = mem] /\ machine' = [m EXCEPT !.pc = pc]
      BY <1>3, <2>3 DEF AssembleProgram
    <3>2. MachineOK(machine') /\ machine'.live = <<>>
      BY <3>1, FreshMachine
    <3>3. torn' = torn \ {"history", "frames"}
      BY <1>3, <2>3 DEF AssembleProgram, TornAfter
    <3> QED
      BY <1>3, <2>3, <3>2, <3>3 DEF AssembleProgram, Restarts, MonitorMoves
  <2> QED
    BY <2>1, <2>2, <2>3
<1>4. CASE c.name = "set" /\ SetRegister(c.register, c.value)
  BY <1>1, <1>4 DEF SetRegister, Touches, MonitorMoves, TornAfter
<1>5. CASE c.name = "step" /\ StepOnce
  BY <1>1, <1>5 DEF StepOnce, Executes, MonitorMoves, TornAfter
<1>6. ASSUME NEW t, Start(t), c.name \in {"stepidp", "step-over", "step-out", "run", "continue"}
      PROVE  Touches
  BY <1>6 DEF Start, Touches, TornAfter
<1>7. CASE c.name = "stepidp" /\ StepState(c.count)
  BY <1>1, <1>6, <1>7 DEF StepState, MonitorMoves
<1>8. CASE c.name = "step-over" /\ StepOver
  BY <1>1, <1>6, <1>8 DEF StepOver, StepOnce, RunUntil, Executes, MonitorMoves, TornAfter
<1>9. CASE c.name = "step-out" /\ StepOut
  BY <1>1, <1>6, <1>9 DEF StepOut, RunUntil, MonitorMoves
<1>10. CASE (c.name = "run" /\ Run(c.count)) \/ (c.name = "continue" /\ Continue(c.count))
  BY <1>6, <1>10 DEF Run, Continue, MonitorMoves
<1>11. ASSUME NEW at, NEW words, WriteRange(at, words), c.name \in {"edit", "fill", "copy"}
       PROVE  Touches
  BY <1>1, <1>11 DEF WriteRange, Touches, TornAfter
<1>12. CASE \/ c.name = "edit" /\ EditMemory(c.at, c.word)
            \/ c.name = "fill" /\ FillMemory(c.at, c.count, c.word)
            \/ c.name = "copy" /\ CopyMemory(c.from, c.at, c.count)
  BY <1>1, <1>11, <1>12 DEF EditMemory, FillMemory, CopyMemory, MonitorMoves
<1>13. CASE c.name = "undo" /\ UndoMemory
  BY <1>1, <1>13 DEF UndoMemory, Touches, MonitorMoves, TornAfter
<1>14. CASE c.name = "break" /\ AddBreakpoint(c.at, c.condition)
  BY <1>1, <1>14 DEF AddBreakpoint, Touches, Tabulates, MonitorMoves, TornAfter
<1>15. CASE c.name = "watch" /\ AddWatchpoint(c.at, c.kind)
  BY <1>15 DEF AddWatchpoint, Tabulates, MonitorMoves, TornAfter
<1>16. CASE c.name = "delete break" /\ DeleteBreakpoint(c.id)
  BY <1>1, <1>16 DEF DeleteBreakpoint, Tabulates, MonitorMoves, TornAfter
<1>17. CASE c.name = "delete watch" /\ DeleteWatchpoint(c.id)
  BY <1>1, <1>17 DEF DeleteWatchpoint, Tabulates, MonitorMoves, TornAfter
<1>18. CASE c.name = "snapshot" /\ SaveSnapshot
  BY <1>18 DEF SaveSnapshot, Saves, MonitorMoves, TornAfter
<1>19. CASE c.name = "project-save" /\ SaveProject
  BY <1>19 DEF SaveProject, Saves, MonitorMoves, TornAfter
<1>20. CASE c.name = "restore" /\ RestoreSnapshot
  BY <1>1, <1>20 DEF RestoreSnapshot, Loads, MonitorMoves, TornAfter
<1>21. CASE c.name = "project-load" /\ LoadProject
  BY <1>1, <1>21 DEF LoadProject, Loads, MonitorMoves, TornAfter
<1>22. CASE c.name = "reset" /\ Reset
  BY <1>22, NewMachineOK DEF Reset, Restarts, MonitorMoves, TornAfter
<1> QED
  BY <1>2, <1>3, <1>4, <1>5, <1>7, <1>8, <1>9, <1>10, <1>12, <1>13, <1>14, <1>15, <1>16, <1>17,
     <1>18, <1>19, <1>20, <1>21, <1>22 DEF Execute

\* So is every turn of a running command, and a step of the console alone.
LEMMA TurnMoves ==
  ASSUME Turns, torn' = torn
  PROVE  MonitorMoves
<1> USE DEF Answer
<1>1. ASSUME NEW bypass, NEW next, Turn(bypass, next) PROVE MonitorMoves
  BY <1>1 DEF Turn, Refuse, Touches, Executes, MonitorMoves
<1>2. ASSUME NEW word, Ends(word) PROVE MonitorMoves
  BY <1>2 DEF Ends, Touches, MonitorMoves
<1>3. CASE RunTurn
  BY <1>1, <1>2, <1>3 DEF RunTurn
<1>4. CASE UntilTurn
  BY <1>1, <1>2, <1>4 DEF UntilTurn
<1>5. CASE StepStateTurn
  BY <1>2, <1>5 DEF StepStateTurn, Refuse, Touches, Executes, MonitorMoves
<1> QED
  BY <1>3, <1>4, <1>5 DEF Turns

LEMMA StepMoves ==
  ASSUME [DebugNext]_allVars
  PROVE  MonitorMoves
<1>1. CASE \E c \in Commands : Type(c)
  BY <1>1, CommandMoves DEF Type
<1>2. CASE TakeTurns
  BY <1>2, TurnMoves DEF TakeTurns, notes, vars, MonitorMoves, Touches, tables, trail
<1>3. CASE LinkLost
  BY <1>3 DEF LinkLost, notes, vars, MonitorMoves, Touches, tables, trail
<1>4. CASE UNCHANGED allVars
  BY <1>4 DEF allVars, notes, vars, MonitorMoves, Touches, tables, trail
<1> QED
  BY <1>1, <1>2, <1>3, <1>4 DEF DebugNext

-----------------------------------------------------------------------------
(* What one step may do to the console. *)

\* Memory and nothing else, or nothing at all; the link may be lost.
ConsoleTouches == /\ \/ cmachine' = cmachine
                     \/ \E w : cmachine' = [cmachine EXCEPT !.mem = w]
                  /\ link' \in {link, "down"} /\ (adrift => adrift')
                  /\ UNCHANGED <<remote, cache, cbreaks, cwatches, cids, chistory, csequence,
                                 cframes, cdisk>>

\* A breakpoint or a watchpoint more or less, or a number used up.
ConsoleTabulates ==
  /\ \/ \E at, b : /\ cbreaks' = C!Adding(cbreaks, at, b) /\ b.id = cids.break
                   /\ cids' = [cids EXCEPT !.break = @ + 1] /\ UNCHANGED cwatches
     \/ cids' = [cids EXCEPT !.break = @ + 1] /\ UNCHANGED <<cbreaks, cwatches>>
     \/ \E w : /\ cwatches' = C!Adding(cwatches, cids.watch, w)
               /\ cids' = [cids EXCEPT !.watch = @ + 1] /\ UNCHANGED cbreaks
     \/ \E at : cbreaks' = C!Without(cbreaks, at) /\ UNCHANGED <<cwatches, cids>>
     \/ \E id : cwatches' = C!Without(cwatches, id) /\ UNCHANGED <<cbreaks, cids>>
  /\ (adrift => adrift')
  /\ UNCHANGED <<C!target, C!trail, cdisk>>

ConsoleSaves ==
  /\ \/ C!SaveSession
     \/ cdisk' = [cdisk EXCEPT !.snapshot = [kind |-> "machine", machine |-> cmachine]]
  /\ (adrift => adrift')
  /\ UNCHANGED <<C!target, C!tables, C!trail>>

\* The frames come apart from the target, or the target from the frames.
ConsoleLoads ==
  /\ \/ /\ cdisk.project # NoFile
        /\ cbreaks' = cdisk.project.breaks /\ cwatches' = cdisk.project.watches
        /\ cids' = cdisk.project.ids
        /\ UNCHANGED C!target
     \/ /\ ~remote /\ cdisk.snapshot # NoFile
        /\ cmachine' = cdisk.snapshot.machine
        /\ UNCHANGED <<remote, link, cache, C!tables>>
  /\ chistory' = <<>> /\ csequence' = 1
  /\ adrift' /\ UNCHANGED cdisk

ConsoleExecutes == ~remote /\ Step(cmachine).ok /\ C!Retire /\ (adrift => adrift')

\* An instruction of the remote target, its answer heard or lost.
ConsoleSends ==
  /\ remote /\ cmachine' = C!RemoteStep
  /\ \/ cache' = C!Registers_(cmachine')
     \/ link' = "down"
  /\ (adrift => adrift')
  /\ UNCHANGED <<remote, cbreaks, cwatches, cids, chistory, csequence, cframes, cdisk>>

ConsoleMoves == \/ ConsoleTouches \/ ConsoleTabulates \/ ConsoleSaves \/ ConsoleLoads
                \/ ConsoleExecutes \/ ConsoleSends

\* What a remote instruction comes to, in a command or in a run.
LEMMA StoppedSends ==
  ASSUME NEW word, NEW next, C!Stopped(word, next), remote, adrift => adrift'
  PROVE  ConsoleSends
BY DEF C!Stopped, C!RemoteStepped, C!LostInStep, C!tables, C!trail, ConsoleSends

\* Every command is one of these moves.
LEMMA ConsoleCommandMoves ==
  ASSUME NEW c, C!Execute(c), adrift' = (adrift \/ c.name \in {"restore", "project-load"})
  PROVE  ConsoleMoves
<1> USE DEF C!Answer, C!target, C!tables, C!trail
<1>0. adrift => adrift'
  OBVIOUS
<1>1. ASSUME C!Refuse PROVE ConsoleMoves
  BY <1>0, <1>1 DEF C!Refuse, ConsoleTouches, ConsoleMoves
<1>2. ASSUME NEW at, NEW words, C!Write(at, words),
             UNCHANGED <<cbreaks, cwatches, cids, chistory, csequence, cframes, cdisk>>
      PROVE  ConsoleMoves
  BY <1>0, <1>2 DEF C!Write, ConsoleTouches, ConsoleMoves
<1>3. CASE c.name = "assemble" /\ C!Assemble(c.line)
  BY <1>0, <1>2, <1>3 DEF C!Assemble, ConsoleTouches, ConsoleMoves
<1>4. CASE c.name = "assemble-program" /\ C!AssembleProgram(c.program)
  BY <1>0, <1>2, <1>4 DEF C!AssembleProgram, ConsoleTouches, ConsoleMoves
<1>5. ASSUME C!StepOnce PROVE ConsoleMoves
  BY <1>0, <1>1, <1>5, StoppedSends, SameTarget
  DEF C!StepOnce, C!CanStep, ConsoleExecutes, ConsoleMoves
<1>6. ASSUME NEW t, C!Start(t) PROVE ConsoleMoves
  BY <1>0, <1>6 DEF C!Start, ConsoleTouches, ConsoleMoves
<1>7. CASE \/ c.name = "stepidp" /\ C!StepState(c.count)
           \/ c.name = "step-over" /\ C!StepOver
           \/ c.name = "step-out" /\ C!StepOut
           \/ c.name = "run" /\ C!Run(c.count)
           \/ c.name = "continue" /\ C!Continue(c.count)
  BY <1>1, <1>5, <1>6, <1>7 DEF C!StepState, C!StepOver, C!StepOut, C!RunUntil, C!Run, C!Continue
<1>8. ASSUME NEW at, NEW words, C!WriteRange(at, words) PROVE ConsoleMoves
  BY <1>1, <1>2, <1>8 DEF C!WriteRange
<1>9. CASE \/ c.name = "edit" /\ C!Edit(c.at, c.word)
           \/ c.name = "fill" /\ C!FillMemory(c.at, c.count, c.word)
           \/ c.name = "copy" /\ C!CopyMemory(c.from, c.at, c.count)
  BY <1>1, <1>2, <1>8, <1>9 DEF C!Edit, C!FillMemory, C!CopyMemory
<1>10. CASE c.name = "undo" /\ C!UndoEdit
  BY <1>0, <1>1, <1>2, <1>10 DEF C!UndoEdit, ConsoleTouches, ConsoleMoves
<1>11. CASE c.name = "break" /\ C!AddBreakpoint(c.at, c.condition)
  <2>1. CASE c.at \in DOMAIN cbreaks
    BY <1>1, <1>11, <2>1 DEF C!AddBreakpoint
  <2>2. CASE c.at \notin DOMAIN cbreaks /\ c.condition = "malformed"
    BY <1>0, <1>11, <2>2 DEF C!AddBreakpoint, ConsoleTabulates, ConsoleMoves
  <2>3. CASE c.at \notin DOMAIN cbreaks /\ c.condition # "malformed"
    <3>1. PICK b : b = [id |-> cids.break, condition |-> c.condition]
      OBVIOUS
    <3>2. b.id = cids.break
      BY <3>1
    <3>3. cbreaks' = C!Adding(cbreaks, c.at, b)
      BY <1>11, <2>3, <3>1 DEF C!AddBreakpoint
    <3> QED
      BY <1>0, <1>11, <2>3, <3>2, <3>3 DEF C!AddBreakpoint, ConsoleTabulates, ConsoleMoves
  <2> QED
    BY <2>1, <2>2, <2>3
<1>12. CASE c.name = "watch" /\ C!AddWatchpoint(c.at, c.kind)
  BY <1>0, <1>1, <1>12 DEF C!AddWatchpoint, ConsoleTabulates, ConsoleMoves
<1>13. CASE \/ c.name = "delete break" /\ C!DeleteBreakpoint(c.id)
            \/ c.name = "delete watch" /\ C!DeleteWatchpoint(c.id)
  BY <1>0, <1>1, <1>13 DEF C!DeleteBreakpoint, C!DeleteWatchpoint, ConsoleTabulates, ConsoleMoves
<1>14. CASE c.name = "snapshot" /\ C!SaveSnapshot
  BY <1>0, <1>1, <1>14 DEF C!SaveSnapshot, ConsoleSaves, ConsoleMoves
<1>15. CASE c.name = "project-save" /\ C!SaveSession
  BY <1>0, <1>15 DEF C!SaveSession, ConsoleSaves, ConsoleMoves
<1>16. CASE c.name = "restore" /\ C!RestoreSnapshot
  BY <1>1, <1>16 DEF C!RestoreSnapshot, ConsoleLoads, ConsoleMoves, C!NoFile, NoFile
<1>17. CASE c.name = "project-load" /\ C!LoadSession
  BY <1>1, <1>17 DEF C!LoadSession, ConsoleLoads, ConsoleMoves, C!NoFile, NoFile
<1> QED
  BY <1>1, <1>3, <1>4, <1>5, <1>7, <1>9, <1>10, <1>11, <1>12, <1>13, <1>14, <1>15, <1>16, <1>17
  DEF C!Execute

\* So is every turn of a running command.
LEMMA ConsoleTurnMoves ==
  ASSUME C!Turns, adrift' = adrift
  PROVE  ConsoleMoves
<1> USE DEF C!Answer, C!target, C!tables, C!trail
<1>1. ASSUME C!Refuse PROVE ConsoleMoves
  BY <1>1 DEF C!Refuse, ConsoleTouches, ConsoleMoves
<1>2. ASSUME NEW word, C!Ends(word) PROVE ConsoleMoves
  BY <1>2 DEF C!Ends, ConsoleTouches, ConsoleMoves
<1>3. ASSUME NEW bypass, NEW next, C!Turn(bypass, next) PROVE ConsoleMoves
  BY <1>1, <1>2, <1>3, StoppedSends, SameTarget
  DEF C!Turn, C!CanStep, ConsoleExecutes, ConsoleMoves
<1>4. CASE C!RunTurn
  BY <1>2, <1>3, <1>4 DEF C!RunTurn
<1>5. CASE C!UntilTurn
  BY <1>2, <1>3, <1>5 DEF C!UntilTurn
<1>6. CASE C!StepStateTurn
  BY <1>1, <1>2, <1>6, StoppedSends, SameTarget
  DEF C!StepStateTurn, C!CanStep, ConsoleExecutes, ConsoleMoves
<1> QED
  BY <1>4, <1>5, <1>6 DEF C!Turns

LEMMA ConsoleStepMoves ==
  ASSUME [DebugNext]_allVars
  PROVE  ConsoleMoves
<1>1. CASE \E c \in Commands : Type(c)
  BY <1>1, ConsoleCommandMoves DEF Type
<1>2. CASE TakeTurns
  BY <1>2, ConsoleTurnMoves DEF TakeTurns, notes, consoleVars, ConsoleMoves, ConsoleTouches
<1>3. CASE LinkLost
  BY <1>3 DEF LinkLost, C!LinkLost, notes, ConsoleMoves, ConsoleTouches, C!tables, C!trail
<1>4. CASE UNCHANGED allVars
  BY <1>4 DEF allVars, notes, consoleVars, ConsoleMoves, ConsoleTouches
<1> QED
  BY <1>1, <1>2, <1>3, <1>4 DEF DebugNext

-----------------------------------------------------------------------------
(* The invariants, in parts *)

FilesOK(d) == d = [snapshot |-> d.snapshot, project |-> d.project]

\* Every machine is one, the saved ones too.
MachinesOK ==
  /\ MachineOK(machine) /\ MachineOK(cmachine) /\ FilesOK(disk) /\ FilesOK(cdisk)
  /\ disk.snapshot # NoFile  => MachineOK(disk.snapshot.machine)
  /\ disk.project # NoFile   => MachineOK(disk.project.snapshot.machine)
  /\ cdisk.snapshot # NoFile => MachineOK(cdisk.snapshot.machine)

\* The numbers in use are below the next ones, each in use once.
Fresh(b, w, next) == /\ next \in [break : Nat, watch : Nat]
                     /\ \A at \in DOMAIN b : b[at] \in Nat /\ b[at] < next.break
                     /\ \A at, to \in DOMAIN b : b[at] = b[to] => at = to
                     /\ \A id \in DOMAIN w : id \in Nat /\ id < next.watch

Numbers(b) == [at \in DOMAIN b |-> b[at].id]

\* In the debuggers and in every file they may load.
NumbersFresh ==
  /\ Fresh(breaks, watches, ids)
  /\ disk.snapshot # NoFile => LET f == disk.snapshot IN Fresh(f.breaks, f.watches, f.ids)
  /\ disk.project # NoFile  => LET f == disk.project.snapshot IN Fresh(f.breaks, f.watches, f.ids)
  /\ Fresh(Numbers(cbreaks), cwatches, cids)
  /\ cdisk.project # NoFile => LET f == cdisk.project IN Fresh(Numbers(f.breaks), f.watches, f.ids)

\* The entries are the path to pc, the last with the number given.
Follows(h, pc, last) == IsPath(h, pc) /\ (h # <<>> => h[Len(h)].sequence = last)

\* The console numbers its entries itself, and a remote target leaves none.
HistoryFollows ==
  /\ IsSequence(history)
  /\ "history" \notin torn => Follows(history, machine.pc, machine.count)
  /\ IsSequence(chistory) /\ csequence \in Nat \ {0}
  /\ Follows(chistory, cmachine.pc, csequence - 1)
  /\ remote => chistory = <<>>

\* The frames in each file are the calls of the machine saved with them.
FramesFollow ==
  /\ "frames" \notin torn /\ ~machine.indirect => frames = machine.live
  /\ disk.snapshot # NoFile /\ "snapshot" \notin torn /\ ~disk.snapshot.machine.indirect
       => disk.snapshot.frames = disk.snapshot.machine.live
  /\ disk.project # NoFile /\ "project" \notin torn /\ ~disk.project.snapshot.machine.indirect
       => disk.project.snapshot.frames = disk.project.snapshot.machine.live
  /\ ~remote /\ ~adrift /\ ~cmachine.indirect => cframes = cmachine.live

\* While the link holds the copy of the registers is the target's registers.
CacheFollows == remote /\ link = "up" => cache = C!Registers_(cmachine)

\* EXCEPT on the files.
LEMMA FileWritten ==
  ASSUME NEW d, FilesOK(d), NEW file, NEW e
  PROVE  /\ e = [d EXCEPT !.snapshot = file] => FilesOK(e) /\ e.snapshot = file /\ e.project = d.project
         /\ e = [d EXCEPT !.project = file]  => FilesOK(e) /\ e.project = file /\ e.snapshot = d.snapshot
<1>1. ASSUME NEW x, NEW y, e = [snapshot |-> x, project |-> y]
      PROVE  FilesOK(e) /\ e.snapshot = x /\ e.project = y
  BY <1>1 DEF FilesOK
<1>2. ASSUME e = [d EXCEPT !.snapshot = file]
      PROVE  e = [snapshot |-> file, project |-> d.project]
  BY <1>2 DEF FilesOK
<1>3. ASSUME e = [d EXCEPT !.project = file]
      PROVE  e = [snapshot |-> d.snapshot, project |-> file]
  BY <1>3 DEF FilesOK
<1> QED
  BY <1>1, <1>2, <1>3

\* The disk an earlier run has left.
LEMMA EarlierDisk ==
  ASSUME DebugInit
  PROVE  /\ FilesOK(disk) /\ FilesOK(cdisk) /\ disk.snapshot = NoFile /\ cdisk.snapshot = NoFile
         /\ disk.project = NoFile \/ disk.project = EarlierProject
         /\ cdisk.project = NoFile \/ cdisk.project = EarlierSession
<1>1. ASSUME NEW x, NEW y, NEW e, e = [snapshot |-> x, project |-> y]
      PROVE  FilesOK(e) /\ e.snapshot = x /\ e.project = y
  BY <1>1 DEF FilesOK
<1>2. \/ /\ disk = [snapshot |-> NoFile, project |-> NoFile]
         /\ cdisk = [snapshot |-> NoFile, project |-> NoFile]
      \/ /\ disk = [snapshot |-> NoFile, project |-> EarlierProject]
         /\ cdisk = [snapshot |-> NoFile, project |-> EarlierSession]
  BY DEF DebugInit
<1> QED
  BY <1>1, <1>2, Zenon

\* Memory or a register written leaves pc, count and calls alone.
LEMMA TouchKeeps ==
  ASSUME NEW m, MachineOK(m), NEW n,
         n = m \/ (\E w : n = [m EXCEPT !.mem = w]) \/ (\E w : n = [m EXCEPT !.x = w])
  PROVE  /\ MachineOK(n) /\ n.pc = m.pc /\ n.count = m.count
         /\ n.live = m.live /\ n.indirect = m.indirect
<1>1. CASE \E w : n = [m EXCEPT !.mem = w]
  BY <1>1, MemorySet
<1>2. CASE \E w : n = [m EXCEPT !.x = w]
  BY <1>2, RegistersSet
<1> QED
  BY <1>1, <1>2

LEMMA MachinesInit == DebugInit => MachinesOK
<1> SUFFICES ASSUME DebugInit PROVE MachinesOK
  OBVIOUS
<1>1. MachineOK(machine) /\ MachineOK(cmachine)
  BY NewMachineOK, SameTarget DEF DebugInit, Init, C!Init
<1>2. MachineOK(EarlierProject.snapshot.machine)
  <2>1. PICK m : m = [NewMachine EXCEPT !.mem = Load(@, 0, Programs[Earlier].words)]
    OBVIOUS
  <2>2. MachineOK(m)
    BY <2>1, FreshMachine
  <2>3. EarlierProject.snapshot.machine = m
    BY <2>1 DEF EarlierProject
  <2> QED
    BY <2>2, <2>3
<1> QED
  BY <1>1, <1>2, EarlierDisk DEF MachinesOK

\* An executed instruction of either, and of the remote target.
LEMMA RemoteStepOK ==
  ASSUME MachineOK(cmachine) PROVE MachineOK(C!RemoteStep)
<1>1. CASE Step(cmachine).ok
  BY <1>1, StepExecutes, SameTarget DEF C!RemoteStep
<1>2. CASE ~Step(cmachine).ok
  <2>1. PICK m : m = [cmachine EXCEPT !.pc = TrapVector]
    OBVIOUS
  <2>2. C!RemoteStep = m
    BY <1>2, <2>1, SameTarget DEF C!RemoteStep
  <2> QED
    BY <2>1, <2>2, Moved
<1> QED
  BY <1>1, <1>2

LEMMA MachinesStep ==
  ASSUME MachinesOK, [DebugNext]_allVars
  PROVE  MachinesOK'
<1>1. /\ MachineOK(machine') /\ FilesOK(disk')
      /\ disk'.snapshot # NoFile => MachineOK(disk'.snapshot.machine)
      /\ disk'.project # NoFile  => MachineOK(disk'.project.snapshot.machine)
  <2>1. CASE Touches
    <3>1. MachineOK(machine')
      <4>1. \/ machine' = machine \/ (\E w : machine' = [machine EXCEPT !.mem = w])
            \/ (\E w : machine' = [machine EXCEPT !.x = w])
        BY <2>1 DEF Touches
      <4> QED
        BY <4>1, TouchKeeps DEF MachinesOK
    <3> QED
      BY <2>1, <3>1 DEF Touches, MachinesOK
  <2>2. CASE Tabulates \/ Restarts \/ Tears
    BY <2>2 DEF Tabulates, Restarts, Tears, MachinesOK
  <2>3. CASE Saves
    <3>1. SnapshotBytes.machine = machine
      BY DEF SnapshotBytes
    <3>2. CASE disk' = [disk EXCEPT !.snapshot = SnapshotBytes]
      BY <2>3, <3>1, <3>2, FileWritten DEF Saves, MachinesOK
    <3>3. CASE disk' # [disk EXCEPT !.snapshot = SnapshotBytes]
      <4>1. PICK p : p = [kind |-> "project", source |-> source, snapshot |-> SnapshotBytes]
        OBVIOUS
      <4>2. p.snapshot = SnapshotBytes
        BY <4>1
      <4>3. disk' = [disk EXCEPT !.project = p] /\ machine' = machine
        BY <2>3, <3>3, <4>1 DEF Saves
      <4> QED
        BY <3>1, <4>2, <4>3, FileWritten DEF MachinesOK
    <3> QED
      BY <3>2, <3>3
  <2>4. CASE Loads
    BY <2>4 DEF Loads, ApplySnapshot, MachinesOK
  <2>5. CASE Executes
    BY <2>5, StepExecutes DEF Executes, Retire, MachinesOK
  <2> QED
    BY <2>1, <2>2, <2>3, <2>4, <2>5, StepMoves DEF MonitorMoves
<1>2. /\ MachineOK(cmachine') /\ FilesOK(cdisk')
      /\ cdisk'.snapshot # NoFile => MachineOK(cdisk'.snapshot.machine)
  <2>1. CASE ConsoleTouches
    BY <2>1, MemorySet DEF ConsoleTouches, MachinesOK
  <2>2. CASE ConsoleTabulates
    BY <2>2 DEF ConsoleTabulates, C!target, MachinesOK
  <2>3. CASE ConsoleSaves
    <3>1. PICK f, g : cdisk' = [cdisk EXCEPT !.project = f]
                       \/ (cdisk' = [cdisk EXCEPT !.snapshot = g] /\ g.machine = cmachine)
      <4>1. PICK g : g = [kind |-> "machine", machine |-> cmachine]
        OBVIOUS
      <4>2. g.machine = cmachine
        BY <4>1
      <4> QED
        BY <2>3, <4>1, <4>2 DEF ConsoleSaves, C!SaveSession
    <3> QED
      BY <2>3, <3>1, FileWritten DEF ConsoleSaves, C!target, MachinesOK
  <2>4. CASE ConsoleLoads
    BY <2>4 DEF ConsoleLoads, C!target, MachinesOK
  <2>5. CASE ConsoleExecutes
    BY <2>5, StepExecutes, SameTarget DEF ConsoleExecutes, C!Retire, MachinesOK
  <2>6. CASE ConsoleSends
    BY <2>6, RemoteStepOK DEF ConsoleSends, MachinesOK
  <2> QED
    BY <2>1, <2>2, <2>3, <2>4, <2>5, <2>6, ConsoleStepMoves DEF ConsoleMoves
<1> QED
  BY <1>1, <1>2 DEF MachinesOK, NoFile

\* The machines, running and saved, are machines in every state.
LEMMA MachinesInvariant == DebugSpec => []MachinesOK
BY MachinesInit, MachinesStep, PTL DEF DebugSpec

-----------------------------------------------------------------------------
(* The numbers *)

\* The console's tables are kept in the same way.
LEMMA SameTables == /\ \A f, a, v : C!Adding(f, a, v) = Adding(f, a, v)
                    /\ \A f, a : C!Without(f, a) = Without(f, a)
                    /\ C!EmptyFunction = EmptyFunction
BY DEF C!Adding, Adding, C!Without, Without, C!EmptyFunction, EmptyFunction

\* The next numbers, one of them used up.
LEMMA NextNumbers ==
  ASSUME NEW n \in [break : Nat, watch : Nat], NEW m
  PROVE  /\ m = [n EXCEPT !.break = @ + 1] =>
              m \in [break : Nat, watch : Nat] /\ m.break = n.break + 1 /\ m.watch = n.watch
         /\ m = [n EXCEPT !.watch = @ + 1] =>
              m \in [break : Nat, watch : Nat] /\ m.break = n.break /\ m.watch = n.watch + 1
OBVIOUS

\* A number is given once: nothing in the table has it yet.
LEMMA FreshBreak ==
  ASSUME NEW b, NEW w, NEW n, Fresh(b, w, n), NEW m, m = [n EXCEPT !.break = @ + 1], NEW at
  PROVE  Fresh(Adding(b, at, n.break), w, m) /\ Fresh(b, w, m)
<1> PICK d : d = Adding(b, at, n.break)
  OBVIOUS
<1>1. /\ m \in [break : Nat, watch : Nat] /\ m.break = n.break + 1 /\ m.watch = n.watch
      /\ n.break \in Nat
  BY NextNumbers DEF Fresh
<1>2. /\ DOMAIN d = DOMAIN b \cup {at} /\ d[at] = n.break
      /\ \A a \in DOMAIN b : a # at => d[a] = b[a]
  BY DEF Adding
<1>3. \A a \in DOMAIN b : b[a] \in Nat /\ b[a] < n.break /\ b[a] < m.break
  BY <1>1 DEF Fresh
<1>4. \A a \in DOMAIN d : d[a] \in Nat /\ d[a] < m.break
  BY <1>1, <1>2, <1>3
<1>5. \A a, c \in DOMAIN d : d[a] = d[c] => a = c
  BY <1>1, <1>2, <1>3 DEF Fresh
<1> QED
  BY <1>1, <1>3, <1>4, <1>5 DEF Fresh

LEMMA FreshWatch ==
  ASSUME NEW b, NEW w, NEW n, Fresh(b, w, n), NEW m, m = [n EXCEPT !.watch = @ + 1], NEW v
  PROVE  Fresh(b, Adding(w, n.watch, v), m)
<1>1. /\ m \in [break : Nat, watch : Nat] /\ m.watch = n.watch + 1 /\ m.break = n.break
      /\ n.watch \in Nat
  BY NextNumbers DEF Fresh
<1>2. DOMAIN Adding(w, n.watch, v) = DOMAIN w \cup {n.watch}
  BY DEF Adding
<1> QED
  BY <1>1, <1>2 DEF Fresh

\* Taking entries out, or all of them.
LEMMA FreshFewer ==
  ASSUME NEW b, NEW w, NEW n, Fresh(b, w, n), NEW a
  PROVE  /\ Fresh(Without(b, a), w, n) /\ Fresh(b, Without(w, a), n)
         /\ Fresh(EmptyFunction, EmptyFunction, n)
BY DEF Fresh, Without, EmptyFunction

\* The numbers in the console's table, where an entry holds its condition too.
LEMMA NumbersOf ==
  /\ \A b, at, e : Numbers(Adding(b, at, e)) = Adding(Numbers(b), at, e.id)
  /\ \A b, at : Numbers(Without(b, at)) = Without(Numbers(b), at)
  /\ Numbers(EmptyFunction) = EmptyFunction
BY DEF Numbers, Adding, Without, EmptyFunction

LEMMA NumbersInit == DebugInit => NumbersFresh
<1> SUFFICES ASSUME DebugInit PROVE NumbersFresh
  OBVIOUS
<1> PICK one : one = [break |-> 1, watch |-> 1]
  OBVIOUS
<1> PICK three : three = [break |-> 3, watch |-> 1]
  OBVIOUS
<1> PICK two : two = [at \in {1} |-> 2]
  OBVIOUS
<1>1. one \in [break : Nat, watch : Nat] /\ three \in [break : Nat, watch : Nat] /\ three.break = 3
  OBVIOUS
<1>2. Fresh(EmptyFunction, EmptyFunction, one)
  BY <1>1 DEF Fresh, EmptyFunction
<1>3. Fresh(two, EmptyFunction, three)
  BY <1>1 DEF Fresh, EmptyFunction
<1>4. /\ breaks = EmptyFunction /\ watches = EmptyFunction /\ ids = one
      /\ cbreaks = EmptyFunction /\ cwatches = EmptyFunction /\ cids = one
  BY SameTables DEF DebugInit, Init, C!Init
<1>5. /\ EarlierProject.snapshot.breaks = two /\ EarlierProject.snapshot.ids = three
      /\ EarlierProject.snapshot.watches = EmptyFunction
  BY DEF EarlierProject
<1>6. /\ Numbers(EarlierSession.breaks) = two /\ EarlierSession.ids = three
      /\ EarlierSession.watches = EmptyFunction
  BY DEF EarlierSession, Numbers
<1> QED
  BY <1>2, <1>3, <1>4, <1>5, <1>6, NumbersOf, EarlierDisk DEF NumbersFresh

LEMMA NumbersStep ==
  ASSUME MachinesOK, NumbersFresh, [DebugNext]_allVars
  PROVE  NumbersFresh'
<1> DEFINE Files(d) == /\ d.snapshot # NoFile => LET f == d.snapshot IN Fresh(f.breaks, f.watches, f.ids)
                       /\ d.project # NoFile  => LET f == d.project.snapshot IN
                                                   Fresh(f.breaks, f.watches, f.ids)
           Session(d) == d.project # NoFile => LET f == d.project IN
                                                   Fresh(Numbers(f.breaks), f.watches, f.ids)
<1>1. Fresh(breaks', watches', ids') /\ Files(disk')
  <2>1. CASE Touches \/ Tears
    BY <2>1 DEF Touches, Tears, tables, NumbersFresh
  <2>2. CASE Tabulates
    <3>1. Fresh(breaks', watches', ids')
      <4>1. CASE \E at : /\ breaks' = Adding(breaks, at, ids.break)
                         /\ ids' = [ids EXCEPT !.break = @ + 1] /\ UNCHANGED watches
        BY <4>1, FreshBreak DEF NumbersFresh
      <4>2. CASE \E w : /\ watches' = Adding(watches, ids.watch, w)
                        /\ ids' = [ids EXCEPT !.watch = @ + 1] /\ UNCHANGED breaks
        BY <4>2, FreshWatch DEF NumbersFresh
      <4>3. CASE \/ \E at : breaks' = Without(breaks, at) /\ UNCHANGED <<watches, ids>>
                 \/ \E id : watches' = Without(watches, id) /\ UNCHANGED <<breaks, ids>>
        BY <4>3, FreshFewer DEF NumbersFresh
      <4> QED
        BY <2>2, <4>1, <4>2, <4>3 DEF Tabulates
    <3> QED
      BY <2>2, <3>1 DEF Tabulates, NumbersFresh
  <2>3. CASE Restarts
    BY <2>3, FreshFewer DEF Restarts, NumbersFresh
  <2>4. CASE Saves
    <3>1. /\ SnapshotBytes.breaks = breaks /\ SnapshotBytes.watches = watches
          /\ SnapshotBytes.ids = ids
      BY DEF SnapshotBytes
    <3>2. PICK p : p = [kind |-> "project", source |-> source, snapshot |-> SnapshotBytes]
      OBVIOUS
    <3>3. p.snapshot = SnapshotBytes
      BY <3>2
    <3>4. disk' = [disk EXCEPT !.snapshot = SnapshotBytes] \/ disk' = [disk EXCEPT !.project = p]
      BY <2>4, <3>2 DEF Saves
    <3>5. Files(disk')
      BY <3>1, <3>3, <3>4, FileWritten DEF MachinesOK, NumbersFresh
    <3> QED
      BY <2>4, <3>5 DEF Saves, tables, NumbersFresh
  <2>5. CASE Loads
    BY <2>5 DEF Loads, ApplySnapshot, NumbersFresh
  <2>6. CASE Executes
    BY <2>6 DEF Executes, Retire, tables, NumbersFresh
  <2> QED
    BY <2>1, <2>2, <2>3, <2>4, <2>5, <2>6, StepMoves DEF MonitorMoves
<1>2. Fresh(Numbers(cbreaks'), cwatches', cids') /\ Session(cdisk')
  <2>1. CASE ConsoleTouches \/ ConsoleExecutes \/ ConsoleSends
    BY <2>1 DEF ConsoleTouches, ConsoleExecutes, ConsoleSends, C!Retire, C!tables, NumbersFresh
  <2>2. CASE ConsoleTabulates
    <3>1. Fresh(Numbers(cbreaks'), cwatches', cids')
      <4>1. CASE \E at, b : /\ cbreaks' = C!Adding(cbreaks, at, b) /\ b.id = cids.break
                            /\ cids' = [cids EXCEPT !.break = @ + 1] /\ UNCHANGED cwatches
        <5>1. PICK at, b : cbreaks' = Adding(cbreaks, at, b) /\ b.id = cids.break
          BY <4>1, SameTables
        <5>2. Numbers(Adding(cbreaks, at, b)) = Adding(Numbers(cbreaks), at, b.id)
          BY NumbersOf, Zenon
        <5>3. Numbers(cbreaks') = Adding(Numbers(cbreaks), at, cids.break)
          BY <5>1, <5>2
        <5> QED
          BY <4>1, <5>3, FreshBreak DEF NumbersFresh
      <4>2. CASE cids' = [cids EXCEPT !.break = @ + 1] /\ UNCHANGED <<cbreaks, cwatches>>
        BY <4>2, FreshBreak DEF NumbersFresh
      <4>3. CASE \E w : /\ cwatches' = C!Adding(cwatches, cids.watch, w)
                        /\ cids' = [cids EXCEPT !.watch = @ + 1] /\ UNCHANGED cbreaks
        BY <4>3, SameTables, FreshWatch DEF NumbersFresh
      <4>4. CASE \E at : cbreaks' = C!Without(cbreaks, at) /\ UNCHANGED <<cwatches, cids>>
        <5>1. PICK at : Numbers(cbreaks') = Without(Numbers(cbreaks), at)
          BY <4>4, SameTables, NumbersOf, Zenon
        <5> QED
          BY <4>4, <5>1, FreshFewer DEF NumbersFresh
      <4>5. CASE \E id : cwatches' = C!Without(cwatches, id) /\ UNCHANGED <<cbreaks, cids>>
        BY <4>5, SameTables, FreshFewer DEF NumbersFresh
      <4> QED
        BY <2>2, <4>1, <4>2, <4>3, <4>4, <4>5 DEF ConsoleTabulates
    <3> QED
      BY <2>2, <3>1 DEF ConsoleTabulates, NumbersFresh
  <2>3. CASE ConsoleSaves
    <3>1. PICK f : f = [kind |-> "session", source |-> csource, symbols |-> csymbols,
                        breaks |-> cbreaks, watches |-> cwatches, ids |-> cids, frames |-> cframes]
      OBVIOUS
    <3>2. f.breaks = cbreaks /\ f.watches = cwatches /\ f.ids = cids
      BY <3>1
    <3>3. PICK g : cdisk' = [cdisk EXCEPT !.project = f] \/ cdisk' = [cdisk EXCEPT !.snapshot = g]
      BY <2>3, <3>1 DEF ConsoleSaves, C!SaveSession
    <3>4. Session(cdisk')
      BY <3>2, <3>3, FileWritten DEF MachinesOK, NumbersFresh
    <3> QED
      BY <2>3, <3>4 DEF ConsoleSaves, C!tables, NumbersFresh
  <2>4. CASE ConsoleLoads
    BY <2>4 DEF ConsoleLoads, C!tables, NumbersFresh
  <2> QED
    BY <2>1, <2>2, <2>3, <2>4, ConsoleStepMoves DEF ConsoleMoves
<1> QED
  BY <1>1, <1>2 DEF NumbersFresh, NoFile, Numbers, Fresh

\* No number is ever given twice, whatever files are loaded in whatever order:
\* a number on the screen is below the next one, and names one breakpoint.
THEOREM HostIdsAreFresh == DebugSpec => []IdsAreFresh
<1>1. NumbersFresh => IdsAreFresh
  BY DEF NumbersFresh, Fresh, Numbers, IdsAreFresh
<1> QED
  BY <1>1, NumbersInit, NumbersStep, MachinesInvariant, PTL DEF DebugSpec

-----------------------------------------------------------------------------
(* The history *)

\* Forgetting the oldest entry leaves a path to the same place.
LEMMA PathForgets ==
  ASSUME NEW h, IsSequence(h), NEW pc, NEW last, Follows(h, pc, last)
  PROVE  IsSequence(Forgetting(h)) /\ Follows(Forgetting(h), pc, last)
<1>1. CASE Len(h) # MaxHistory
  BY <1>1 DEF Forgetting
<1>2. CASE Len(h) = MaxHistory
  <2>1. h # <<>>
    BY <1>2, Empty, MonitorAssumption
  <2> PICK g : g = Tail(h)
    OBVIOUS
  <2>2. /\ IsSequence(g) /\ Len(h) \in Nat \ {0} /\ Len(g) = Len(h) - 1
        /\ \A k \in 1 .. Len(h) - 1 : g[k] = h[k + 1]
    BY <2>1, Tailed
  <2>3. ASSUME NEW k \in 1 .. Len(g) - 1
        PROVE  g[k].after = g[k + 1].before /\ g[k + 1].sequence = g[k].sequence + 1
    <3>1. g[k] = h[k + 1] /\ g[k + 1] = h[k + 1 + 1] /\ k + 1 \in 1 .. Len(h) - 1
      BY <2>2
    <3> QED
      BY <3>1 DEF Follows, IsPath
  <2>4. ASSUME g # <<>> PROVE g[Len(g)] = h[Len(h)]
    <3>1. Len(g) \in 1 .. Len(h) - 1 /\ Len(g) + 1 = Len(h)
      BY <2>2, <2>4, NoEntries
    <3> QED
      BY <2>2, <3>1
  <2>5. Follows(g, pc, last)
    BY <2>1, <2>3, <2>4 DEF Follows, IsPath
  <2> QED
    BY <1>2, <2>2, <2>5 DEF Forgetting
<1> QED
  BY <1>1, <1>2

\* One more step from where the path ends.
LEMMA PathGrows ==
  ASSUME NEW h, IsSequence(h), NEW pc, NEW last \in Int, Follows(h, pc, last),
         NEW to, NEW next, next = last + 1,
         NEW e, e = [sequence |-> next, before |-> pc, after |-> to]
  PROVE  Follows(Append(Forgetting(h), e), to, next)
<1> PICK f : f = Forgetting(h)
  OBVIOUS
<1>1. IsSequence(f) /\ Follows(f, pc, last)
  BY PathForgets
<1> PICK g : g = Append(f, e)
  OBVIOUS
<1>2. /\ g # <<>> /\ Len(f) \in Nat /\ Len(g) = Len(f) + 1
      /\ \A k \in 1 .. Len(f) : g[k] = f[k]
      /\ g[Len(f) + 1] = e
  BY <1>1, Appended
<1>3. ASSUME NEW k \in 1 .. Len(g) - 1
      PROVE  g[k].after = g[k + 1].before /\ g[k + 1].sequence = g[k].sequence + 1
  <2>1. k \in 1 .. Len(f) /\ g[k] = f[k]
    BY <1>2
  <2>2. CASE k # Len(f)
    <3>1. k \in 1 .. Len(f) - 1 /\ k + 1 \in 1 .. Len(f)
      BY <1>2, <2>1, <2>2
    <3>2. g[k + 1] = f[k + 1]
      BY <1>2, <3>1
    <3> QED
      BY <1>1, <2>1, <3>1, <3>2 DEF Follows, IsPath
  <2>3. CASE k = Len(f)
    <3>1. f # <<>> /\ g[k + 1] = e
      BY <1>2, <2>1, <2>3, Empty
    <3>2. f[k].after = pc /\ f[k].sequence = last
      BY <1>1, <2>3, <3>1 DEF Follows, IsPath
    <3> QED
      BY <2>1, <3>1, <3>2
  <2> QED
    BY <2>2, <2>3
<1>4. g[Len(g)].after = to /\ g[Len(g)].sequence = next
  BY <1>2
<1> QED
  BY <1>3, <1>4 DEF Follows, IsPath

\* Nothing recorded is a path to anywhere.
LEMMA NoPath == \A pc, last : Follows(<<>>, pc, last)
BY Empty DEF Follows, IsPath

LEMMA HistoryInit == DebugInit => HistoryFollows
BY Empty, NoPath DEF DebugInit, Init, C!Init, HistoryFollows

LEMMA HistoryStep ==
  ASSUME MachinesOK, HistoryFollows, [DebugNext]_allVars
  PROVE  HistoryFollows'
<1>1. /\ IsSequence(history')
      /\ "history" \notin torn' => Follows(history', machine'.pc, machine'.count)
  <2>1. CASE Touches
    <3>1. machine'.pc = machine.pc /\ machine'.count = machine.count
      <4>1. \/ machine' = machine \/ (\E w : machine' = [machine EXCEPT !.mem = w])
            \/ (\E w : machine' = [machine EXCEPT !.x = w])
        BY <2>1 DEF Touches
      <4> QED
        BY <4>1, TouchKeeps DEF MachinesOK
    <3> QED
      BY <2>1, <3>1 DEF Touches, trail, HistoryFollows
  <2>2. CASE Tabulates
    BY <2>2 DEF Tabulates, trail, HistoryFollows
  <2>3. CASE Restarts \/ Loads
    BY <2>3, Empty, NoPath DEF Restarts, Loads, ApplySnapshot
  <2>4. CASE Tears
    BY <2>4 DEF Tears, trail, HistoryFollows
  <2>5. CASE Saves
    BY <2>5 DEF Saves, trail, Copied, HistoryFollows
  <2>6. CASE Executes
    <3> PICK e : e = [sequence |-> machine'.count, before |-> machine.pc, after |-> machine'.pc]
      OBVIOUS
    <3>1. history' = Append(Forgetting(history), e) /\ torn' = torn
      BY <2>6 DEF Executes, Retire, RecordRetired, Forgetting
    <3>2. machine'.count = machine.count + 1 /\ machine.count \in Int
      <4>1. MachineOK(machine) /\ Step(machine).ok /\ machine' = Step(machine).m
        BY <2>6 DEF Executes, Retire, MachinesOK
      <4>2. machine.count \in Int
        BY <4>1 DEF MachineOK
      <4> QED
        BY <4>1, <4>2, StepExecutes
    <3>3. IsSequence(Forgetting(history))
      BY Tailed, Empty, MonitorAssumption DEF Forgetting, HistoryFollows
    <3>4. IsSequence(history')
      BY <3>1, <3>3, Appended
    <3>5. ASSUME "history" \notin torn'
          PROVE  Follows(history', machine'.pc, machine'.count)
      <4>1. IsSequence(history) /\ Follows(history, machine.pc, machine.count)
        BY <3>1, <3>5 DEF HistoryFollows
      <4> QED
        BY <3>1, <3>2, <4>1, PathGrows
    <3> QED
      BY <3>4, <3>5
  <2> QED
    BY <2>1, <2>2, <2>3, <2>4, <2>5, <2>6, StepMoves DEF MonitorMoves
<1>2. /\ IsSequence(chistory') /\ csequence' \in Nat \ {0}
      /\ Follows(chistory', cmachine'.pc, csequence' - 1)
      /\ remote' => chistory' = <<>>
  <2>1. CASE ConsoleTouches
    <3>1. cmachine'.pc = cmachine.pc
      BY <2>1, TouchKeeps DEF ConsoleTouches, MachinesOK
    <3> QED
      BY <2>1, <3>1 DEF ConsoleTouches, HistoryFollows
  <2>2. CASE ConsoleTabulates
    BY <2>2 DEF ConsoleTabulates, C!target, C!trail, HistoryFollows
  <2>3. CASE ConsoleSaves
    BY <2>3 DEF ConsoleSaves, C!target, C!trail, HistoryFollows
  <2>4. CASE ConsoleLoads
    BY <2>4, Empty, NoPath DEF ConsoleLoads
  <2>5. CASE ConsoleExecutes
    <3> PICK e : e = [sequence |-> csequence, before |-> cmachine.pc, after |-> cmachine'.pc]
      OBVIOUS
    <3>1. /\ chistory' = Append(Forgetting(chistory), e) /\ csequence' = csequence + 1
          /\ remote' = remote /\ ~remote
      BY <2>5 DEF ConsoleExecutes, C!Retire, C!RecordRetired, Forgetting
    <3>2. PICK last : last = csequence - 1
      OBVIOUS
    <3>3. last \in Int /\ csequence = last + 1 /\ csequence' - 1 = csequence /\ csequence' \in Nat \ {0}
      BY <3>1, <3>2 DEF HistoryFollows
    <3>4. IsSequence(chistory) /\ Follows(chistory, cmachine.pc, last)
      BY <3>2 DEF HistoryFollows
    <3>5. Follows(chistory', cmachine'.pc, csequence)
      BY <3>1, <3>3, <3>4, PathGrows
    <3>6. IsSequence(chistory')
      BY <3>1, <3>4, PathForgets, Appended
    <3> QED
      BY <3>1, <3>3, <3>5, <3>6
  <2>6. CASE ConsoleSends
    BY <2>6, NoPath, Empty DEF ConsoleSends, HistoryFollows
  <2> QED
    BY <2>1, <2>2, <2>3, <2>4, <2>5, <2>6, ConsoleStepMoves DEF ConsoleMoves
<1> QED
  BY <1>1, <1>2 DEF HistoryFollows, Follows, IsPath, IsSequence, Range

\* The history is one unbroken path to where the target is, through any load,
\* restore, reset or forgetting, unless a load failed half way.
THEOREM HostHistoryIsPath == DebugSpec => []HistoryIsPath
<1>1. HistoryFollows => HistoryIsPath
  BY DEF HistoryFollows, Follows, HistoryIsPath
<1> QED
  BY <1>1, HistoryInit, HistoryStep, MachinesInvariant, PTL DEF DebugSpec

-----------------------------------------------------------------------------
(* The frames *)

LEMMA FramesInit == DebugInit => FramesFollow
<1> SUFFICES ASSUME DebugInit PROVE FramesFollow
  OBVIOUS
<1>1. /\ machine.live = <<>> /\ frames = <<>> /\ cmachine.live = <<>> /\ cframes = <<>>
  BY NewMachineOK, SameTarget DEF DebugInit, Init, C!Init
<1>2. /\ EarlierProject.snapshot.machine.live = <<>>
      /\ EarlierProject.snapshot.frames = <<>>
  <2>1. PICK m : m = [NewMachine EXCEPT !.mem = Load(@, 0, Programs[Earlier].words)]
    OBVIOUS
  <2>2. m.live = <<>>
    BY <2>1, FreshMachine
  <2>3. EarlierProject.snapshot.machine = m /\ EarlierProject.snapshot.frames = <<>>
    BY <2>1 DEF EarlierProject
  <2> QED
    BY <2>2, <2>3
<1> QED
  BY <1>1, <1>2, EarlierDisk DEF FramesFollow

LEMMA FramesStep ==
  ASSUME MachinesOK, FramesFollow, [DebugNext]_allVars
  PROVE  FramesFollow'
<1> DEFINE Files(d, t) ==
      /\ d.snapshot # NoFile /\ "snapshot" \notin t /\ ~d.snapshot.machine.indirect
           => d.snapshot.frames = d.snapshot.machine.live
      /\ d.project # NoFile /\ "project" \notin t /\ ~d.project.snapshot.machine.indirect
           => d.project.snapshot.frames = d.project.snapshot.machine.live
<1>1. /\ "frames" \notin torn' /\ ~machine'.indirect => frames' = machine'.live
      /\ Files(disk', torn')
  <2>0. /\ "frames" \notin torn /\ ~machine.indirect => frames = machine.live
        /\ Files(disk, torn)
    BY DEF FramesFollow
  <2>1. CASE Touches
    <3>1. machine'.live = machine.live /\ machine'.indirect = machine.indirect
      <4>1. \/ machine' = machine \/ (\E w : machine' = [machine EXCEPT !.mem = w])
            \/ (\E w : machine' = [machine EXCEPT !.x = w])
        BY <2>1 DEF Touches
      <4> QED
        BY <4>1, TouchKeeps DEF MachinesOK
    <3> QED
      BY <2>0, <2>1, <3>1 DEF Touches, trail
  <2>2. CASE Tabulates
    BY <2>0, <2>2 DEF Tabulates, trail
  <2>3. CASE Restarts
    BY <2>0, <2>3 DEF Restarts
  <2>4. CASE Tears
    BY <2>0, <2>4 DEF Tears
  <2>5. CASE Saves
    <3> PICK bytes : bytes = SnapshotBytes
      OBVIOUS
    <3>1. bytes.frames = frames /\ bytes.machine = machine
      BY DEF SnapshotBytes
    <3> PICK p : p = [kind |-> "project", source |-> source, snapshot |-> bytes]
      OBVIOUS
    <3>2. p.snapshot = bytes
      OBVIOUS
    <3>3. machine' = machine /\ frames' = frames
      BY <2>5 DEF Saves, trail
    <3>4. CASE disk' = [disk EXCEPT !.snapshot = bytes] /\ torn' = Copied(torn, "frames", "snapshot")
      <4>1. disk'.snapshot = bytes /\ disk'.project = disk.project
        BY <3>4, FileWritten DEF MachinesOK
      <4>2. /\ "frames" \in torn' <=> "frames" \in torn
            /\ "snapshot" \in torn' <=> "frames" \in torn
            /\ "project" \in torn' <=> "project" \in torn
        BY <3>4 DEF Copied
      <4> QED
        BY <2>0, <3>1, <3>3, <4>1, <4>2
    <3>5. CASE disk' = [disk EXCEPT !.project = p] /\ torn' = Copied(torn, "frames", "project")
      <4>1. disk'.project = p /\ disk'.snapshot = disk.snapshot
        BY <3>5, FileWritten DEF MachinesOK
      <4>2. /\ "frames" \in torn' <=> "frames" \in torn
            /\ "project" \in torn' <=> "frames" \in torn
            /\ "snapshot" \in torn' <=> "snapshot" \in torn
        BY <3>5 DEF Copied
      <4> QED
        BY <2>0, <3>1, <3>2, <3>3, <4>1, <4>2
    <3> QED
      BY <2>5, <3>4, <3>5 DEF Saves
  <2>6. CASE Loads
    BY <2>0, <2>6 DEF Loads, ApplySnapshot, Copied
  <2>7. CASE Executes
    <3>1. /\ frames' = FramesAfter(machine, frames) /\ machine' = Step(machine).m
          /\ torn' = torn /\ disk' = disk /\ Step(machine).ok /\ MachineOK(machine)
      BY <2>7 DEF Executes, Retire, RecordRetired, FramesAfter, MachinesOK
    <3>2. ~machine'.indirect => /\ ~machine.indirect
                                /\ machine'.live = FramesAfter(machine, machine.live)
      BY <3>1, StepExecutes
    <3> QED
      BY <2>0, <3>1, <3>2
  <2> QED
    BY <2>1, <2>2, <2>3, <2>4, <2>5, <2>6, <2>7, StepMoves DEF MonitorMoves
<1>2. ~remote' /\ ~adrift' /\ ~cmachine'.indirect => cframes' = cmachine'.live
  <2>0. ~remote /\ ~adrift /\ ~cmachine.indirect => cframes = cmachine.live
    BY DEF FramesFollow
  <2>1. CASE ConsoleTouches
    <3>1. cmachine'.live = cmachine.live /\ cmachine'.indirect = cmachine.indirect
      BY <2>1, TouchKeeps DEF ConsoleTouches, MachinesOK
    <3> QED
      BY <2>0, <2>1, <3>1 DEF ConsoleTouches
  <2>2. CASE ConsoleTabulates \/ ConsoleSaves
    BY <2>0, <2>2 DEF ConsoleTabulates, ConsoleSaves, C!target, C!trail
  <2>3. CASE ConsoleLoads
    BY <2>3 DEF ConsoleLoads
  <2>4. CASE ConsoleExecutes
    <3>1. /\ cframes' = FramesAfter(cmachine, cframes) /\ cmachine' = Step(cmachine).m
          /\ (adrift => adrift') /\ remote' = remote /\ Step(cmachine).ok /\ MachineOK(cmachine)
      BY <2>4, SameTarget DEF ConsoleExecutes, C!Retire, C!RecordRetired, FramesAfter, MachinesOK
    <3>2. ~cmachine'.indirect => /\ ~cmachine.indirect
                                 /\ cmachine'.live = FramesAfter(cmachine, cmachine.live)
      BY <3>1, StepExecutes
    <3> QED
      BY <2>0, <3>1, <3>2
  <2>5. CASE ConsoleSends
    BY <2>5 DEF ConsoleSends
  <2> QED
    BY <2>1, <2>2, <2>3, <2>4, <2>5, ConsoleStepMoves DEF ConsoleMoves
<1> QED
  BY <1>1, <1>2 DEF FramesFollow, NoFile

\* The frames the Monitor shows are the calls the program is inside, through
\* every save, restore and reset of whatever machine they were saved with.
THEOREM HostFramesAreCalls == DebugSpec => []FramesAreCalls
<1>1. FramesFollow => FramesAreCalls
  BY DEF FramesFollow, FramesAreCalls
<1> QED
  BY <1>1, FramesInit, FramesStep, MachinesInvariant, PTL DEF DebugSpec

-----------------------------------------------------------------------------
(* Where a run stops *)

\* The three kinds of task.
RunTask(t)   == /\ t.kind = "run"
                /\ t = [kind |-> "run", op |-> t.op, left |-> t.left, began |-> t.began,
                        bypass |-> t.bypass]
UntilTask(t) == /\ t.kind = "until"
                /\ t = [kind |-> "until", op |-> t.op, target |-> t.target, from |-> t.from,
                        left |-> t.left, began |-> t.began, depth |-> t.depth]
StateTask(t) == t.kind = "stepidp" /\ t = [kind |-> "stepidp", op |-> t.op, left |-> t.left]

\* A task passes a breakpoint only while nothing has been executed: `progress`
\* is what an "until" task compares with what it started `from`.
TaskFollows(t, count, progress) ==
  \/ t = Idle
  \/ StateTask(t)
  \/ /\ RunTask(t)
     /\ t.bypass => t.op = "continue" /\ count = t.began
  \/ /\ UntilTask(t) /\ t.op \in {"step-over", "step-out"}
     /\ t.from \in Nat /\ t.from <= progress
     /\ progress = t.from => count = t.began

TasksFollow == /\ TaskFollows(task, machine.count, machine.count)
               /\ TaskFollows(ctask, cmachine.count, csequence)

\* A record of one kind is none of another.
LEMMA Kinds ==
  /\ Idle.kind = "idle" /\ C!Idle = Idle
  /\ \A t : StateTask(t) => t # Idle
  /\ \A t : RunTask(t) => t # Idle
  /\ \A t : UntilTask(t) => t # Idle
BY DEF Idle, C!Idle, StateTask, RunTask, UntilTask

\* The tasks the commands start.
LEMMA RunStarts ==
  ASSUME NEW op, NEW left, NEW began, NEW bypass, NEW t,
         t = [kind |-> "run", op |-> op, left |-> left, began |-> began, bypass |-> bypass]
  PROVE  RunTask(t) /\ t.op = op /\ t.left = left /\ t.began = began /\ t.bypass = bypass
BY DEF RunTask

LEMMA UntilStarts ==
  ASSUME NEW op, NEW target, NEW from, NEW left, NEW began, NEW depth, NEW t,
         t = [kind |-> "until", op |-> op, target |-> target, from |-> from,
              left |-> left, began |-> began, depth |-> depth]
  PROVE  /\ UntilTask(t) /\ t.op = op /\ t.target = target /\ t.from = from
         /\ t.left = left /\ t.began = began /\ t.depth = depth
BY DEF UntilTask

LEMMA StateStarts ==
  ASSUME NEW op, NEW left, NEW t, t = [kind |-> "stepidp", op |-> op, left |-> left]
  PROVE  StateTask(t) /\ t.op = op /\ t.left = left
BY DEF StateTask

\* And what a turn leaves of them.
LEMMA RunTurned ==
  ASSUME NEW t, RunTask(t), NEW l, NEW u, u = [t EXCEPT !.left = l, !.bypass = FALSE]
  PROVE  RunTask(u) /\ u.op = t.op /\ u.began = t.began /\ ~u.bypass /\ u.left = l
<1> PICK op, began, no : op = t.op /\ began = t.began /\ no = FALSE
  OBVIOUS
<1>1. u = [kind |-> "run", op |-> op, left |-> l, began |-> began, bypass |-> no]
  BY DEF RunTask
<1>2. RunTask(u) /\ u.op = op /\ u.left = l /\ u.began = began /\ u.bypass = no
  BY ONLY <1>1, RunStarts
<1> QED
  BY <1>2, Zenon

LEMMA UntilTurned ==
  ASSUME NEW t, UntilTask(t), NEW l, NEW u, u = [t EXCEPT !.left = l]
  PROVE  /\ UntilTask(u) /\ u.op = t.op /\ u.target = t.target /\ u.from = t.from
         /\ u.left = l /\ u.began = t.began /\ u.depth = t.depth
<1> PICK op, target, from, began, depth :
       /\ op = t.op /\ target = t.target /\ from = t.from
       /\ began = t.began /\ depth = t.depth
  OBVIOUS
<1>1. u = [kind |-> "until", op |-> op, target |-> target, from |-> from,
           left |-> l, began |-> began, depth |-> depth]
  BY DEF UntilTask
<1>2. /\ UntilTask(u) /\ u.op = op /\ u.target = target /\ u.from = from
      /\ u.left = l /\ u.began = began /\ u.depth = depth
  BY ONLY <1>1, UntilStarts
<1> QED
  BY <1>2, Zenon

LEMMA StateTurned ==
  ASSUME NEW t, StateTask(t), NEW l, NEW u, u = [t EXCEPT !.left = l]
  PROVE  StateTask(u)
<1>1. u = [kind |-> "stepidp", op |-> t.op, left |-> l]
  BY DEF StateTask
<1> QED
  BY <1>1, StateStarts

LEMMA TasksInit == DebugInit => TasksFollow
BY Kinds DEF DebugInit, Init, C!Init, TasksFollow, TaskFollows

\* What the tasks say as soon as a command has been typed.
LEMMA CommandTasks ==
  ASSUME MachineOK(machine), NEW c, Execute(c)
  PROVE  TaskFollows(task', machine'.count, machine'.count)
<1> DEFINE Goal == TaskFollows(task', machine'.count, machine'.count)
<1>1. ASSUME NEW word, Answer(word) PROVE Goal
  BY <1>1 DEF Answer, TaskFollows
<1>2. ASSUME NEW n, NEW op, op \in {"run", "continue"}, NEW bypass, bypass => op = "continue",
             NEW t, t = [kind |-> "run", op |-> op, left |-> n, began |-> machine.count,
                         bypass |-> bypass],
             Start(t)
      PROVE  Goal
  <2>1. RunTask(t) /\ t.op = op /\ t.began = machine.count /\ t.bypass = bypass
    BY ONLY <1>2, RunStarts
  <2>2. task' = t /\ machine' = machine
    BY <1>2 DEF Start
  <2> QED
    BY <1>2, <2>1, <2>2 DEF TaskFollows
<1>3. ASSUME NEW op, op \in {"step-over", "step-out"}, NEW to, RunUntil(op, to) PROVE Goal
  <2> PICK t : t = [kind |-> "until", op |-> op, target |-> to, from |-> machine.count,
                    left |-> MaxRunSteps, began |-> machine.count, depth |-> Len(machine.live)]
    OBVIOUS
  <2>1. UntilTask(t) /\ t.op = op /\ t.from = machine.count /\ t.began = machine.count
    BY UntilStarts
  <2>2. task' = t /\ machine' = machine
    BY <1>3 DEF RunUntil, Start
  <2>3. machine.count \in Nat
    BY DEF MachineOK
  <2> QED
    BY <1>3, <2>1, <2>2, <2>3 DEF TaskFollows
<1>4. ASSUME NEW n, StepState(n) PROVE Goal
  <2> PICK t : t = [kind |-> "stepidp", op |-> "stepidp", left |-> n]
    OBVIOUS
  <2>1. StateTask(t)
    BY StateStarts
  <2>2. task' = t \/ Answer("error")
    BY <1>4 DEF StepState, Start, Refuse
  <2> QED
    BY <1>1, <2>1, <2>2 DEF TaskFollows
<1>5. ASSUME NEW n, Run(n) PROVE Goal
  BY <1>2, <1>5 DEF Run
<1>6. ASSUME NEW n, Continue(n) PROVE Goal
  <2> PICK bypass : bypass = (machine.pc \in DOMAIN breaks)
    OBVIOUS
  <2> PICK t : t = [kind |-> "run", op |-> "continue", left |-> n, began |-> machine.count,
                    bypass |-> bypass]
    OBVIOUS
  <2>1. Start(t)
    BY <1>6 DEF Continue
  <2> QED
    BY <1>2, <2>1
<1>7. CASE \/ c.name = "assemble" /\ Assemble(c.line)
           \/ c.name = "assemble-program" /\ AssembleProgram(c.program)
           \/ c.name = "set" /\ SetRegister(c.register, c.value)
           \/ c.name = "step" /\ StepOnce
           \/ c.name = "reset" /\ Reset
  <2>1. (\E word : Answer(word))
    BY <1>7 DEF Assemble, AssembleProgram, SetRegister, StepOnce, Reset, Refuse
  <2> QED
    BY <1>1, <2>1
<1>8. CASE \/ c.name = "edit" /\ EditMemory(c.at, c.word)
           \/ c.name = "fill" /\ FillMemory(c.at, c.count, c.word)
           \/ c.name = "copy" /\ CopyMemory(c.from, c.at, c.count)
           \/ c.name = "undo" /\ UndoMemory
  <2>1. (\E word : Answer(word))
    BY <1>8 DEF EditMemory, FillMemory, CopyMemory, WriteRange, UndoMemory, Refuse
  <2> QED
    BY <1>1, <2>1
<1>9. CASE \/ c.name = "break" /\ AddBreakpoint(c.at, c.condition)
           \/ c.name = "watch" /\ AddWatchpoint(c.at, c.kind)
           \/ c.name = "delete break" /\ DeleteBreakpoint(c.id)
           \/ c.name = "delete watch" /\ DeleteWatchpoint(c.id)
  <2>1. (\E word : Answer(word))
    BY <1>9 DEF AddBreakpoint, AddWatchpoint, DeleteBreakpoint, DeleteWatchpoint, Refuse
  <2> QED
    BY <1>1, <2>1
<1>10. CASE \/ c.name = "snapshot" /\ SaveSnapshot
            \/ c.name = "restore" /\ RestoreSnapshot
            \/ c.name = "project-save" /\ SaveProject
            \/ c.name = "project-load" /\ LoadProject
  <2>1. (\E word : Answer(word))
    BY <1>10 DEF SaveSnapshot, RestoreSnapshot, SaveProject, LoadProject, Refuse
  <2> QED
    BY <1>1, <2>1
<1>11. ASSUME StepOver PROVE Goal
  <2>1. (\E word : Answer(word)) \/ RunUntil("step-over", machine.pc + 1)
    BY <1>11 DEF StepOver, StepOnce, Refuse
  <2> QED
    BY <1>1, <1>3, <2>1
<1>12. ASSUME StepOut PROVE Goal
  <2>1. Answer("error") \/ RunUntil("step-out", frames[Len(frames)].return_pc)
    BY <1>12 DEF StepOut, Refuse
  <2> QED
    BY <1>1, <1>3, <2>1
<1>13. CASE \/ c.name = "stepidp" /\ StepState(c.count)
            \/ c.name = "step-over" /\ StepOver
            \/ c.name = "step-out" /\ StepOut
            \/ c.name = "run" /\ Run(c.count)
            \/ c.name = "continue" /\ Continue(c.count)
  BY <1>4, <1>5, <1>6, <1>11, <1>12, <1>13
<1> QED
  BY <1>7, <1>8, <1>9, <1>10, <1>13 DEF Execute

\* A turn that looks for a breakpoint either goes nowhere or executes one
\* instruction, whose breakpoint does not hold unless it is bypassed.
LEMMA TurnStops ==
  ASSUME NEW bypass, NEW next, Turn(bypass, next)
  PROVE  \/ machine' = machine /\ task' = Idle
         \/ /\ Step(machine).ok /\ machine' = Step(machine).m /\ task' \in {Idle, next}
            /\ bypass \/ ~(machine.pc \in DOMAIN breaks /\ Condition(machine.pc) = "holds")
BY DEF Turn, Answer, Refuse, Retire

\* What one instruction does to the count.
LEMMA Counting ==
  ASSUME NEW m, MachineOK(m), NEW n, n = Step(m).m, Step(m).ok
  PROVE  n.count = m.count + 1 /\ m.count \in Nat
BY StepExecutes DEF MachineOK

LEMMA TurnTasks ==
  ASSUME MachineOK(machine), TaskFollows(task, machine.count, machine.count), Turns
  PROVE  /\ TaskFollows(task', machine'.count, machine'.count)
         /\ machine'.count > machine.count /\ task.kind \in {"run", "until"}
              => ~PassesBreakpoint(task, machine, machine.pc \in DOMAIN breaks
                                                    /\ Condition(machine.pc) = "holds")
<1> PICK count, later : count = machine.count /\ later = machine'.count
  OBVIOUS
<1>0. count \in Nat
  BY DEF MachineOK
<1>1. ASSUME machine' = machine, task' = Idle
      PROVE  TaskFollows(task', later, later) /\ later = count
  BY <1>1 DEF TaskFollows
<1>2. ASSUME Step(machine).ok, machine' = Step(machine).m PROVE later = count + 1
  BY <1>2, Counting
<1>3. CASE RunTurn
  <2>1. RunTask(task) /\ (task.bypass => task.op = "continue" /\ count = task.began)
    BY <1>3 DEF RunTurn, TaskFollows, Idle, StateTask, UntilTask
  <2>2. CASE task.left = 0
    <3>1. machine' = machine /\ task' = Idle
      BY <1>3, <2>2 DEF RunTurn, Ends, Answer
    <3> QED
      BY <1>0, <1>1, <3>1
  <2>3. CASE task.left # 0
    <3> PICK left : left = task.left - 1
      OBVIOUS
    <3> PICK next : next = [task EXCEPT !.left = left, !.bypass = FALSE]
      OBVIOUS
    <3>1. RunTask(next) /\ ~next.bypass
      BY <2>1, RunTurned
    <3>2. Turn(task.bypass, next)
      BY <1>3, <2>3 DEF RunTurn
    <3>3. TaskFollows(next, later, later) /\ TaskFollows(Idle, later, later)
      BY <3>1 DEF TaskFollows
    <3>4. \/ machine' = machine /\ task' = Idle
          \/ /\ Step(machine).ok /\ machine' = Step(machine).m /\ task' \in {Idle, next}
             /\ task.bypass \/ ~(machine.pc \in DOMAIN breaks /\ Condition(machine.pc) = "holds")
      BY <3>2, TurnStops
    <3> QED
      BY <1>0, <1>1, <1>2, <2>1, <3>3, <3>4 DEF PassesBreakpoint
  <2> QED
    BY <2>2, <2>3
<1>4. CASE UntilTurn
  <2>1. /\ UntilTask(task) /\ task.op \in {"step-over", "step-out"}
        /\ task.from \in Nat /\ task.from <= count
        /\ count = task.from => count = task.began
    BY <1>4 DEF UntilTurn, TaskFollows, Idle, StateTask, RunTask
  <2>2. CASE task.left = 0 \/ (machine.pc = task.target /\ machine.count # task.from)
    <3>1. machine' = machine /\ task' = Idle
      BY <1>4, <2>2 DEF UntilTurn, Ends, Answer
    <3> QED
      BY <1>0, <1>1, <3>1
  <2>3. CASE task.left # 0 /\ ~(machine.pc = task.target /\ machine.count # task.from)
    <3> PICK left : left = task.left - 1
      OBVIOUS
    <3> PICK next : next = [task EXCEPT !.left = left]
      OBVIOUS
    <3> PICK bypass : bypass = (machine.count = task.from /\ machine.pc \in DOMAIN breaks)
      OBVIOUS
    <3>1. UntilTask(next) /\ next.op = task.op /\ next.from = task.from /\ next.began = task.began
      BY <2>1, UntilTurned
    <3>2. Turn(bypass, next)
      BY <1>4, <2>3 DEF UntilTurn
    <3>3. TaskFollows(Idle, later, later) /\ (later = count + 1 => TaskFollows(next, later, later))
      BY <1>0, <2>1, <3>1 DEF TaskFollows
    <3>4. \/ machine' = machine /\ task' = Idle
          \/ /\ Step(machine).ok /\ machine' = Step(machine).m /\ task' \in {Idle, next}
             /\ bypass \/ ~(machine.pc \in DOMAIN breaks /\ Condition(machine.pc) = "holds")
      BY <3>2, TurnStops
    <3>5. bypass => machine.count = task.began
      BY <2>1
    <3>6. CASE machine' = machine /\ task' = Idle
      BY <1>0, <1>1, <3>6
    <3>7. CASE /\ Step(machine).ok /\ machine' = Step(machine).m /\ task' \in {Idle, next}
               /\ bypass \/ ~(machine.pc \in DOMAIN breaks /\ Condition(machine.pc) = "holds")
      <4>1. TaskFollows(task', machine'.count, machine'.count)
        BY <1>2, <3>3, <3>7
      <4>2. ~PassesBreakpoint(task, machine, machine.pc \in DOMAIN breaks
                                               /\ Condition(machine.pc) = "holds")
        BY <2>1, <3>5, <3>7, Zenon DEF PassesBreakpoint
      <4> QED
        BY <4>1, <4>2
    <3> QED
      BY <3>4, <3>6, <3>7
  <2> QED
    BY <2>2, <2>3
<1>5. CASE StepStateTurn
  <2>1. StateTask(task)
    BY <1>5 DEF StepStateTurn, TaskFollows, Idle, RunTask, UntilTask
  <2> PICK left : left = task.left - 1
    OBVIOUS
  <2> PICK next : next = [task EXCEPT !.left = left]
    OBVIOUS
  <2>2. StateTask(next)
    BY <2>1, StateTurned
  <2>3. task' \in {Idle, next}
    BY <1>5 DEF StepStateTurn, Ends, Refuse, Answer
  <2> QED
    BY <1>5, <2>2, <2>3 DEF StepStateTurn, TaskFollows
<1> QED
  BY <1>3, <1>4, <1>5 DEF Turns

\* The console's registers are the target's whenever it can reach it.
LEMMA CacheInit == DebugInit => CacheFollows
BY SameTarget DEF DebugInit, C!Init, CacheFollows

LEMMA CacheStep ==
  ASSUME MachinesOK, CacheFollows, [DebugNext]_allVars
  PROVE  CacheFollows'
<1>1. CASE ConsoleTouches
  <2>1. cmachine'.pc = cmachine.pc /\ cmachine'.x = cmachine.x
    BY <1>1, MemorySet DEF ConsoleTouches, MachinesOK
  <2>2. C!Registers_(cmachine)' = C!Registers_(cmachine)
    BY <2>1 DEF C!Registers_
  <2> QED
    BY <1>1, <2>2 DEF ConsoleTouches, CacheFollows
<1>2. CASE ConsoleTabulates \/ ConsoleSaves
  BY <1>2 DEF ConsoleTabulates, ConsoleSaves, C!target, CacheFollows, C!Registers_
<1>3. CASE ConsoleLoads
  BY <1>3 DEF ConsoleLoads, C!target, CacheFollows, C!Registers_
<1>4. CASE ConsoleExecutes
  BY <1>4 DEF ConsoleExecutes, C!Retire, CacheFollows
<1>5. CASE ConsoleSends
  BY <1>5 DEF ConsoleSends, CacheFollows, C!Registers_
<1> QED
  BY <1>1, <1>2, <1>3, <1>4, <1>5, ConsoleStepMoves DEF ConsoleMoves

LEMMA CacheInvariant == DebugSpec => []CacheFollows
BY CacheInit, CacheStep, MachinesInvariant, PTL DEF DebugSpec

LEMMA ContextIs ==
  ASSUME CacheFollows, C!Reachable
  PROVE  C!Context.pc = cmachine.pc /\ C!Context.x = cmachine.x
BY DEF CacheFollows, C!Reachable, C!Context, C!Registers_

\* The same of the console.
LEMMA ConsoleCommandTasks ==
  ASSUME MachineOK(cmachine), csequence \in Nat, NEW c, C!Execute(c)
  PROVE  TaskFollows(ctask', cmachine'.count, csequence')
<1> DEFINE Goal == TaskFollows(ctask', cmachine'.count, csequence')
<1>1. ASSUME NEW word, C!Answer(word) PROVE Goal
  BY <1>1, Kinds DEF C!Answer, TaskFollows
<1>2. ASSUME NEW n, NEW op, op \in {"run", "continue"}, NEW bypass, bypass => op = "continue",
             NEW t, t = [kind |-> "run", op |-> op, left |-> n, began |-> cmachine.count,
                         bypass |-> bypass],
             C!Start(t)
      PROVE  Goal
  <2>1. RunTask(t) /\ t.op = op /\ t.began = cmachine.count /\ t.bypass = bypass
    BY ONLY <1>2, RunStarts
  <2>2. ctask' = t /\ cmachine' = cmachine
    BY <1>2 DEF C!Start, C!target
  <2> QED
    BY <1>2, <2>1, <2>2 DEF TaskFollows
<1>3. ASSUME NEW op, op \in {"step-over", "step-out"}, NEW to, C!RunUntil(op, to) PROVE Goal
  <2> PICK t : t = [kind |-> "until", op |-> op, target |-> to, from |-> csequence,
                    left |-> MaxRunSteps, began |-> cmachine.count, depth |-> Len(cmachine.live)]
    OBVIOUS
  <2>1. UntilTask(t) /\ t.op = op /\ t.from = csequence /\ t.began = cmachine.count
    BY UntilStarts
  <2>2. ctask' = t /\ cmachine' = cmachine /\ csequence' = csequence
    BY <1>3 DEF C!RunUntil, C!Start, C!target, C!trail
  <2> QED
    BY <1>3, <2>1, <2>2 DEF TaskFollows
<1>4. ASSUME NEW n, C!StepState(n) PROVE Goal
  <2> PICK t : t = [kind |-> "stepidp", op |-> "stepidp", left |-> n]
    OBVIOUS
  <2>1. StateTask(t)
    BY StateStarts
  <2>2. ctask' = t \/ C!Answer("error")
    BY <1>4 DEF C!StepState, C!Start, C!Refuse
  <2> QED
    BY <1>1, <2>1, <2>2 DEF TaskFollows
<1>5. ASSUME NEW n, C!Run(n) PROVE Goal
  BY <1>2, <1>5 DEF C!Run
<1>6. ASSUME NEW n, C!Continue(n) PROVE Goal
  <2> PICK bypass : bypass = (C!Context.pc \in DOMAIN cbreaks)
    OBVIOUS
  <2> PICK t : t = [kind |-> "run", op |-> "continue", left |-> n, began |-> cmachine.count,
                    bypass |-> bypass]
    OBVIOUS
  <2>1. C!Start(t)
    BY <1>6 DEF C!Continue
  <2> QED
    BY <1>2, <2>1
<1>7. ASSUME C!StepOnce PROVE ctask' = Idle
  BY <1>7, Kinds DEF C!StepOnce, C!Refuse, C!Stopped, C!LostInStep, C!Answer
<1>8. CASE \/ c.name = "assemble" /\ C!Assemble(c.line)
           \/ c.name = "assemble-program" /\ C!AssembleProgram(c.program)
           \/ c.name \in {"set", "reset"} /\ C!Refuse
  <2>1. (\E word : C!Answer(word))
    BY <1>8 DEF C!Assemble, C!AssembleProgram, C!Refuse
  <2> QED
    BY <1>1, <2>1
<1>9. CASE c.name = "step" /\ C!StepOnce
  BY <1>7, <1>9 DEF TaskFollows
<1>10. CASE \/ c.name = "edit" /\ C!Edit(c.at, c.word)
            \/ c.name = "fill" /\ C!FillMemory(c.at, c.count, c.word)
            \/ c.name = "copy" /\ C!CopyMemory(c.from, c.at, c.count)
            \/ c.name = "undo" /\ C!UndoEdit
  <2>1. (\E word : C!Answer(word))
    BY <1>10 DEF C!Edit, C!FillMemory, C!CopyMemory, C!WriteRange, C!UndoEdit, C!Refuse
  <2> QED
    BY <1>1, <2>1
<1>11. CASE \/ c.name = "break" /\ C!AddBreakpoint(c.at, c.condition)
            \/ c.name = "watch" /\ C!AddWatchpoint(c.at, c.kind)
            \/ c.name = "delete break" /\ C!DeleteBreakpoint(c.id)
            \/ c.name = "delete watch" /\ C!DeleteWatchpoint(c.id)
  <2>1. (\E word : C!Answer(word))
    BY <1>11 DEF C!AddBreakpoint, C!AddWatchpoint, C!DeleteBreakpoint, C!DeleteWatchpoint, C!Refuse
  <2> QED
    BY <1>1, <2>1
<1>12. CASE \/ c.name = "snapshot" /\ C!SaveSnapshot
            \/ c.name = "restore" /\ C!RestoreSnapshot
            \/ c.name = "project-save" /\ C!SaveSession
            \/ c.name = "project-load" /\ C!LoadSession
  <2>1. (\E word : C!Answer(word))
    BY <1>12 DEF C!SaveSnapshot, C!RestoreSnapshot, C!SaveSession, C!LoadSession, C!Refuse
  <2> QED
    BY <1>1, <2>1
<1>13. ASSUME C!StepOver PROVE Goal
  <2>1. \/ ctask' = Idle
        \/ C!Answer("error")
        \/ C!RunUntil("step-over", C!Context.pc + 1)
    BY <1>7, <1>13 DEF C!StepOver, C!Refuse
  <2> QED
    BY <1>1, <1>3, <2>1 DEF TaskFollows
<1>14. ASSUME C!StepOut PROVE Goal
  <2>1. C!Answer("error") \/ C!RunUntil("step-out", cframes[Len(cframes)].return_pc)
    BY <1>14 DEF C!StepOut, C!Refuse
  <2> QED
    BY <1>1, <1>3, <2>1
<1>15. CASE \/ c.name = "stepidp" /\ C!StepState(c.count)
            \/ c.name = "step-over" /\ C!StepOver
            \/ c.name = "step-out" /\ C!StepOut
            \/ c.name = "run" /\ C!Run(c.count)
            \/ c.name = "continue" /\ C!Continue(c.count)
  BY <1>4, <1>5, <1>6, <1>13, <1>14, <1>15
<1> QED
  BY <1>8, <1>9, <1>10, <1>11, <1>12, <1>15 DEF C!Execute

LEMMA ConsoleTurnStops ==
  ASSUME CacheFollows, NEW bypass, NEW next, C!Turn(bypass, next)
  PROVE  \/ cmachine' = cmachine /\ ctask' = Idle
         \/ /\ \/ ctask' = Idle
               \/ /\ Step(cmachine).ok /\ cmachine' = Step(cmachine).m
                  /\ csequence' = csequence + 1 /\ ctask' \in {Idle, next}
            /\ bypass \/ ~(cmachine.pc \in DOMAIN cbreaks /\ C!Condition(cmachine.pc) = "holds")
<1> DEFINE here == IF bypass \/ C!Context.pc \notin DOMAIN cbreaks THEN "fails"
                   ELSE C!Condition(C!Context.pc)
<1>1. CASE here = "holds"
  BY <1>1, Kinds DEF C!Turn, C!Ends, C!Answer, C!target
<1>2. CASE here # "holds" /\ (here = "error" \/ ~C!CanStep)
  BY <1>2, Kinds DEF C!Turn, C!Refuse, C!Answer, C!target
<1>3. CASE here # "holds" /\ here # "error" /\ C!CanStep
  <2>1. C!Context.pc = cmachine.pc
    BY <1>3, ContextIs DEF C!CanStep, C!CanFetch, C!CanAccess
  <2>2. bypass \/ ~(cmachine.pc \in DOMAIN cbreaks /\ C!Condition(cmachine.pc) = "holds")
    BY <1>3, <2>1
  <2>3. CASE remote
    <3>1. C!Stopped("stopped", C!Idle)
      BY <1>3, <2>3 DEF C!Turn
    <3>2. ctask' = Idle
      BY <3>1, Kinds DEF C!Stopped, C!LostInStep, C!Answer
    <3> QED
      BY <2>2, <3>2
  <2>4. CASE ~remote
    <3>1. Step(cmachine).ok
      BY <1>3, <2>4, SameTarget DEF C!CanStep
    <3>2. /\ cmachine' = Step(cmachine).m /\ csequence' = csequence + 1
          /\ ctask' \in {Idle, next}
      BY <1>3, <2>4, SameTarget, Kinds DEF C!Turn, C!Retire, C!RecordRetired, C!Answer
    <3> QED
      BY <2>2, <3>1, <3>2
  <2> QED
    BY <2>3, <2>4
<1> QED
  BY <1>1, <1>2, <1>3

LEMMA ConsoleTurnTasks ==
  ASSUME MachineOK(cmachine), csequence \in Nat, CacheFollows,
         TaskFollows(ctask, cmachine.count, csequence), C!Turns
  PROVE  /\ TaskFollows(ctask', cmachine'.count, csequence')
         /\ cmachine'.count > cmachine.count /\ ctask.kind \in {"run", "until"}
              => ~PassesBreakpoint(ctask, cmachine, cmachine.pc \in DOMAIN cbreaks
                                                      /\ C!Condition(cmachine.pc) = "holds")
<1> PICK count, later : count = cmachine.count /\ later = cmachine'.count
  OBVIOUS
<1> DEFINE Stops == cmachine.pc \in DOMAIN cbreaks /\ C!Condition(cmachine.pc) = "holds"
<1>0. count \in Nat
  BY DEF MachineOK
<1>1. TaskFollows(Idle, later, csequence')
  BY DEF TaskFollows
<1>2. ASSUME cmachine' = cmachine PROVE ~(later > count)
  BY <1>0, <1>2
<1>3. CASE C!RunTurn
  <2>1. RunTask(ctask) /\ (ctask.bypass => ctask.op = "continue" /\ count = ctask.began)
    BY <1>3 DEF C!RunTurn, TaskFollows, Idle, StateTask, UntilTask
  <2>2. CASE ctask.left = 0
    <3>1. cmachine' = cmachine /\ ctask' = Idle
      BY <1>3, <2>2, Kinds DEF C!RunTurn, C!Ends, C!Answer, C!target
    <3> QED
      BY <1>1, <1>2, <3>1
  <2>3. CASE ctask.left # 0
    <3> PICK left : left = ctask.left - 1
      OBVIOUS
    <3> PICK next : next = [ctask EXCEPT !.left = left, !.bypass = FALSE]
      OBVIOUS
    <3>1. RunTask(next) /\ ~next.bypass
      BY <2>1, RunTurned
    <3>2. C!Turn(ctask.bypass, next)
      BY <1>3, <2>3 DEF C!RunTurn
    <3>3. TaskFollows(next, later, csequence')
      BY <3>1 DEF TaskFollows
    <3>4. \/ cmachine' = cmachine /\ ctask' = Idle
          \/ ctask' \in {Idle, next} /\ (ctask.bypass \/ ~Stops)
      BY <3>2, ConsoleTurnStops
    <3>5. CASE cmachine' = cmachine /\ ctask' = Idle
      BY <1>1, <1>2, <3>5
    <3>6. CASE ctask' \in {Idle, next} /\ (ctask.bypass \/ ~Stops)
      <4>1. TaskFollows(ctask', cmachine'.count, csequence')
        BY <1>1, <3>3, <3>6
      <4>2. ~PassesBreakpoint(ctask, cmachine, Stops)
        BY <2>1, <3>6, Zenon DEF PassesBreakpoint
      <4> QED
        BY <4>1, <4>2
    <3> QED
      BY <3>4, <3>5, <3>6
  <2> QED
    BY <2>2, <2>3
<1>4. CASE C!UntilTurn
  <2>1. /\ UntilTask(ctask) /\ ctask.op \in {"step-over", "step-out"}
        /\ ctask.from \in Nat /\ ctask.from <= csequence
        /\ csequence = ctask.from => count = ctask.began
    BY <1>4 DEF C!UntilTurn, TaskFollows, Idle, StateTask, RunTask
  <2>2. CASE ctask.left = 0 \/ (C!Context.pc = ctask.target /\ csequence # ctask.from)
    <3>1. cmachine' = cmachine /\ ctask' = Idle
      BY <1>4, <2>2, Kinds DEF C!UntilTurn, C!Ends, C!Answer, C!target
    <3> QED
      BY <1>1, <1>2, <3>1
  <2>3. CASE ctask.left # 0 /\ ~(C!Context.pc = ctask.target /\ csequence # ctask.from)
    <3> PICK left : left = ctask.left - 1
      OBVIOUS
    <3> PICK next : next = [ctask EXCEPT !.left = left]
      OBVIOUS
    <3> PICK bypass : bypass = (csequence = ctask.from /\ C!Context.pc \in DOMAIN cbreaks)
      OBVIOUS
    <3>0. UntilTask(ctask) /\ next = [ctask EXCEPT !.left = left]
      BY <2>1
    <3>1. /\ UntilTask(next) /\ next.op = ctask.op /\ next.from = ctask.from
          /\ next.began = ctask.began
      BY ONLY <3>0, UntilTurned
    <3>2. C!Turn(bypass, next)
      BY <1>4, <2>3 DEF C!UntilTurn
    <3>3. csequence' = csequence + 1 => TaskFollows(next, later, csequence')
      BY <2>1, <3>1 DEF TaskFollows
    <3>4. \/ cmachine' = cmachine /\ ctask' = Idle
          \/ /\ ctask' = Idle \/ (csequence' = csequence + 1 /\ ctask' \in {Idle, next})
             /\ bypass \/ ~Stops
      BY <3>2, ConsoleTurnStops
    <3>5. bypass => count = ctask.began
      BY <2>1
    <3>6. CASE cmachine' = cmachine /\ ctask' = Idle
      BY <1>1, <1>2, <3>6
    <3>7. CASE /\ ctask' = Idle \/ (csequence' = csequence + 1 /\ ctask' \in {Idle, next})
               /\ bypass \/ ~Stops
      <4>1. TaskFollows(ctask', cmachine'.count, csequence')
        BY <1>1, <3>3, <3>7
      <4>2. ~PassesBreakpoint(ctask, cmachine, Stops)
        BY <2>1, <3>5, <3>7, Zenon DEF PassesBreakpoint
      <4> QED
        BY <4>1, <4>2
    <3> QED
      BY <3>4, <3>6, <3>7
  <2> QED
    BY <2>2, <2>3
<1>5. CASE C!StepStateTurn
  <2>1. StateTask(ctask)
    BY <1>5 DEF C!StepStateTurn, TaskFollows, Idle, RunTask, UntilTask
  <2> PICK left : left = ctask.left - 1
    OBVIOUS
  <2> PICK next : next = [ctask EXCEPT !.left = left]
    OBVIOUS
  <2>2. StateTask(next)
    BY <2>1, StateTurned
  <2>3. ctask' \in {Idle, next}
    BY <1>5, Kinds DEF C!StepStateTurn, C!Ends, C!Refuse, C!Answer, C!Stopped, C!LostInStep
  <2> QED
    BY <1>5, <2>2, <2>3 DEF C!StepStateTurn, TaskFollows
<1> QED
  BY <1>3, <1>4, <1>5 DEF C!Turns

\* Both tasks follow, and neither debugger passes a breakpoint that holds.
LEMMA TasksStep ==
  ASSUME MachinesOK, HistoryFollows, CacheFollows, TasksFollow, [DebugNext]_allVars
  PROVE  /\ TasksFollow'
         /\ machine'.count > machine.count /\ task.kind \in {"run", "until"}
              => ~PassesBreakpoint(task, machine, machine.pc \in DOMAIN breaks
                                                    /\ Condition(machine.pc) = "holds")
         /\ cmachine'.count > cmachine.count /\ ctask.kind \in {"run", "until"}
              => ~PassesBreakpoint(ctask, cmachine, cmachine.pc \in DOMAIN cbreaks
                                                      /\ C!Condition(cmachine.pc) = "holds")
<1>0. /\ MachineOK(machine) /\ machine.count \in Nat
      /\ MachineOK(cmachine) /\ cmachine.count \in Nat /\ csequence \in Nat
      /\ TaskFollows(task, machine.count, machine.count)
      /\ TaskFollows(ctask, cmachine.count, csequence)
  BY DEF MachinesOK, MachineOK, HistoryFollows, TasksFollow
<1>1. ASSUME task = Idle PROVE task.kind \notin {"run", "until"}
  BY <1>1, Kinds
<1>2. ASSUME ctask = Idle PROVE ctask.kind \notin {"run", "until"}
  BY <1>2, Kinds
<1>3. CASE \E c \in Commands : Type(c)
  <2> PICK c \in Commands : Execute(c) /\ C!Execute(c)
    BY <1>3 DEF Type
  <2>1. task = Idle /\ ctask = Idle
    BY Kinds DEF Execute, Ready, C!Execute, C!Ready
  <2>2. /\ TaskFollows(task', machine'.count, machine'.count)
        /\ TaskFollows(ctask', cmachine'.count, csequence')
    BY <1>0, CommandTasks, ConsoleCommandTasks
  <2> QED
    BY <1>1, <1>2, <2>1, <2>2 DEF TasksFollow
<1>4. ASSUME UNCHANGED vars
      PROVE  /\ TaskFollows(task', machine'.count, machine'.count)
             /\ ~(machine'.count > machine.count)
  BY <1>0, <1>4 DEF vars
<1>5. ASSUME UNCHANGED consoleVars
      PROVE  /\ TaskFollows(ctask', cmachine'.count, csequence')
             /\ ~(cmachine'.count > cmachine.count)
  BY <1>0, <1>5 DEF consoleVars
<1>6. CASE TakeTurns
  <2>1. (Turns \/ UNCHANGED vars) /\ (C!Turns \/ UNCHANGED consoleVars)
    BY <1>6 DEF TakeTurns
  <2>2. ASSUME Turns
        PROVE  /\ TaskFollows(task', machine'.count, machine'.count)
               /\ machine'.count > machine.count /\ task.kind \in {"run", "until"}
                    => ~PassesBreakpoint(task, machine, machine.pc \in DOMAIN breaks
                                                          /\ Condition(machine.pc) = "holds")
    BY <1>0, <2>2, TurnTasks
  <2>3. ASSUME C!Turns
        PROVE  /\ TaskFollows(ctask', cmachine'.count, csequence')
               /\ cmachine'.count > cmachine.count /\ ctask.kind \in {"run", "until"}
                    => ~PassesBreakpoint(ctask, cmachine, cmachine.pc \in DOMAIN cbreaks
                                                            /\ C!Condition(cmachine.pc) = "holds")
    BY <1>0, <2>3, ConsoleTurnTasks
  <2> QED
    BY <1>4, <1>5, <2>1, <2>2, <2>3 DEF TasksFollow
<1>7. CASE LinkLost
  <2>1. UNCHANGED vars /\ UNCHANGED <<cmachine, csequence, ctask>>
    BY <1>7 DEF LinkLost, C!LinkLost, C!trail
  <2> QED
    BY <1>0, <1>4, <2>1 DEF TasksFollow
<1>8. CASE UNCHANGED allVars
  BY <1>4, <1>5, <1>8 DEF allVars, TasksFollow
<1> QED
  BY <1>3, <1>6, <1>7, <1>8 DEF DebugNext

\* A run passes a breakpoint that holds only as the first instruction of a
\* command that resumes from it, in either debugger, over any target.
THEOREM HostBreakpointsStop == DebugSpec => BreakpointsStop
<1>1. /\ DebugInit => TasksFollow
      /\ MachinesOK /\ HistoryFollows /\ CacheFollows /\ TasksFollow /\ [DebugNext]_allVars
           => TasksFollow'
  BY TasksInit, TasksStep
<1>2. MachinesOK /\ HistoryFollows /\ CacheFollows /\ TasksFollow /\ [DebugNext]_allVars
        => [/\ machine'.count > machine.count /\ task.kind \in {"run", "until"}
                 => ~PassesBreakpoint(task, machine,
                                      machine.pc \in DOMAIN breaks /\ Condition(machine.pc) = "holds")
            /\ cmachine'.count > cmachine.count /\ ctask.kind \in {"run", "until"}
                 => ~PassesBreakpoint(ctask, cmachine,
                                      cmachine.pc \in DOMAIN cbreaks /\ C!Condition(cmachine.pc) = "holds")
           ]_allVars
  BY TasksStep
<1>3. DebugInit => HistoryFollows
  BY HistoryInit
<1>4. MachinesOK /\ HistoryFollows /\ [DebugNext]_allVars => HistoryFollows'
  BY HistoryStep
<1> QED
  BY <1>1, <1>2, <1>3, <1>4, CacheInvariant, MachinesInvariant, PTL DEF DebugSpec, BreakpointsStop

-----------------------------------------------------------------------------
(* The same debugger twice *)

\* The same task: each compares its own numbers, the console's one ahead.
SameTask(t, u) == \/ t = Idle /\ u = Idle
                  \/ StateTask(t) /\ u = t
                  \/ RunTask(t) /\ u = t
                  \/ UntilTask(t) /\ t.from \in Nat /\ u = [t EXCEPT !.from = @ + 1]

SameHistory(h, g) == /\ IsSequence(h) /\ IsSequence(g) /\ Len(h) = Len(g)
                     /\ \A k \in 1 .. Len(h) : g[k].before = h[k].before

\* The Monitor keeps the conditions apart, and only those that are not "always".
SameBreaks(b, conds, c) ==
  /\ DOMAIN c = DOMAIN b
  /\ DOMAIN conds \subseteq DOMAIN b
  /\ \A at \in DOMAIN b : /\ c[at].id = b[at]
                          /\ c[at].condition = IF at \in DOMAIN conds THEN conds[at] ELSE "always"
  /\ \A at \in DOMAIN conds : conds[at] # "always"

\* What was written lies in memory, so either debugger can put it back.
Undoable(u) == IsSequence(u) /\ \A k \in 1 .. Len(u) : InRange(u[k].address, Len(u[k].previous))

IsFunction(f) == f = [a \in DOMAIN f |-> f[a]]

Alike ==
  /\ ~remote
  /\ cmachine = machine /\ csource = source /\ csymbols = symbols /\ cframes = frames
  /\ cwatches = watches /\ IsFunction(watches) /\ cids = ids
  /\ cundo = undo /\ Undoable(undo)
  /\ csequence = machine.count + 1
  /\ SameHistory(history, chistory)
  /\ SameBreaks(breaks, conditions, cbreaks)
  /\ machine.count = 0 => history = <<>> /\ frames = <<>>
  /\ SameTask(task, ctask)

\* The two target interfaces come to the same.
LEMMA AlikeTarget ==
  ASSUME Alike
  PROVE  /\ C!Context.pc = machine.pc /\ C!Context.x = machine.x
         /\ \A at, n : C!CanAccess(at, n) <=> InRange(at, n)
         /\ C!CanFetch <=> machine.pc \in Addresses
         /\ C!CanStep <=> Step(machine).ok
         /\ \A access : C!WatchHit(access) <=> WatchHit(access)
<1>1. C!Context.pc = machine.pc /\ C!Context.x = machine.x
  BY DEF Alike, C!Context, C!Registers_
<1>2. \A at, n : C!CanAccess(at, n) <=> InRange(at, n)
  BY SameTarget DEF Alike, C!CanAccess, C!Reachable
<1>3. C!CanFetch <=> machine.pc \in Addresses
  BY <1>1, <1>2, WordsAssumption DEF C!CanFetch, InRange, Addresses
<1>4. Step(machine).ok => machine.pc \in Addresses
  BY DEF Step, Refused
<1>5. C!CanStep <=> Step(machine).ok
  BY <1>3, <1>4, SameTarget DEF C!CanStep, Alike
<1>6. \A access : C!WatchHit(access) <=> WatchHit(access)
  BY DEF C!WatchHit, WatchHit, Alike, C!NoAccess, NoAccess
<1> QED
  BY <1>1, <1>2, <1>3, <1>5, <1>6

\* So do the two ways of keeping a condition.
LEMMA SameCondition ==
  ASSUME Alike, NEW at \in DOMAIN breaks
  PROVE  C!Condition(at) = Condition(at)
<1>1. /\ cbreaks[at].condition = IF at \in DOMAIN conditions THEN conditions[at] ELSE "always"
      /\ at \in DOMAIN conditions => conditions[at] # "always"
  BY DEF Alike, SameBreaks
<1>2. C!Context.x = machine.x
  BY AlikeTarget
<1> QED
  BY <1>1, <1>2 DEF C!Condition, Condition

\* Nothing but memory, registers, sources and the undo list changes.
LEMMA AlikeKeeps ==
  ASSUME Alike, remote' = remote, cmachine' = machine', csource' = source',
         csymbols' = symbols', cundo' = undo', Undoable(undo)',
         machine'.count = machine.count, SameTask(task', ctask'),
         UNCHANGED <<tables, trail, C!tables, C!trail>>
  PROVE  Alike'
BY DEF Alike, tables, trail, C!tables, C!trail, IsFunction, SameBreaks, SameHistory, IsSequence, Range

\* Nor that, when both answer or both start the same task.
LEMMA AlikeStays ==
  ASSUME Alike, UNCHANGED <<machine, memory, tables, trail>>, SameTask(task', ctask'),
         UNCHANGED <<C!target, C!memory, C!tables, C!trail>>
  PROVE  Alike'
<1>1. /\ remote' = remote /\ cmachine' = machine' /\ csource' = source' /\ csymbols' = symbols'
      /\ cundo' = undo' /\ machine' = machine
  BY DEF Alike, memory, C!memory, C!target
<1>2. Undoable(undo)'
  BY DEF Alike, memory, Undoable, IsSequence, Range, InRange
<1> QED
  BY <1>1, <1>2, AlikeKeeps

LEMMA AlikeIdle == SameTask(Idle, Idle)
BY DEF SameTask

\* The histories grow and forget together.
LEMMA HistoriesGrow ==
  ASSUME NEW h, NEW g, SameHistory(h, g), NEW e, NEW d, d.before = e.before
  PROVE  SameHistory(Append(Forgetting(h), e), Append(Forgetting(g), d))
<1>1. SameHistory(Forgetting(h), Forgetting(g))
  <2>1. CASE Len(h) # MaxHistory
    BY <2>1 DEF Forgetting, SameHistory
  <2>2. CASE Len(h) = MaxHistory
    <3>1. h # <<>> /\ g # <<>> /\ IsSequence(h) /\ IsSequence(g) /\ Len(g) = Len(h)
      BY <2>2, Empty, MonitorAssumption DEF SameHistory
    <3>2. /\ IsSequence(Tail(h)) /\ Len(h) \in Nat \ {0} /\ Len(Tail(h)) = Len(h) - 1
          /\ \A k \in 1 .. Len(h) - 1 : Tail(h)[k] = h[k + 1]
      BY <3>1, Tailed
    <3>3. /\ IsSequence(Tail(g)) /\ Len(Tail(g)) = Len(g) - 1
          /\ \A k \in 1 .. Len(g) - 1 : Tail(g)[k] = g[k + 1]
      BY <3>1, Tailed
    <3>4. ASSUME NEW k \in 1 .. Len(Tail(h)) PROVE Tail(g)[k].before = Tail(h)[k].before
      BY <3>1, <3>2, <3>3 DEF SameHistory
    <3>5. SameHistory(Tail(h), Tail(g))
      BY <3>1, <3>2, <3>3, <3>4 DEF SameHistory
    <3> QED
      BY <2>2, <3>1, <3>5 DEF Forgetting
  <2> QED
    BY <2>1, <2>2
<1> PICK p, q : p = Forgetting(h) /\ q = Forgetting(g)
  OBVIOUS
<1>2. SameHistory(p, q)
  BY <1>1
<1>3. /\ IsSequence(Append(p, e)) /\ Len(p) \in Nat /\ Len(Append(p, e)) = Len(p) + 1
      /\ \A k \in 1 .. Len(p) : Append(p, e)[k] = p[k]
      /\ Append(p, e)[Len(p) + 1] = e
  BY <1>2, Appended DEF SameHistory
<1>4. /\ IsSequence(Append(q, d)) /\ Len(Append(q, d)) = Len(q) + 1
      /\ \A k \in 1 .. Len(q) : Append(q, d)[k] = q[k]
      /\ Append(q, d)[Len(q) + 1] = d
  BY <1>2, Appended DEF SameHistory
<1>5. ASSUME NEW k \in 1 .. Len(Append(p, e)) PROVE Append(q, d)[k].before = Append(p, e)[k].before
  BY <1>2, <1>3, <1>4 DEF SameHistory
<1>6. SameHistory(Append(p, e), Append(q, d))
  BY <1>2, <1>3, <1>4, <1>5 DEF SameHistory
<1> QED
  BY <1>6

\* One instruction of each.
LEMMA AlikeExecutes ==
  ASSUME MachineOK(machine), Alike, Step(machine).ok, Retire, C!Retire, SameTask(task', ctask')
  PROVE  Alike'
<1> PICK m : m = Step(machine).m
  OBVIOUS
<1>1. m.count = machine.count + 1 /\ machine.count \in Nat
  BY Counting
<1>2. /\ machine' = m /\ cmachine' = m /\ remote' = remote
      /\ UNCHANGED <<memory, tables, C!memory, C!tables>> /\ csequence' = csequence + 1
  BY SameTarget DEF Retire, C!Retire, C!RecordRetired, Alike
<1> PICK e : e = [sequence |-> m.count, before |-> machine.pc, after |-> m.pc]
  OBVIOUS
<1> PICK d : d = [sequence |-> csequence, before |-> machine.pc, after |-> m.pc]
  OBVIOUS
<1>3. history' = Append(Forgetting(history), e)
  BY DEF Retire, RecordRetired, Forgetting
<1>4. chistory' = Append(Forgetting(chistory), d)
  BY SameTarget DEF C!Retire, C!RecordRetired, Forgetting, Alike
<1>5. SameHistory(history', chistory')
  <2>1. d.before = e.before /\ SameHistory(history, chistory)
    BY DEF Alike
  <2> QED
    BY <1>3, <1>4, <2>1, HistoriesGrow
<1>6. cframes' = frames'
  <2>1. frames' = FramesAfter(machine, frames)
    BY DEF Retire, RecordRetired, FramesAfter
  <2>2. cframes' = FramesAfter(cmachine, cframes)
    BY DEF C!Retire, C!RecordRetired, FramesAfter
  <2> QED
    BY <2>1, <2>2 DEF Alike
<1>7. machine'.count # 0 /\ csequence' = machine'.count + 1
  BY <1>1, <1>2 DEF Alike
<1>8. /\ Undoable(undo') /\ IsFunction(watches') /\ SameBreaks(breaks', conditions', cbreaks')
      /\ cwatches' = watches' /\ cids' = ids' /\ cundo' = undo'
      /\ csource' = source' /\ csymbols' = symbols' /\ ~remote'
  BY <1>2 DEF Alike, memory, tables, C!memory, C!tables
<1>9. SameTask(task', ctask') /\ cmachine' = machine'
  BY <1>2
<1> QED
  BY <1>5, <1>6, <1>7, <1>8, <1>9
  DEF Alike, SameHistory, SameBreaks, SameTask, Undoable, InRange, IsFunction, IsSequence, Range,
      StateTask, RunTask, UntilTask

\* One turn of a run in each.
LEMMA AlikeTurn ==
  ASSUME MachineOK(machine), Alike, NEW bypass, NEW cbypass, bypass <=> cbypass,
         NEW next, NEW cnext, SameTask(next, cnext), Turn(bypass, next), C!Turn(cbypass, cnext)
  PROVE  Alike'
<1> DEFINE here  == IF bypass \/ machine.pc \notin DOMAIN breaks THEN "fails"
                    ELSE Condition(machine.pc)
           chere == IF cbypass \/ C!Context.pc \notin DOMAIN cbreaks THEN "fails"
                    ELSE C!Condition(C!Context.pc)
<1>1. chere = here
  BY AlikeTarget, SameCondition DEF Alike, SameBreaks
<1>2. CASE here = "holds" \/ here = "error" \/ ~Step(machine).ok
  <2>1. UNCHANGED <<machine, memory, tables, trail>> /\ task' = Idle
    BY <1>2 DEF Turn, Answer, Refuse
  <2>2. UNCHANGED <<C!target, C!memory, C!tables, C!trail>> /\ ctask' = Idle
    BY <1>1, <1>2, AlikeTarget, Kinds DEF C!Turn, C!Answer, C!Refuse, C!Ends
  <2> QED
    BY <2>1, <2>2, AlikeStays, AlikeIdle
<1>3. CASE here # "holds" /\ here # "error" /\ Step(machine).ok
  <2>1. Retire /\ task' = IF WatchHit(Step(machine).access) THEN Idle ELSE next
    BY <1>3 DEF Turn, Answer
  <2>2. C!Retire /\ ctask' = IF WatchHit(Step(machine).access) THEN Idle ELSE cnext
    <3>1. ~remote /\ cmachine = machine /\ C!CanStep
      BY <1>3, AlikeTarget DEF Alike
    <3>2. /\ C!Retire
          /\ IF C!WatchHit(C!Step(cmachine).access) THEN C!Answer("stopped")
             ELSE ctask' = cnext /\ UNCHANGED csaid
      BY <1>1, <1>3, <3>1 DEF C!Turn
    <3>3. C!WatchHit(C!Step(cmachine).access) <=> WatchHit(Step(machine).access)
      BY <3>1, AlikeTarget, SameTarget
    <3> QED
      BY <3>2, <3>3, Kinds DEF C!Answer
  <2>3. SameTask(task', ctask')
    BY <2>1, <2>2, AlikeIdle
  <2> QED
    BY <1>3, <2>1, <2>2, <2>3, AlikeExecutes
<1> QED
  BY <1>2, <1>3

\* The tasks after a turn, the same again.
LEMMA TasksTurned ==
  ASSUME NEW t, NEW u, SameTask(t, u), NEW left, left = t.left - 1
  PROVE  /\ RunTask(t)   => /\ u = t
                            /\ SameTask([t EXCEPT !.left = @ - 1, !.bypass = FALSE],
                                        [u EXCEPT !.left = @ - 1, !.bypass = FALSE])
         /\ StateTask(t) => /\ u = t
                            /\ SameTask([t EXCEPT !.left = @ - 1], [u EXCEPT !.left = @ - 1])
         /\ UntilTask(t) => /\ UntilTask(u) /\ t.from \in Nat /\ u.from = t.from + 1
                            /\ u.left = t.left /\ u.target = t.target /\ u.op = t.op
                            /\ SameTask([t EXCEPT !.left = @ - 1], [u EXCEPT !.left = @ - 1])
<1>1. ASSUME RunTask(t)
      PROVE  /\ u = t
             /\ SameTask([t EXCEPT !.left = @ - 1, !.bypass = FALSE],
                         [u EXCEPT !.left = @ - 1, !.bypass = FALSE])
  <2>1. u = t
    BY <1>1 DEF SameTask, Idle, RunTask, StateTask, UntilTask
  <2> PICK n : n = [t EXCEPT !.left = left, !.bypass = FALSE]
    OBVIOUS
  <2>2. RunTask(n)
    BY <1>1, RunTurned
  <2>3. SameTask(n, n)
    BY <2>2 DEF SameTask
  <2> QED
    BY <2>1, <2>3
<1>2. ASSUME StateTask(t)
      PROVE  u = t /\ SameTask([t EXCEPT !.left = @ - 1], [u EXCEPT !.left = @ - 1])
  <2>1. u = t
    BY <1>2 DEF SameTask, Idle, RunTask, StateTask, UntilTask
  <2> PICK n : n = [t EXCEPT !.left = left]
    OBVIOUS
  <2>2. StateTask(n)
    BY <1>2, StateTurned
  <2>3. SameTask(n, n)
    BY <2>2 DEF SameTask
  <2> QED
    BY <2>1, <2>3
<1>3. ASSUME UntilTask(t)
      PROVE  /\ UntilTask(u) /\ t.from \in Nat /\ u.from = t.from + 1
             /\ u.left = t.left /\ u.target = t.target /\ u.op = t.op
             /\ SameTask([t EXCEPT !.left = @ - 1], [u EXCEPT !.left = @ - 1])
  <2> PICK from : from = t.from + 1
    OBVIOUS
  <2>1. t.from \in Nat /\ u = [t EXCEPT !.from = from]
    BY <1>3 DEF SameTask, Idle, RunTask, StateTask, UntilTask
  <2> PICK op, target, start, began, depth, l :
        /\ op = t.op /\ target = t.target /\ start = t.from /\ l = t.left
        /\ began = t.began /\ depth = t.depth
    OBVIOUS
  <2>2. t = [kind |-> "until", op |-> op, target |-> target, from |-> start, left |-> l,
             began |-> began, depth |-> depth]
    BY <1>3 DEF UntilTask
  <2>3. u = [kind |-> "until", op |-> op, target |-> target, from |-> from, left |-> l,
             began |-> began, depth |-> depth]
    BY ONLY <2>1, <2>2
  <2>4. UntilTask(u) /\ u.from = from /\ u.left = l /\ u.target = target /\ u.op = op
    BY ONLY <2>3, UntilStarts
  <2> PICK n : n = [t EXCEPT !.left = left]
    OBVIOUS
  <2> PICK c : c = [u EXCEPT !.left = left]
    OBVIOUS
  <2>5. n = [kind |-> "until", op |-> op, target |-> target, from |-> start, left |-> left,
             began |-> began, depth |-> depth]
    BY <2>2
  <2>6. c = [kind |-> "until", op |-> op, target |-> target, from |-> from, left |-> left,
             began |-> began, depth |-> depth]
    BY <2>3
  <2>7. UntilTask(n) /\ n.from = start
    BY ONLY <2>5, UntilStarts
  <2>8. c = [n EXCEPT !.from = from]
    BY ONLY <2>5, <2>6
  <2>9. SameTask(n, c)
    BY <2>1, <2>7, <2>8 DEF SameTask
  <2>10. n = [t EXCEPT !.left = @ - 1] /\ c = [u EXCEPT !.left = @ - 1]
    BY <2>4
  <2> QED
    BY <2>1, <2>4, <2>9, <2>10
<1> QED
  BY <1>1, <1>2, <1>3

\* The debuggers take each turn of a command together.
LEMMA TurnsAlike ==
  ASSUME MachineOK(machine), Alike, Turns, C!Turns
  PROVE  Alike'
<1>0. SameTask(task, ctask) /\ machine.count \in Nat /\ csequence = machine.count + 1
  BY DEF Alike, MachineOK
<1> PICK left : left = task.left - 1
  OBVIOUS
<1>1. ASSUME UNCHANGED <<machine, memory, tables, trail>>, task' = Idle,
             UNCHANGED <<C!target, C!memory, C!tables, C!trail>>, ctask' = Idle
      PROVE  Alike'
  BY <1>1, AlikeStays, AlikeIdle
<1>2. CASE RunTask(task)
  <2>1. RunTurn /\ C!RunTurn /\ ctask = task
    BY <1>0, <1>2, TasksTurned
    DEF Turns, UntilTurn, StepStateTurn, C!Turns, C!UntilTurn, C!StepStateTurn, RunTask
  <2>2. CASE task.left = 0
    BY <1>1, <2>1, <2>2, Kinds DEF RunTurn, Ends, Answer, C!RunTurn, C!Ends, C!Answer
  <2>3. CASE task.left # 0
    <3> DEFINE next  == [task EXCEPT !.left = @ - 1, !.bypass = FALSE]
               cnext == [ctask EXCEPT !.left = @ - 1, !.bypass = FALSE]
    <3>1. Turn(task.bypass, next) /\ C!Turn(ctask.bypass, cnext)
      BY <2>1, <2>3 DEF RunTurn, C!RunTurn
    <3>2. SameTask(next, cnext)
      BY <1>0, <1>2, TasksTurned
    <3>3. task.bypass <=> ctask.bypass
      BY <2>1
    <3> HIDE DEF next, cnext
    <3> QED
      BY <3>1, <3>2, <3>3, AlikeTurn
  <2> QED
    BY <2>2, <2>3
<1>3. CASE UntilTask(task)
  <2>1. /\ UntilTurn /\ C!UntilTurn
        /\ task.from \in Nat /\ ctask.from = task.from + 1
        /\ ctask.left = task.left /\ ctask.target = task.target /\ ctask.op = task.op
    <3>1. /\ UntilTask(ctask)
          /\ task.from \in Nat /\ ctask.from = task.from + 1
          /\ ctask.left = task.left /\ ctask.target = task.target /\ ctask.op = task.op
      BY <1>0, <1>3, TasksTurned
    <3> QED
      BY <1>3, <3>1 DEF Turns, RunTurn, StepStateTurn, C!Turns, C!RunTurn, C!StepStateTurn, UntilTask
  <2>2. (machine.count = task.from) <=> (csequence = ctask.from)
    BY <1>0, <2>1
  <2>3. C!Context.pc = machine.pc /\ DOMAIN cbreaks = DOMAIN breaks
    BY AlikeTarget DEF Alike, SameBreaks
  <2>4. CASE task.left = 0 \/ (machine.pc = task.target /\ machine.count # task.from)
    <3>1. UNCHANGED <<machine, memory, tables, trail>> /\ task' = Idle
      BY <2>1, <2>4 DEF UntilTurn, Ends, Answer
    <3>2. UNCHANGED <<C!target, C!memory, C!tables, C!trail>> /\ ctask' = Idle
      BY <2>1, <2>2, <2>3, <2>4, Kinds DEF C!UntilTurn, C!Ends, C!Answer
    <3> QED
      BY <1>1, <3>1, <3>2
  <2>5. CASE task.left # 0 /\ ~(machine.pc = task.target /\ machine.count # task.from)
    <3> DEFINE next  == [task EXCEPT !.left = @ - 1]
               cnext == [ctask EXCEPT !.left = @ - 1]
    <3> PICK bypass  : bypass = (machine.count = task.from /\ machine.pc \in DOMAIN breaks)
      OBVIOUS
    <3> PICK cbypass : cbypass = (csequence = ctask.from /\ C!Context.pc \in DOMAIN cbreaks)
      OBVIOUS
    <3>1. Turn(bypass, next) /\ C!Turn(cbypass, cnext)
      BY <2>1, <2>2, <2>3, <2>5 DEF UntilTurn, C!UntilTurn
    <3>2. SameTask(next, cnext)
      BY <1>0, <1>3, TasksTurned
    <3>3. bypass <=> cbypass
      BY <2>2, <2>3
    <3> HIDE DEF next, cnext
    <3> QED
      BY <3>1, <3>2, <3>3, AlikeTurn
  <2> QED
    BY <2>4, <2>5
<1>4. CASE StateTask(task)
  <2>1. StepStateTurn /\ C!StepStateTurn /\ ctask = task
    BY <1>0, <1>4, TasksTurned
    DEF Turns, UntilTurn, RunTurn, C!Turns, C!UntilTurn, C!RunTurn, StateTask
  <2>2. CASE task.left = 0
    BY <1>1, <2>1, <2>2, Kinds DEF StepStateTurn, Ends, Answer, C!StepStateTurn, C!Ends, C!Answer
  <2>3. CASE task.left # 0 /\ ~Step(machine).ok
    <3>1. ~C!CanStep
      BY <2>3, AlikeTarget
    <3> QED
      BY <1>1, <2>1, <2>3, <3>1, Kinds
      DEF StepStateTurn, Refuse, Answer, C!StepStateTurn, C!Refuse, C!Answer
  <2>4. CASE task.left # 0 /\ Step(machine).ok
    <3> DEFINE next  == [task EXCEPT !.left = @ - 1]
               cnext == [ctask EXCEPT !.left = @ - 1]
    <3>1. C!CanStep /\ ~remote
      BY <2>4, AlikeTarget DEF Alike
    <3>2. Retire /\ task' = next /\ C!Retire /\ ctask' = cnext
      BY <2>1, <2>4, <3>1 DEF StepStateTurn, C!StepStateTurn
    <3>3. SameTask(next, cnext)
      BY <1>0, <1>4, TasksTurned
    <3> HIDE DEF next, cnext
    <3> QED
      BY <2>4, <3>2, <3>3, AlikeExecutes
  <2> QED
    BY <2>2, <2>3, <2>4
<1>5. task # Idle
  BY Kinds DEF Turns, RunTurn, UntilTurn, StepStateTurn
<1> QED
  BY <1>0, <1>2, <1>3, <1>4, <1>5 DEF SameTask

\* The commands that load.
LEMMA AssembleAlike ==
  ASSUME MachineOK(machine), Alike, NEW line, Assemble(line), C!Assemble(line),
         line \in DOMAIN Lines => Fits(machine.pc, Lines[line])
  PROVE  Alike'
<1>0. C!Context.pc = machine.pc /\ \A at, n : C!CanAccess(at, n) <=> InRange(at, n)
  BY AlikeTarget
<1>1. /\ task' = Idle /\ ctask' = Idle /\ source' = line /\ csource' = line
      /\ UNCHANGED <<symbols, undo, tables, trail, csymbols, cundo, C!tables, C!trail>>
  BY Kinds DEF Assemble, C!Assemble, Answer, C!Answer
<1>2. /\ remote' = remote /\ cmachine' = machine'
      /\ machine' = machine \/ \E w : machine' = [machine EXCEPT !.mem = w]
  <2>1. CASE line \notin DOMAIN Lines
    BY <2>1 DEF Assemble, C!Assemble, Alike, C!target
  <2>2. CASE line \in DOMAIN Lines
    <3>1. C!CanAccess(C!Context.pc, Len(Lines[line]))
      BY <1>0, <2>2 DEF Fits, InRange
    <3> QED
      BY <1>0, <2>2, <3>1, SameTarget DEF Assemble, C!Assemble, C!Write, Alike
  <2> QED
    BY <2>1, <2>2
<1>3. machine'.count = machine.count
  BY <1>2, TouchKeeps
<1>4. Undoable(undo)'
  BY <1>1 DEF Alike, Undoable, IsSequence, Range, InRange
<1>5. SameTask(task', ctask') /\ csymbols' = symbols' /\ cundo' = undo'
  BY <1>1, AlikeIdle DEF Alike
<1> QED
  BY <1>1, <1>2, <1>3, <1>4, <1>5, AlikeKeeps

\* A program is loaded alike only into an untouched debugger: there the second,
\* which keeps what it has, has nothing to keep.
LEMMA ProgramAlike ==
  ASSUME MachineOK(machine), Alike, NEW name, AssembleProgram(name), C!AssembleProgram(name),
         machine = NewMachine, undo = <<>>, DOMAIN breaks \cup DOMAIN watches = {},
         name \in DOMAIN Programs, Programs[name].start = 0, Fits(0, Programs[name].words)
  PROVE  Alike'
<1> PICK words : words = Programs[name].words
  OBVIOUS
<1>0. machine.pc = 0 /\ machine.count = 0 /\ machine.mem = NewMachine.mem
  BY DEF NewMachine
<1>1. C!CanAccess(C!Context.pc, Len(words)) /\ C!Context.pc = 0
  BY <1>0, AlikeTarget DEF Fits, InRange
<1> PICK mem : mem = Load(machine.mem, 0, words)
  OBVIOUS
<1> PICK m : m = [machine EXCEPT !.mem = mem]
  OBVIOUS
<1>2. MachineOK(m) /\ m.pc = 0 /\ m.count = 0
  BY <1>0, MemorySet, SMTT(90)
<1>3. machine' = m
  <2>1. machine' = [m EXCEPT !.pc = 0]
    BY <1>0 DEF AssembleProgram
  <2> PICK x, w, count, live, indirect :
        x = m.x /\ w = m.mem /\ count = m.count /\ live = m.live /\ indirect = m.indirect
    OBVIOUS
  <2>2. m = [pc |-> 0, x |-> x, mem |-> w, count |-> count, live |-> live, indirect |-> indirect]
    BY <1>2 DEF MachineOK
  <2>3. [m EXCEPT !.pc = 0] = m
    BY ONLY <2>2
  <2> QED
    BY <2>1, <2>3
<1>4. cmachine' = m /\ remote' = remote /\ csource' = name /\ csymbols' = name /\ ctask' = Idle
      /\ UNCHANGED <<cundo, C!tables, C!trail>>
  BY <1>1, SameTarget, Kinds DEF C!AssembleProgram, C!Write, C!Answer, Alike
<1>5. /\ source' = name /\ symbols' = name /\ task' = Idle
      /\ undo' = <<>> /\ history' = <<>> /\ frames' = <<>>
      /\ breaks' = EmptyFunction /\ conditions' = EmptyFunction /\ watches' = EmptyFunction
      /\ ids' = ids
  BY DEF AssembleProgram, Answer
<1>6. history = <<>> /\ frames = <<>>
  BY <1>0 DEF Alike
<1>7. SameHistory(history', chistory')
  BY <1>4, <1>5, <1>6 DEF Alike, C!trail
<1>8. SameBreaks(breaks', conditions', cbreaks')
  BY <1>4, <1>5 DEF Alike, SameBreaks, C!tables, EmptyFunction
<1>9. cwatches' = watches' /\ IsFunction(watches')
  <2>1. watches = [id \in DOMAIN watches |-> watches[id]] /\ DOMAIN watches = {} /\ cwatches = watches
    BY DEF Alike, IsFunction
  <2>2. watches = EmptyFunction
    BY <2>1 DEF EmptyFunction
  <2> QED
    BY <1>4, <1>5, <2>1, <2>2 DEF C!tables, IsFunction
<1>10. Undoable(undo')
  BY <1>5, Empty DEF Undoable
<1>11. /\ ~remote' /\ cmachine' = machine' /\ csource' = source' /\ csymbols' = symbols'
       /\ cframes' = frames' /\ cids' = ids' /\ cundo' = undo'
       /\ csequence' = machine'.count + 1 /\ SameTask(task', ctask')
  BY <1>0, <1>2, <1>3, <1>4, <1>5, <1>6, AlikeIdle DEF Alike, C!tables, C!trail
<1> QED
  BY <1>5, <1>7, <1>8, <1>9, <1>10, <1>11
  DEF Alike, SameHistory, SameBreaks, SameTask, Undoable, InRange, IsFunction, IsSequence, Range,
      StateTask, RunTask, UntilTask

\* An image is as long as what it is an image of.
LEMMA ImageLength ==
  ASSUME NEW mem, NEW at, NEW n \in Nat PROVE Len(Image(mem, at, n)) = n
<1> PICK image : image = Image(mem, at, n)
  OBVIOUS
<1>1. image = [k \in 1 .. n |-> mem[at + k - 1]]
  BY DEF Image
<1>2. image \in Seq(Range(image)) /\ DOMAIN image = 1 .. n
  <2>1. DOMAIN image = 1 .. n /\ \A k \in 1 .. n : mem[at + k - 1] \in Range(image)
    BY <1>1 DEF Range
  <2>2. [k \in 1 .. n |-> mem[at + k - 1]] \in Seq(Range(image))
    BY <2>1, IsASeq
  <2> QED
    BY <1>1, <2>1, <2>2
<1>3. Len(image) = n
  BY <1>2, LenProperties
<1> QED
  BY <1>3

\* The undo list with one more entry, and within its limit.
LEMMA UndoGrows ==
  ASSUME NEW u, Undoable(u), NEW e, InRange(e.address, Len(e.previous))
  PROVE  Undoable(Append(u, e))
<1>1. /\ IsSequence(Append(u, e)) /\ Len(u) \in Nat /\ Len(Append(u, e)) = Len(u) + 1
      /\ \A k \in 1 .. Len(u) : Append(u, e)[k] = u[k]
      /\ Append(u, e)[Len(u) + 1] = e
  BY Appended DEF Undoable
<1> PICK v : v = Append(u, e)
  OBVIOUS
<1>2. ASSUME NEW k \in 1 .. Len(v) PROVE InRange(v[k].address, Len(v[k].previous))
  <2>1. CASE k \in 1 .. Len(u)
    BY <1>1, <2>1 DEF Undoable
  <2>2. CASE k = Len(u) + 1
    BY <1>1, <2>2
  <2> QED
    BY <1>1, <2>1, <2>2
<1> QED
  BY <1>1, <1>2 DEF Undoable

LEMMA UndoForgets == ASSUME NEW u, Undoable(u), u # <<>> PROVE Undoable(Tail(u))
<1>1. /\ IsSequence(Tail(u)) /\ Len(u) \in Nat \ {0} /\ Len(Tail(u)) = Len(u) - 1
      /\ \A k \in 1 .. Len(u) - 1 : Tail(u)[k] = u[k + 1]
  BY Tailed DEF Undoable
<1>2. ASSUME NEW k \in 1 .. Len(Tail(u)) PROVE InRange(Tail(u)[k].address, Len(Tail(u)[k].previous))
  <2>1. k + 1 \in 1 .. Len(u) /\ Tail(u)[k] = u[k + 1]
    BY <1>1
  <2> QED
    BY <2>1 DEF Undoable
<1> QED
  BY <1>1, <1>2 DEF Undoable

\* A range written by both, or refused by both, and remembered in the same way.
LEMMA WritesAlike ==
  ASSUME MachineOK(machine), Alike, NEW at, NEW words, Len(words) \in Nat,
         WriteRange(at, words), C!WriteRange(at, words)
  PROVE  Alike'
<1>0. C!CanAccess(at, Len(words)) <=> InRange(at, Len(words))
  BY AlikeTarget
<1>1. CASE ~InRange(at, Len(words))
  <2>1. UNCHANGED <<machine, memory, tables, trail>> /\ task' = Idle
    BY <1>1 DEF WriteRange, Refuse, Answer
  <2>2. UNCHANGED <<C!target, C!memory, C!tables, C!trail>> /\ ctask' = Idle
    BY <1>0, <1>1, Kinds DEF C!WriteRange, C!Refuse, C!Answer
  <2> QED
    BY <2>1, <2>2, AlikeStays, AlikeIdle
<1>2. CASE InRange(at, Len(words))
  <2> PICK e : e = [address |-> at, previous |-> Image(machine.mem, at, Len(words))]
    OBVIOUS
  <2>1. InRange(e.address, Len(e.previous))
    BY <1>2, ImageLength
  <2>2. /\ machine' = [machine EXCEPT !.mem = Load(@, at, words)] /\ undo' = PushUndo(e)
        /\ task' = Idle /\ UNCHANGED <<source, symbols, tables, trail>>
    BY <1>2 DEF WriteRange, Answer
  <2>3. /\ cmachine' = [machine EXCEPT !.mem = Load(@, at, words)] /\ cundo' = C!PushMemoryUndo(e)
        /\ remote' = remote /\ ctask' = Idle /\ UNCHANGED <<csource, csymbols, C!tables, C!trail>>
    BY <1>0, <1>2, SameTarget, Kinds DEF C!WriteRange, C!Write, C!Entry, C!Answer, Alike
  <2>4. cundo' = undo'
    BY <2>2, <2>3 DEF PushUndo, C!PushMemoryUndo, Alike
  <2>5. Undoable(undo)'
    <3>1. undo' = Append(IF Len(undo) = MaxUndo THEN Tail(undo) ELSE undo, e)
      BY <2>2 DEF PushUndo
    <3>2. Undoable(IF Len(undo) = MaxUndo THEN Tail(undo) ELSE undo)
      BY UndoForgets, Empty, MonitorAssumption DEF Alike
    <3>3. Undoable(undo')
      BY <2>1, <3>1, <3>2, UndoGrows
    <3> QED
      BY <3>3 DEF Undoable, IsSequence, Range, InRange
  <2>6. machine'.count = machine.count
    BY <2>2, MemorySet
  <2>7. csource' = source' /\ csymbols' = symbols' /\ cmachine' = machine' /\ SameTask(task', ctask')
    BY <2>2, <2>3, AlikeIdle DEF Alike
  <2> QED
    BY <2>2, <2>3, <2>4, <2>5, <2>6, <2>7, AlikeKeeps
<1> QED
  BY <1>1, <1>2

\* edit is a write of one word, as long as the console's list is within the limit.
LEMMA EditAlike ==
  ASSUME MachineOK(machine), Alike, NEW at, NEW word, EditMemory(at, word), C!Edit(at, word),
         ~(Len(cundo) >= MaxUndo)
  PROVE  Alike'
<1>1. Len(<<word>>) = 1
  OBVIOUS
<1>2. C!WriteRange(at, <<word>>)
  <2>1. C!PushMemoryUndo(C!Entry(at, 1)) = Append(cundo, C!Entry(at, 1))
    <3>1. Len(cundo) # MaxUndo
      BY MonitorAssumption, SequenceOf DEF Alike, Undoable, IsSequence
    <3> QED
      BY <3>1 DEF C!PushMemoryUndo
  <2> QED
    BY <1>1, <2>1 DEF C!WriteRange, C!Edit
<1> QED
  BY <1>1, <1>2, WritesAlike DEF EditMemory

LEMMA FillAlike ==
  ASSUME MachineOK(machine), Alike, NEW at, NEW n \in Nat, NEW word,
         FillMemory(at, n, word), C!FillMemory(at, n, word)
  PROVE  Alike'
<1>1. CASE n = 0
  <2>1. UNCHANGED <<machine, memory, tables, trail>> /\ task' = Idle
    BY <1>1 DEF FillMemory, Refuse, Answer
  <2>2. UNCHANGED <<C!target, C!memory, C!tables, C!trail>> /\ ctask' = Idle
    BY <1>1, Kinds DEF C!FillMemory, C!Refuse, C!Answer
  <2> QED
    BY <2>1, <2>2, AlikeStays, AlikeIdle
<1>2. CASE n # 0
  <2> PICK words : words = [k \in 1 .. n |-> word]
    OBVIOUS
  <2>1. words \in Seq(Range(words))
    BY IsASeq DEF Range
  <2>2. Len(words) \in Nat
    BY <2>1, LenProperties
  <2>3. WriteRange(at, words) /\ C!WriteRange(at, words)
    BY <1>2 DEF FillMemory, C!FillMemory
  <2> QED
    BY <2>2, <2>3, WritesAlike
<1> QED
  BY <1>1, <1>2

LEMMA CopyAlike ==
  ASSUME MachineOK(machine), Alike, NEW from, NEW at, NEW n \in Nat,
         CopyMemory(from, at, n), C!CopyMemory(from, at, n)
  PROVE  Alike'
<1>0. C!CanAccess(from, n) <=> InRange(from, n)
  BY AlikeTarget
<1>1. CASE n = 0 \/ ~InRange(from, n)
  <2>1. UNCHANGED <<machine, memory, tables, trail>> /\ task' = Idle
    BY <1>1 DEF CopyMemory, Refuse, Answer
  <2>2. UNCHANGED <<C!target, C!memory, C!tables, C!trail>> /\ ctask' = Idle
    BY <1>0, <1>1, Kinds DEF C!CopyMemory, C!Refuse, C!Answer
  <2> QED
    BY <2>1, <2>2, AlikeStays, AlikeIdle
<1>2. CASE n # 0 /\ InRange(from, n)
  <2> PICK words : words = Image(machine.mem, from, n)
    OBVIOUS
  <2>1. WriteRange(at, words)
    BY <1>2 DEF CopyMemory
  <2>2. C!WriteRange(at, words)
    <3>1. C!WriteRange(at, C!Image(cmachine.mem, from, n))
      BY <1>0, <1>2 DEF C!CopyMemory
    <3>2. C!Image(cmachine.mem, from, n) = words
      BY SameTarget DEF Alike
    <3> QED
      BY <3>1, <3>2
  <2>3. Len(words) \in Nat
    BY ImageLength
  <2> QED
    BY <2>1, <2>2, <2>3, WritesAlike
<1> QED
  BY <1>1, <1>2

\* undo drops its entry before the write in one and after it in the other; the
\* write does not fail.
LEMMA UndoAlike ==
  ASSUME MachineOK(machine), Alike, UndoMemory, C!UndoEdit
  PROVE  Alike'
<1>1. CASE undo = <<>>
  <2>1. UNCHANGED <<machine, memory, tables, trail>> /\ task' = Idle
    BY <1>1 DEF UndoMemory, Refuse, Answer
  <2>2. UNCHANGED <<C!target, C!memory, C!tables, C!trail>> /\ ctask' = Idle
    BY <1>1, Kinds DEF C!UndoEdit, C!Refuse, C!Answer, Alike
  <2> QED
    BY <2>1, <2>2, AlikeStays, AlikeIdle
<1>2. CASE undo # <<>>
  <2> PICK last : last = undo[Len(undo)]
    OBVIOUS
  <2>1. /\ IsSequence(SubSeq(undo, 1, Len(undo) - 1)) /\ Len(undo) \in Nat \ {0}
        /\ Len(SubSeq(undo, 1, Len(undo) - 1)) = Len(undo) - 1
        /\ \A k \in 1 .. Len(undo) - 1 : SubSeq(undo, 1, Len(undo) - 1)[k] = undo[k]
    BY <1>2, Shortened DEF Alike, Undoable
  <2>2. InRange(last.address, Len(last.previous))
    BY <2>1 DEF Alike, Undoable
  <2>3. C!CanAccess(last.address, Len(last.previous))
    BY <2>2, AlikeTarget
  <2>4. /\ machine' = [machine EXCEPT !.mem = Load(@, last.address, last.previous)]
        /\ undo' = SubSeq(undo, 1, Len(undo) - 1)
        /\ task' = Idle /\ UNCHANGED <<source, symbols, tables, trail>>
    BY <1>2, <2>2 DEF UndoMemory, Answer
  <2>5. /\ cmachine' = [machine EXCEPT !.mem = Load(@, last.address, last.previous)]
        /\ cundo' = SubSeq(undo, 1, Len(undo) - 1) /\ remote' = remote
        /\ ctask' = Idle /\ UNCHANGED <<csource, csymbols, C!tables, C!trail>>
    BY <1>2, <2>3, SameTarget, Kinds DEF C!UndoEdit, C!Write, C!Answer, Alike
  <2>6. Undoable(undo')
    BY <2>1, <2>4 DEF Alike, Undoable
  <2>7. machine'.count = machine.count
    BY <2>4, MemorySet
  <2>8. csource' = source' /\ csymbols' = symbols' /\ SameTask(task', ctask')
    BY <2>4, <2>5, AlikeIdle DEF Alike
  <2>9. Undoable(undo)'
    BY <2>6 DEF Undoable, IsSequence, Range, InRange
  <2> QED
    BY <2>4, <2>5, <2>7, <2>8, <2>9, AlikeKeeps
<1> QED
  BY <1>1, <1>2

\* Only tables change.
LEMMA AlikeTables ==
  ASSUME Alike, UNCHANGED <<machine, memory, trail>>, UNCHANGED <<C!target, C!memory, C!trail>>,
         task' = Idle, ctask' = Idle, cids' = ids', cwatches' = watches', IsFunction(watches'),
         SameBreaks(breaks', conditions', cbreaks')
  PROVE  Alike'
BY AlikeIdle DEF Alike, memory, trail, C!target, C!memory, C!trail,
     SameHistory, SameBreaks, SameTask, Undoable, InRange, IsFunction, IsSequence, Range,
     StateTask, RunTask, UntilTask

LEMMA BreakAlike ==
  ASSUME Alike, NEW at, NEW condition, condition # "malformed",
         AddBreakpoint(at, condition), C!AddBreakpoint(at, condition)
  PROVE  Alike'
<1>0. SameBreaks(breaks, conditions, cbreaks) /\ cids = ids /\ cwatches = watches /\ IsFunction(watches)
  BY DEF Alike
<1>1. CASE at \in DOMAIN breaks
  <2>1. UNCHANGED <<machine, memory, tables, trail>> /\ task' = Idle
    BY <1>1 DEF AddBreakpoint, Answer
  <2>2. UNCHANGED <<C!target, C!memory, C!tables, C!trail>> /\ ctask' = Idle
    BY <1>0, <1>1, Kinds DEF C!AddBreakpoint, C!Refuse, C!Answer, SameBreaks
  <2> QED
    BY <2>1, <2>2, AlikeStays, AlikeIdle
<1>2. CASE at \notin DOMAIN breaks
  <2> PICK entry : entry = [id |-> ids.break, condition |-> condition]
    OBVIOUS
  <2>1. /\ breaks' = Adding(breaks, at, ids.break)
        /\ conditions' = IF condition = "always" THEN conditions ELSE Adding(conditions, at, condition)
        /\ ids' = [ids EXCEPT !.break = @ + 1] /\ task' = Idle
        /\ UNCHANGED <<machine, memory, watches, trail>>
    BY <1>2 DEF AddBreakpoint, Answer
  <2>2. /\ cbreaks' = Adding(cbreaks, at, entry)
        /\ cids' = [ids EXCEPT !.break = @ + 1] /\ ctask' = Idle
        /\ UNCHANGED <<C!target, C!memory, cwatches, C!trail>>
    BY <1>0, <1>2, SameTables, Kinds DEF C!AddBreakpoint, C!Answer, SameBreaks
  <2>3. entry.id = ids.break /\ entry.condition = condition
    OBVIOUS
  <2>4. SameBreaks(breaks', conditions', cbreaks')
    BY <1>0, <1>2, <2>1, <2>2, <2>3 DEF SameBreaks, Adding
  <2> QED
    BY <1>0, <2>1, <2>2, <2>4, AlikeTables DEF IsFunction
<1> QED
  BY <1>1, <1>2

LEMMA WatchAlike ==
  ASSUME Alike, NEW at, NEW kind, AddWatchpoint(at, kind), C!AddWatchpoint(at, kind)
  PROVE  Alike'
<1>1. /\ watches' = Adding(watches, ids.watch, [address |-> at, kind |-> kind])
      /\ ids' = [ids EXCEPT !.watch = @ + 1] /\ task' = Idle
      /\ UNCHANGED <<machine, memory, breaks, conditions, trail>>
  BY DEF AddWatchpoint, Answer
<1>2. /\ cwatches' = Adding(watches, ids.watch, [address |-> at, kind |-> kind])
      /\ cids' = [ids EXCEPT !.watch = @ + 1] /\ ctask' = Idle
      /\ UNCHANGED <<C!target, C!memory, cbreaks, C!trail>>
  BY SameTables, Kinds DEF C!AddWatchpoint, C!Answer, Alike
<1>3. IsFunction(watches')
  BY <1>1 DEF IsFunction, Adding
<1>4. SameBreaks(breaks', conditions', cbreaks')
  BY <1>1, <1>2 DEF Alike
<1> QED
  BY <1>1, <1>2, <1>3, <1>4, AlikeTables

\* Both find the one breakpoint with the number.
LEMMA DeleteBreakAlike ==
  ASSUME NumbersFresh, Alike, NEW id, DeleteBreakpoint(id), C!DeleteBreakpoint(id)
  PROVE  Alike'
<1>0. /\ SameBreaks(breaks, conditions, cbreaks) /\ cids = ids /\ cwatches = watches
      /\ IsFunction(watches)
      /\ \A at, to \in DOMAIN breaks : breaks[at] = breaks[to] => at = to
  BY DEF Alike, NumbersFresh, Fresh
<1>1. CASE \A at \in DOMAIN breaks : breaks[at] # id
  <2>1. UNCHANGED <<machine, memory, tables, trail>> /\ task' = Idle
    BY <1>1 DEF DeleteBreakpoint, Refuse, Answer
  <2>2. \A at \in DOMAIN cbreaks : cbreaks[at].id # id
    BY <1>0, <1>1 DEF SameBreaks
  <2>3. UNCHANGED <<C!target, C!memory, C!tables, C!trail>> /\ ctask' = Idle
    BY <2>2, Kinds DEF C!DeleteBreakpoint, C!Refuse, C!Answer
  <2> QED
    BY <2>1, <2>3, AlikeStays, AlikeIdle
<1>2. CASE \E at \in DOMAIN breaks : breaks[at] = id
  <2> PICK at \in DOMAIN breaks : breaks[at] = id
    BY <1>2
  <2> PICK a : a = CHOOSE x \in DOMAIN breaks : breaks[x] = id
    OBVIOUS
  <2> PICK c : c = CHOOSE x \in DOMAIN cbreaks : cbreaks[x].id = id
    OBVIOUS
  <2>1. a = at
    <3>1. a \in DOMAIN breaks /\ breaks[a] = id
      BY Zenon
    <3> QED
      BY <1>0, <3>1
  <2>2. c = at
    <3>1. at \in DOMAIN cbreaks /\ cbreaks[at].id = id
      BY <1>0 DEF SameBreaks
    <3>2. c \in DOMAIN cbreaks /\ cbreaks[c].id = id
      BY <3>1, Zenon
    <3> QED
      BY <1>0, <3>2 DEF SameBreaks
  <2>3. /\ breaks' = Without(breaks, at) /\ conditions' = Without(conditions, at) /\ task' = Idle
        /\ UNCHANGED <<machine, memory, watches, ids, trail>>
    BY <2>1 DEF DeleteBreakpoint, Answer
  <2>4. \E x \in DOMAIN cbreaks : cbreaks[x].id = id
    BY <1>0 DEF SameBreaks
  <2>5. /\ cbreaks' = Without(cbreaks, at) /\ ctask' = Idle
        /\ UNCHANGED <<C!target, C!memory, cwatches, cids, C!trail>>
    BY <2>2, <2>4, SameTables, Kinds DEF C!DeleteBreakpoint, C!Answer
  <2>6. SameBreaks(breaks', conditions', cbreaks')
    BY <1>0, <2>3, <2>5 DEF SameBreaks, Without
  <2> QED
    BY <1>0, <2>3, <2>5, <2>6, AlikeTables DEF IsFunction
<1> QED
  BY <1>1, <1>2

LEMMA DeleteWatchAlike ==
  ASSUME Alike, NEW id, DeleteWatchpoint(id), C!DeleteWatchpoint(id)
  PROVE  Alike'
<1>0. /\ SameBreaks(breaks, conditions, cbreaks) /\ cids = ids /\ cwatches = watches
  BY DEF Alike
<1>1. CASE id \notin DOMAIN watches
  <2>1. UNCHANGED <<machine, memory, tables, trail>> /\ task' = Idle
    BY <1>1 DEF DeleteWatchpoint, Refuse, Answer
  <2>2. UNCHANGED <<C!target, C!memory, C!tables, C!trail>> /\ ctask' = Idle
    BY <1>0, <1>1, Kinds DEF C!DeleteWatchpoint, C!Refuse, C!Answer
  <2> QED
    BY <2>1, <2>2, AlikeStays, AlikeIdle
<1>2. CASE id \in DOMAIN watches
  <2>1. /\ watches' = Without(watches, id) /\ task' = Idle
        /\ UNCHANGED <<machine, memory, breaks, conditions, ids, trail>>
    BY <1>2 DEF DeleteWatchpoint, Answer
  <2>2. /\ cwatches' = Without(watches, id) /\ ctask' = Idle
        /\ UNCHANGED <<C!target, C!memory, cbreaks, cids, C!trail>>
    BY <1>0, <1>2, SameTables, Kinds DEF C!DeleteWatchpoint, C!Answer
  <2>3. IsFunction(watches')
    BY <2>1 DEF IsFunction, Without
  <2> QED
    BY <1>0, <2>1, <2>2, <2>3, AlikeTables
<1> QED
  BY <1>1, <1>2

\* The commands that run the target.
LEMMA StartsAlike ==
  ASSUME Alike, NEW t, NEW u, SameTask(t, u), Start(t), C!Start(u)
  PROVE  Alike'
<1>1. task' = t /\ ctask' = u
  BY DEF Start, C!Start
<1> QED
  BY <1>1, AlikeStays DEF Start, C!Start

LEMMA UntilAlike ==
  ASSUME MachineOK(machine), Alike, NEW op, NEW to, RunUntil(op, to), C!RunUntil(op, to)
  PROVE  Alike'
<1> PICK count, later, depth :
      count = machine.count /\ later = machine.count + 1 /\ depth = Len(machine.live)
  OBVIOUS
<1> PICK t : t = [kind |-> "until", op |-> op, target |-> to, from |-> count,
                  left |-> MaxRunSteps, began |-> count, depth |-> depth]
  OBVIOUS
<1> PICK u : u = [kind |-> "until", op |-> op, target |-> to, from |-> later,
                  left |-> MaxRunSteps, began |-> count, depth |-> depth]
  OBVIOUS
<1>1. UntilTask(t) /\ t.from = count
  BY UntilStarts
<1>2. u = [t EXCEPT !.from = later]
  OBVIOUS
<1>3. count \in Nat /\ later = count + 1
  BY DEF MachineOK
<1>4. SameTask(t, u)
  BY <1>1, <1>2, <1>3 DEF SameTask
<1>5. Start(t)
  BY DEF RunUntil
<1>6. C!Start(u)
  BY DEF C!RunUntil, Alike
<1> QED
  BY <1>4, <1>5, <1>6, StartsAlike

LEMMA StepAlike ==
  ASSUME MachineOK(machine), Alike, StepOnce, C!StepOnce
  PROVE  Alike'
<1>1. CASE ~Step(machine).ok
  <2>1. UNCHANGED <<machine, memory, tables, trail>> /\ task' = Idle
    BY <1>1 DEF StepOnce, Refuse, Answer
  <2>2. UNCHANGED <<C!target, C!memory, C!tables, C!trail>> /\ ctask' = Idle
    BY <1>1, AlikeTarget, Kinds DEF C!StepOnce, C!Refuse, C!Answer
  <2> QED
    BY <2>1, <2>2, AlikeStays, AlikeIdle
<1>2. CASE Step(machine).ok
  <2>1. C!CanStep /\ ~remote
    BY <1>2, AlikeTarget DEF Alike
  <2>2. Retire /\ task' = Idle /\ C!Retire /\ ctask' = Idle
    BY <1>2, <2>1, Kinds DEF StepOnce, Answer, C!StepOnce, C!Answer
  <2> QED
    BY <1>2, <2>2, AlikeIdle, AlikeExecutes
<1> QED
  BY <1>1, <1>2

LEMMA StepOverAlike ==
  ASSUME MachineOK(machine), Alike, StepOver, C!StepOver
  PROVE  Alike'
<1>0. /\ C!Context.pc = machine.pc /\ cmachine = machine
      /\ C!CanFetch <=> machine.pc \in Addresses
      /\ C!IsCall(machine.mem[machine.pc]) <=> IsCall(machine.mem[machine.pc])
  BY AlikeTarget, SameTarget DEF Alike
<1>1. CASE machine.pc \notin Addresses
  <2>1. UNCHANGED <<machine, memory, tables, trail>> /\ task' = Idle
    BY <1>1 DEF StepOver, Refuse, Answer
  <2>2. UNCHANGED <<C!target, C!memory, C!tables, C!trail>> /\ ctask' = Idle
    BY <1>0, <1>1, Kinds DEF C!StepOver, C!Refuse, C!Answer
  <2> QED
    BY <2>1, <2>2, AlikeStays, AlikeIdle
<1>2. CASE machine.pc \in Addresses /\ ~IsCall(machine.mem[machine.pc])
  <2>1. StepOnce
    BY <1>2 DEF StepOver
  <2>2. C!StepOnce
    BY <1>0, <1>2 DEF C!StepOver
  <2> QED
    BY <2>1, <2>2, StepAlike
<1>3. CASE machine.pc \in Addresses /\ IsCall(machine.mem[machine.pc])
  <2>1. RunUntil("step-over", machine.pc + 1)
    BY <1>3 DEF StepOver
  <2>2. C!RunUntil("step-over", machine.pc + 1)
    BY <1>0, <1>3 DEF C!StepOver
  <2> QED
    BY <2>1, <2>2, UntilAlike
<1> QED
  BY <1>1, <1>2, <1>3

LEMMA StepOutAlike ==
  ASSUME MachineOK(machine), Alike, StepOut, C!StepOut
  PROVE  Alike'
<1>0. cframes = frames
  BY DEF Alike
<1>1. CASE frames = <<>>
  <2>1. UNCHANGED <<machine, memory, tables, trail>> /\ task' = Idle
    BY <1>1 DEF StepOut, Refuse, Answer
  <2>2. UNCHANGED <<C!target, C!memory, C!tables, C!trail>> /\ ctask' = Idle
    BY <1>0, <1>1, Kinds DEF C!StepOut, C!Refuse, C!Answer
  <2> QED
    BY <2>1, <2>2, AlikeStays, AlikeIdle
<1>2. CASE frames # <<>>
  BY <1>0, <1>2, UntilAlike DEF StepOut, C!StepOut
<1> QED
  BY <1>1, <1>2

LEMMA RunsAlike ==
  ASSUME Alike, NEW n
  PROVE  /\ Run(n) /\ C!Run(n) => Alike'
         /\ Continue(n) /\ C!Continue(n) => Alike'
         /\ StepState(n) /\ C!StepState(n) => Alike'
<1> PICK began, bypass : began = machine.count /\ bypass = (machine.pc \in DOMAIN breaks)
  OBVIOUS
<1>0. cmachine = machine /\ C!Context.pc = machine.pc /\ DOMAIN cbreaks = DOMAIN breaks
  BY AlikeTarget DEF Alike, SameBreaks
<1>1. ASSUME Run(n), C!Run(n) PROVE Alike'
  <2> PICK t : t = [kind |-> "run", op |-> "run", left |-> n, began |-> began, bypass |-> FALSE]
    OBVIOUS
  <2>1. RunTask(t)
    BY DEF RunTask
  <2>2. SameTask(t, t)
    BY <2>1 DEF SameTask
  <2>3. Start(t)
    BY <1>1 DEF Run
  <2>4. C!Start(t)
    BY <1>0, <1>1 DEF C!Run
  <2> QED
    BY <2>2, <2>3, <2>4, StartsAlike
<1>2. ASSUME Continue(n), C!Continue(n) PROVE Alike'
  <2> PICK t : t = [kind |-> "run", op |-> "continue", left |-> n, began |-> began, bypass |-> bypass]
    OBVIOUS
  <2>1. RunTask(t)
    BY RunStarts
  <2>2. SameTask(t, t)
    BY <2>1 DEF SameTask
  <2>3. Start(t)
    BY <1>2 DEF Continue
  <2>4. C!Start(t)
    BY <1>0, <1>2 DEF C!Continue
  <2> QED
    BY <2>2, <2>3, <2>4, StartsAlike
<1>3. ASSUME StepState(n), C!StepState(n) PROVE Alike'
  <2>1. CASE n = 0
    <3>1. UNCHANGED <<machine, memory, tables, trail>> /\ task' = Idle
      BY <1>3, <2>1 DEF StepState, Refuse, Answer
    <3>2. UNCHANGED <<C!target, C!memory, C!tables, C!trail>> /\ ctask' = Idle
      BY <1>3, <2>1, Kinds DEF C!StepState, C!Refuse, C!Answer
    <3> QED
      BY <3>1, <3>2, AlikeStays, AlikeIdle
  <2>2. CASE n # 0
    <3> PICK t : t = [kind |-> "stepidp", op |-> "stepidp", left |-> n]
      OBVIOUS
    <3>1. StateTask(t)
      BY StateStarts
    <3>2. SameTask(t, t)
      BY <3>1 DEF SameTask
    <3> QED
      BY <1>3, <2>2, <3>2, StartsAlike DEF StepState, C!StepState
  <2> QED
    BY <2>1, <2>2
<1> QED
  BY <1>1, <1>2, <1>3

\* A file written changes nothing else.
LEMMA SavesAlike ==
  ASSUME Alike
  PROVE  /\ SaveSnapshot /\ C!SaveSnapshot => Alike'
         /\ SaveProject /\ C!SaveSession => Alike'
<1>1. ASSUME SaveSnapshot \/ SaveProject, C!SaveSnapshot \/ C!SaveSession PROVE Alike'
  <2>1. UNCHANGED <<machine, memory, tables, trail>> /\ task' = Idle
    BY <1>1 DEF SaveSnapshot, SaveProject, Answer
  <2>2. UNCHANGED <<C!target, C!memory, C!tables, C!trail>> /\ ctask' = Idle
    BY <1>1, Kinds DEF C!SaveSnapshot, C!SaveSession, C!Refuse, C!Answer
  <2> QED
    BY <2>1, <2>2, AlikeStays, AlikeIdle
<1> QED
  BY <1>1

\* Every command on which the two are not meant to differ leaves them alike.
LEMMA CommandsAlike ==
  ASSUME MachineOK(machine), NumbersFresh, Alike, NEW c \in Commands, ~PartsWays(c),
         Execute(c), C!Execute(c)
  PROVE  Alike'
<1>1. CASE c.name = "assemble" /\ Assemble(c.line) /\ C!Assemble(c.line)
  BY <1>1, AssembleAlike DEF PartsWays
<1>2. CASE c.name = "assemble-program" /\ AssembleProgram(c.program) /\ C!AssembleProgram(c.program)
  BY <1>2, ProgramAlike DEF PartsWays
<1>3. CASE c.name \in {"set", "reset", "restore", "project-load"}
  BY <1>3 DEF PartsWays
<1>4. CASE \/ c.name = "step" /\ StepOnce /\ C!StepOnce
           \/ c.name = "step-over" /\ StepOver /\ C!StepOver
           \/ c.name = "step-out" /\ StepOut /\ C!StepOut
  BY <1>4, StepAlike, StepOverAlike, StepOutAlike
<1>5. CASE \/ c.name = "stepidp" /\ StepState(c.count) /\ C!StepState(c.count)
           \/ c.name = "run" /\ Run(c.count) /\ C!Run(c.count)
           \/ c.name = "continue" /\ Continue(c.count) /\ C!Continue(c.count)
  BY <1>5, RunsAlike
<1>6. CASE c.name = "edit" /\ EditMemory(c.at, c.word) /\ C!Edit(c.at, c.word)
  BY <1>6, EditAlike DEF PartsWays
<1>7. CASE c.name = "fill" /\ FillMemory(c.at, c.count, c.word) /\ C!FillMemory(c.at, c.count, c.word)
  BY <1>7, FillAlike, CommandsAssumption
<1>8. CASE c.name = "copy" /\ CopyMemory(c.from, c.at, c.count) /\ C!CopyMemory(c.from, c.at, c.count)
  BY <1>8, CopyAlike, CommandsAssumption
<1>9. CASE c.name = "undo" /\ UndoMemory /\ C!UndoEdit
  BY <1>9, UndoAlike
<1>10. CASE c.name = "break" /\ AddBreakpoint(c.at, c.condition) /\ C!AddBreakpoint(c.at, c.condition)
  BY <1>10, BreakAlike DEF PartsWays
<1>11. CASE c.name = "watch" /\ AddWatchpoint(c.at, c.kind) /\ C!AddWatchpoint(c.at, c.kind)
  BY <1>11, WatchAlike
<1>12. CASE c.name = "delete break" /\ DeleteBreakpoint(c.id) /\ C!DeleteBreakpoint(c.id)
  BY <1>12, DeleteBreakAlike
<1>13. CASE c.name = "delete watch" /\ DeleteWatchpoint(c.id) /\ C!DeleteWatchpoint(c.id)
  BY <1>13, DeleteWatchAlike
<1>14. CASE \/ c.name = "snapshot" /\ SaveSnapshot /\ C!SaveSnapshot
            \/ c.name = "project-save" /\ SaveProject /\ C!SaveSession
  BY <1>14, SavesAlike
<1> QED
  BY <1>1, <1>2, <1>3, <1>4, <1>5, <1>6, <1>7, <1>8, <1>9, <1>10, <1>11, <1>12, <1>13, <1>14
  DEF Execute, C!Execute

LEMMA AlikeInit == DebugInit => (~parted => Alike)
<1> SUFFICES ASSUME DebugInit, ~parted PROVE Alike
  OBVIOUS
<1>1. ~remote /\ cmachine = machine /\ machine.count = 0
  BY SameTarget DEF DebugInit, Init, C!Init, NewMachine
<1>2. /\ csource = source /\ csymbols = symbols /\ cframes = frames /\ cids = ids /\ cundo = undo
      /\ cwatches = watches /\ csequence = 1 /\ task = Idle /\ ctask = Idle
      /\ undo = <<>> /\ history = <<>> /\ chistory = <<>> /\ frames = <<>>
      /\ breaks = EmptyFunction /\ conditions = EmptyFunction /\ cbreaks = EmptyFunction
      /\ watches = EmptyFunction
  BY SameTables, Kinds DEF DebugInit, Init, C!Init
<1>3. Undoable(undo) /\ SameHistory(history, chistory)
  BY <1>2, Empty DEF Undoable, SameHistory
<1>4. SameBreaks(breaks, conditions, cbreaks) /\ IsFunction(watches)
  BY <1>2 DEF SameBreaks, IsFunction, EmptyFunction
<1> QED
  BY <1>1, <1>2, <1>3, <1>4, AlikeIdle DEF Alike

LEMMA AlikeStep ==
  ASSUME MachinesOK, NumbersFresh, ~parted => Alike, [DebugNext]_allVars
  PROVE  (~parted => Alike)'
<1> SUFFICES ASSUME ~parted' PROVE Alike'
  OBVIOUS
<1>0. MachineOK(machine)
  BY DEF MachinesOK
<1>1. CASE \E c \in Commands : Type(c)
  <2> PICK c \in Commands : Type(c)
    BY <1>1
  <2>1. ~parted /\ ~PartsWays(c) /\ Execute(c) /\ C!Execute(c)
    BY DEF Type
  <2> QED
    BY <1>0, <2>1, CommandsAlike
<1>2. ASSUME Alike, UNCHANGED <<vars, consoleVars>> PROVE Alike'
  <2>1. /\ UNCHANGED <<machine, memory, tables, trail>> /\ task' = task
        /\ UNCHANGED <<C!target, C!memory, C!tables, C!trail>> /\ ctask' = ctask
    BY <1>2 DEF vars, consoleVars, memory, tables, trail, C!target, C!memory, C!tables, C!trail
  <2>2. SameTask(task', ctask')
    BY <1>2, <2>1 DEF Alike
  <2> QED
    BY <1>2, <2>1, <2>2, AlikeStays
<1>3. CASE TakeTurns
  <2>1. Alike
    BY <1>3 DEF TakeTurns, notes
  <2>2. (task = Idle) <=> (ctask = Idle)
    <3>1. \A n : UntilTask(task) /\ ctask = [task EXCEPT !.from = n] => ctask # Idle
      <4>1. ASSUME NEW n, UntilTask(task), ctask = [task EXCEPT !.from = n]
            PROVE  ctask.kind = "until"
        BY <4>1 DEF UntilTask
      <4> QED
        BY <4>1, Kinds
    <3> QED
      BY <2>1, <3>1, Kinds DEF Alike, SameTask
  <2>3. (Turns => task # Idle) /\ (C!Turns => ctask # Idle)
    BY Kinds DEF Turns, RunTurn, UntilTurn, StepStateTurn,
                 C!Turns, C!RunTurn, C!UntilTurn, C!StepStateTurn
  <2>4. Turns /\ C!Turns
    BY <1>3, <2>2, <2>3, Kinds DEF TakeTurns, Ready, C!Ready
  <2> QED
    BY <1>0, <2>1, <2>4, TurnsAlike
<1>4. CASE LinkLost
  <2>1. Alike /\ remote
    BY <1>4 DEF LinkLost, notes, C!LinkLost
  <2> QED
    BY <2>1 DEF Alike
<1>5. CASE UNCHANGED allVars
  BY <1>2, <1>5 DEF allVars, notes
<1> QED
  BY <1>1, <1>3, <1>4, <1>5 DEF DebugNext

\* Given the same commands, but for those on which they differ by design, the
\* two debuggers are in the same state at every turn of every command.
THEOREM HostSameDebugger == DebugSpec => []SameDebugger
<1>1. (~parted => Alike) => SameDebugger
  <2> SUFFICES ASSUME Alike PROVE
        /\ Ready <=> C!Ready
        /\ cmachine = machine /\ csource = source /\ csymbols = symbols
        /\ cframes = frames /\ cundo = undo /\ cwatches = watches
        /\ Len(chistory) = Len(history)
        /\ \A k \in DOMAIN history : chistory[k].before = history[k].before
        /\ DOMAIN cbreaks = DOMAIN breaks
        /\ \A at \in DOMAIN breaks : /\ cbreaks[at].id = breaks[at]
                                     /\ C!Condition(at) = Condition(at)
    BY DEF SameDebugger
  <2>1. Ready <=> C!Ready
    <3>1. \A n : UntilTask(task) /\ ctask = [task EXCEPT !.from = n] => ctask # Idle
      <4>1. ASSUME NEW n, UntilTask(task), ctask = [task EXCEPT !.from = n]
            PROVE  ctask.kind = "until"
        BY <4>1 DEF UntilTask
      <4> QED
        BY <4>1, Kinds
    <3> QED
      BY <3>1, Kinds DEF Alike, SameTask, Ready, C!Ready
  <2>2. DOMAIN history = 1 .. Len(history)
    BY LenProperties DEF Alike, SameHistory, IsSequence
  <2>3. \A at \in DOMAIN breaks : C!Condition(at) = Condition(at)
    BY SameCondition
  <2> QED
    BY <2>1, <2>2, <2>3 DEF Alike, SameHistory, SameBreaks
<1> QED
  BY <1>1, AlikeInit, AlikeStep, NumbersInit, NumbersStep, MachinesInvariant, PTL DEF DebugSpec

=============================================================================
