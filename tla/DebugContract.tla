---------------------------- MODULE DebugContract ----------------------------
(***************************************************************************)
(* What the guest debugger promises, with no EBREAK patch in sight: a      *)
(* program image that only writes change, a hart that executes that image  *)
(* and nothing else, and a set of breakpoints none of which is executed    *)
(* unless the target was resumed there.  `wild' records that one of the    *)
(* gaps named in GuestDebug was taken: the contract is void from then on.  *)
(***************************************************************************)
EXTENDS Integers

CONSTANTS Ram, Word, EBREAK, Kind, Regs, Succ, Effective

VARIABLES
  image,     \* the program and data, as the user and the program wrote them
  pc, x,     \* where the hart is, its registers
  running,   \* has the target the hart?
  breaks,    \* addresses of the breakpoints of the user
  fresh,     \* nothing retired since the last resume
  wild       \* a gap was taken

vars == <<image, pc, x, running, breaks, fresh, wild>>

Init ==
  /\ image \in [Ram -> Word] /\ pc \in Ram /\ x \in Regs
  /\ running = TRUE /\ breaks = {} /\ fresh = TRUE /\ wild = FALSE

(* The word of the image at pc retires; a store may change one other word. *)
Retire ==
  /\ running /\ pc \in Ram
  /\ pc \in breaks => fresh
  /\ Kind[image[pc]] \in {"plain", "unsupported", "load", "store", "ecall"}
  /\ pc' = Succ[<<image[pc], x, pc>>] /\ x' \in Regs /\ fresh' = FALSE
  /\ \A a \in Ram : image'[a] # image[a] =>
       /\ Kind[image[pc]] = "store" /\ a = Effective[<<image[pc], x>>]
       /\ a \notin breaks
  /\ running' = TRUE /\ UNCHANGED breaks

Stop == running /\ running' = FALSE /\ UNCHANGED <<image, pc, x, breaks, fresh>>

(* A resume keeps the program and its registers, and skips at most an      *)
(* ebreak of the program itself.                                           *)
Resume ==
  /\ ~running /\ running' = TRUE /\ fresh' = TRUE
  /\ pc' # pc => /\ pc \in Ram /\ image[pc] = EBREAK /\ pc \notin breaks
                 /\ pc' = IF pc + 1 \in Ram THEN pc + 1 ELSE -1
  /\ UNCHANGED <<image, x, breaks>>

(* run-at and basic start a payload they may have copied first.            *)
Launch ==
  /\ ~running /\ running' = TRUE /\ fresh' = TRUE /\ pc' \in Ram /\ x' \in Regs
  /\ \A a \in breaks : image'[a] = image[a]
  /\ UNCHANGED breaks

(* A command writes memory or sets a breakpoint, never both: breakpoints   *)
(* do not change the program, and nothing is written under one.            *)
Command ==
  /\ ~running /\ running' = FALSE
  /\ breaks' = breaks \/ UNCHANGED <<image, pc, x>>
  /\ \A a \in breaks : image'[a] = image[a]

Next ==
  /\ wild => wild'
  /\ wild' \/ Retire \/ Stop \/ Resume \/ Launch \/ Command

Spec == Init /\ [][Next]_vars
=============================================================================
