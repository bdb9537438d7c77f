-------------------------------- MODULE UartRx --------------------------------
(***************************************************************************)
(* The serial input of the guest: the 16550A and its FIFO, the PLIC, the   *)
(* software ring of uart16550.rs, and the readers of main.rs: the prompt   *)
(* (uart_read_line), the services of the target (read_char, poll_char,     *)
(* poll_break) and the interrupt handler.                                  *)
(*                                                                         *)
(* The hart is alone, and M-mode runs with interrupts off, so what really  *)
(* interleaves is the arrival of characters: each access of poll_rx to the *)
(* device is an action, and a character may arrive between any two.        *)
(* Characters are numbered as they are sent; which of them are Ctrl-C is a *)
(* choice of the sender, kept in `ctrl'.                                   *)
(*                                                                         *)
(* A definition marked `mutant' is a plausible slip in the definition that *)
(* follows it; nothing uses it, and the properties are known to catch it.  *)
(***************************************************************************)
EXTENDS Integers, Sequences, FiniteSets

CONSTANTS
  Capacity,   \* RX_CAPACITY, the size of the ring
  FifoSize,   \* the FIFO of the device
  Characters  \* bound: the sender sends this many characters

ASSUME SizeAssumption ==
  /\ Capacity \in Nat \ {0} /\ FifoSize \in Nat \ {0} /\ Characters \in Nat

Numbers == 1 .. Characters
Slots == 0 .. Capacity - 1
Operations == {"none", "boot", "irq", "print", "line", "write", "read", "poll_char", "poll_break"}

VARIABLES
  sent,       \* how many characters the sender has put on the line
  ctrl,       \* those of them that are Ctrl-C
  fifo,       \* the receive FIFO of the device, oldest first
  oe,         \* LSR.OE: the FIFO overflowed since LSR was read
  ier,        \* are the receive interrupts of the device enabled?
  gateway,    \* PLIC, UART source: "idle", "pending" or "claimed"
  buffer,     \* RX_BUFFER
  head, tail, count,   \* RX_HEAD, RX_TAIL, RX_COUNT
  break,      \* RX_BREAK_REQUESTED
  overruns, drops,     \* RX_HARDWARE_OVERRUNS, RX_SOFTWARE_DROPS
  mode,       \* "target", "prompt", or inside the driver: poll_rx is about to
              \* read LSR ("status") or RX ("byte"), or has returned ("served")
  op,         \* what the driver was called for
  taken,      \* history: ordinary characters given to a reader, in order
  lost,       \* history: ordinary characters no reader will see, by place
  unanswered  \* history: Ctrl-Cs captured since a service last answered 3

line == <<sent, ctrl>>
device == <<fifo, oe>>
ring == <<buffer, head, tail, count>>
counters == <<overruns, drops>>
history == <<taken, lost, unanswered>>
vars == <<line, device, ier, gateway, ring, break, counters, mode, op, history>>

Empty == 0
After(i) == IF i + 1 = Capacity THEN 0 ELSE i + 1    \* (i + 1) % RX_CAPACITY

-----------------------------------------------------------------------------
(* The line and the device.                                                *)

Arrive(c) ==
  /\ sent < Characters /\ sent' = sent + 1
  /\ ctrl' = IF c THEN ctrl \cup {sent + 1} ELSE ctrl
  /\ IF Len(fifo) < FifoSize
     THEN fifo' = Append(fifo, sent + 1) /\ UNCHANGED <<oe, lost>>
     ELSE fifo' = fifo /\ oe' = TRUE /\ lost' = [lost EXCEPT !.hardware = @ \cup {sent + 1}]
  /\ UNCHANGED <<ier, gateway, ring, break, counters, mode, op, taken, unanswered>>

(* The level of the device reaches the PLIC, which forwards one request    *)
(* until it is completed.                                                  *)
Raise ==
  /\ ier /\ gateway = "idle" /\ (fifo # <<>> \/ oe)
  /\ gateway' = "pending"
  /\ UNCHANGED <<line, device, ier, ring, break, counters, mode, op, history>>

-----------------------------------------------------------------------------
(* poll_rx and pop_rx.                                                     *)

Calls(o) == mode' = "status" /\ op' = o

CountsAtTheEnd ==                                                \* mutant
  /\ mode = "status" /\ oe' = FALSE
  /\ overruns' = IF oe /\ fifo = <<>> THEN overruns + 1 ELSE overruns
  /\ mode' = IF fifo # <<>> THEN "byte" ELSE "served"
  /\ UNCHANGED <<line, fifo, ier, gateway, ring, break, drops, op, history>>

(* LSR is read, which clears OE; without DATA_READY poll_rx returns.       *)
ReadStatus ==
  /\ mode = "status" /\ oe' = FALSE
  /\ overruns' = IF oe THEN overruns + 1 ELSE overruns
  /\ mode' = IF fifo # <<>> THEN "byte" ELSE "served"
  /\ UNCHANGED <<line, fifo, ier, gateway, ring, break, drops, op, history>>

Store(c) ==
  /\ buffer' = [buffer EXCEPT ![head] = c] /\ head' = After(head) /\ count' = count + 1
  /\ UNCHANGED <<drops, lost>>
OverwriteOldest(c) ==                                            \* mutant
  /\ buffer' = [buffer EXCEPT ![head] = c] /\ head' = After(head)
  /\ count' = IF count = Capacity THEN count ELSE count + 1
  /\ UNCHANGED <<drops, lost>>
StoreOrDrop(c) ==
  IF count = Capacity
  THEN /\ drops' = drops + 1 /\ lost' = [lost EXCEPT !.software = @ \cup {c}]
       /\ UNCHANGED <<buffer, head, count>>
  ELSE Store(c)

ReadByte ==
  /\ mode = "byte" /\ mode' = "status" /\ fifo' = Tail(fifo)
  /\ IF Head(fifo) \in ctrl
     THEN /\ break' = TRUE /\ unanswered' = unanswered \cup {Head(fifo)}
          /\ UNCHANGED <<buffer, head, count, drops, lost>>
     ELSE StoreOrDrop(Head(fifo)) /\ UNCHANGED <<break, unanswered>>
  /\ UNCHANGED <<line, oe, ier, gateway, tail, overruns, op, taken>>

Popped == buffer[tail]
PopNewest == head' = tail /\ count' = count - 1 /\ UNCHANGED <<buffer, tail>>  \* mutant
Pop == tail' = After(tail) /\ count' = count - 1 /\ UNCHANGED <<buffer, head>>
Delivered == Pop /\ taken' = Append(taken, Popped) /\ UNCHANGED lost

(* poll_rx is called again: by uart_get until the ring holds a character,  *)
(* and by each put of whatever is being written.                           *)
PollAgain ==
  /\ mode = "served" /\ mode' = "status"
  /\ \/ op \in {"read", "line"} /\ count = 0
     \/ op \in {"boot", "print", "write"}
  /\ UNCHANGED <<line, device, ier, gateway, ring, break, counters, op, history>>

-----------------------------------------------------------------------------
(* The target runs; the machine external interrupt.                        *)

ResumeTarget == mode' = "target" /\ op' = "none" /\ ier' = TRUE

(* rust_main: the banner is written, then the target is entered.           *)
EnterTarget ==
  /\ mode = "served" /\ op = "boot" /\ ResumeTarget
  /\ UNCHANGED <<line, device, gateway, ring, break, counters, history>>

(* handle_machine_external_interrupt: claim, service_interrupt, complete.  *)
Interrupt ==
  /\ mode = "target" /\ gateway = "pending"
  /\ gateway' = "claimed" /\ Calls("irq")
  /\ UNCHANGED <<line, device, ier, ring, break, counters, history>>

NeverCompletes ==                                                \* mutant
  /\ mode = "served" /\ op = "irq" /\ ResumeTarget
  /\ UNCHANGED <<line, device, gateway, ring, break, counters, history>>
InterruptEnd ==
  /\ mode = "served" /\ op = "irq"
  /\ gateway' = "idle" /\ ResumeTarget
  /\ UNCHANGED <<line, device, ring, break, counters, history>>

(* The target stops: the monitor disables the device's interrupts and      *)
(* prints its prompt.  A command sends the target on again.                *)
MonitorLoop ==
  /\ mode = "target" /\ Calls("print") /\ ier' = FALSE
  /\ UNCHANGED <<line, device, gateway, ring, break, counters, history>>
Continue ==
  /\ mode = "prompt" /\ ResumeTarget
  /\ UNCHANGED <<line, device, gateway, ring, break, counters, history>>

-----------------------------------------------------------------------------
(* The services of the target.  One that finds a Ctrl-C already captured   *)
(* answers 3 at once (take_break_request).                                 *)

Answers3 == break' = FALSE /\ unanswered' = {}

ServiceBreak ==
  /\ mode = "target" /\ break /\ Answers3 /\ ResumeTarget
  /\ UNCHANGED <<line, device, gateway, ring, counters, taken, lost>>

Service(o) ==
  /\ mode = "target" /\ (o # "write" => ~break) /\ Calls(o)
  /\ UNCHANGED <<line, device, ier, gateway, ring, break, counters, history>>

(* target_read_char asks for a Ctrl-C once more when uart_get returns, and *)
(* then the character that uart_get took is given to nobody.               *)
ReadEnd ==
  /\ mode = "served" /\ op = "read" /\ count > 0 /\ ResumeTarget
  /\ IF break
     THEN /\ Pop /\ lost' = [lost EXCEPT !.swallowed = @ \cup {Popped}]
          /\ Answers3 /\ UNCHANGED taken
     ELSE Delivered /\ UNCHANGED <<break, unanswered>>
  /\ UNCHANGED <<line, device, gateway, counters>>

BreakAskedFirst ==                                               \* mutant
  /\ mode = "served" /\ op = "poll_char" /\ ResumeTarget
  /\ break' = FALSE /\ IF count > 0
     THEN Delivered /\ UNCHANGED unanswered
     ELSE UNCHANGED <<ring, taken, lost>> /\ unanswered' = {}
  /\ UNCHANGED <<line, device, gateway, counters>>
PollCharEnd ==
  /\ mode = "served" /\ op = "poll_char" /\ ResumeTarget
  /\ IF count > 0
     THEN Delivered /\ UNCHANGED <<break, unanswered>>
     ELSE UNCHANGED <<ring, taken, lost>> /\ Answers3   \* 3, or 0 if ~break
  /\ UNCHANGED <<line, device, gateway, counters>>

(* target_poll_break after peek: zero, whatever peek found or captured.    *)
PollBreakEnd ==
  /\ mode = "served" /\ op \in {"poll_break", "write"} /\ ResumeTarget
  /\ UNCHANGED <<line, device, gateway, ring, break, counters, history>>

-----------------------------------------------------------------------------
(* The prompt: uart_read_line takes one character at a time, and whatever  *)
(* is printed polls the device on the way.                                 *)

Prompt(o) ==
  /\ mode = "prompt" /\ Calls(o)
  /\ UNCHANGED <<line, device, ier, gateway, ring, break, counters, history>>

PromptEnd ==
  /\ mode = "served" /\ mode' = "prompt" /\ op' = "none"
  /\ \/ op = "line" /\ count > 0 /\ Delivered
     \/ op = "print" /\ UNCHANGED <<ring, taken, lost>>
  /\ UNCHANGED <<line, device, ier, gateway, break, counters, unanswered>>

-----------------------------------------------------------------------------
Init ==
  /\ sent = 0 /\ ctrl = {} /\ fifo = <<>> /\ oe = FALSE
  /\ ier = FALSE /\ gateway = "idle"
  /\ buffer = [i \in Slots |-> Empty] /\ head = 0 /\ tail = 0 /\ count = 0
  /\ break = FALSE /\ overruns = 0 /\ drops = 0
  /\ mode = "status" /\ op = "boot"
  /\ taken = <<>> /\ unanswered = {}
  /\ lost = [hardware |-> {}, software |-> {}, swallowed |-> {}]

Driver ==
  \/ ReadStatus \/ ReadByte \/ PollAgain \/ EnterTarget \/ InterruptEnd
  \/ ReadEnd \/ PollCharEnd \/ PollBreakEnd \/ PromptEnd

PromptServes == Continue \/ \E o \in {"line", "print"} : Prompt(o)

Next ==
  \/ \E c \in BOOLEAN : Arrive(c)
  \/ Raise \/ Interrupt \/ Driver \/ PromptServes
  \/ ServiceBreak \/ \E o \in {"write", "read", "poll_char", "poll_break"} : Service(o)
  \/ MonitorLoop

Spec == Init /\ [][Next]_vars

(* M-mode code runs; the device raises its level; and a pending interrupt  *)
(* is taken before the target can execute for ever, whatever it calls.     *)
FairSpec ==
  /\ Spec /\ WF_vars(Raise) /\ SF_vars(Interrupt)
  /\ WF_vars(Driver) /\ WF_vars(PromptServes)
-----------------------------------------------------------------------------
(* The ordinary characters that wait, in the ring and in the FIFO.         *)

Slot(i) == IF tail + i < Capacity THEN tail + i ELSE tail + i - Capacity
Ring == [i \in 1 .. count |-> buffer[Slot(i - 1)]]
Ordinary(n) == n \notin ctrl
Members(s) == {s[i] : i \in DOMAIN s}
Held == {n \in Members(fifo) : Ordinary(n)}
Waiting == Members(Ring) \cup Held

(* The ring's indexes stay inside the buffer and agree with the count.     *)
TypeOK ==
  /\ sent \in 0 .. Characters /\ ctrl \in SUBSET Numbers
  /\ fifo \in Seq(Numbers) /\ Len(fifo) <= FifoSize /\ oe \in BOOLEAN
  /\ ier \in BOOLEAN /\ gateway \in {"idle", "pending", "claimed"}
  /\ buffer \in [Slots -> Numbers \cup {Empty}]
  /\ head \in Slots /\ tail \in Slots /\ count \in 0 .. Capacity
  /\ head = Slot(count)
  /\ break \in BOOLEAN /\ overruns \in Nat /\ drops \in Nat
  /\ mode \in {"target", "prompt", "status", "byte", "served"} /\ op \in Operations
  /\ taken \in Seq(Numbers) /\ unanswered \in SUBSET Numbers
  /\ lost \in [{"hardware", "software", "swallowed"} -> SUBSET Numbers]

(* No reader sees two characters in another order than they were sent in,  *)
(* nor one of them twice, whichever reader takes them, whatever is dropped *)
(* between them and wherever the ring wraps (poll_rx, pop_rx).             *)
Increasing(s) == \A i, j \in DOMAIN s : i < j => s[i] < s[j]
Precedes(s, t) == \A i \in DOMAIN s, j \in DOMAIN t : s[i] < t[j]
InOrder ==
  /\ Increasing(taken) /\ Increasing(Ring) /\ Increasing(fifo)
  /\ Precedes(taken, Ring) /\ Precedes(taken, fifo) /\ Precedes(Ring, fifo)

(* No character vanishes: each ordinary one that found room in the FIFO    *)
(* waits, was read, or is in exactly one of the two other losses, and those*)
(* the ring had no room for are in software_drops, one by one.             *)
Arrived == {n \in 1 .. sent : Ordinary(n) /\ n \notin lost.hardware}
Accounted ==
  /\ Arrived = Members(Ring) \cup Held \cup Members(taken) \cup lost.software \cup lost.swallowed
  /\ Cardinality(Arrived) =
       count + Cardinality(Held) + Len(taken) + drops + Cardinality(lost.swallowed)
  /\ Cardinality(lost.software) = drops

(* The statistics of `info uart' never hide that the FIFO overflowed: an   *)
(* overflow has been counted or is still in LSR; and none is counted that  *)
(* did not happen.                                                         *)
OverrunsAreReported ==
  /\ lost.hardware # {} => overruns > 0 \/ oe
  /\ overruns + (IF oe THEN 1 ELSE 0) <= Cardinality(lost.hardware)

(* A Ctrl-C that left the FIFO is remembered until some service answers 3  *)
(* for it, whatever is read or printed meanwhile: none is cleared without  *)
(* an answer (the two places that ask take_break_request), and none is     *)
(* answered twice.                                                         *)
BreakIsRemembered == break <=> unanswered # {}

(* The FIFO is always drained again, whether the target runs and never     *)
(* calls a service, waits in read_char, or the monitor reads commands: the *)
(* interrupt is completed and comes again, and prompt and services poll.   *)
FifoIsDrained == \A n \in Numbers : n \in Members(fifo) ~> n \notin Members(fifo)

(* The abstract queue: what the readers may count on.                      *)
Queue == INSTANCE LossyInput WITH
  queue <- Waiting, delivered <- taken, Room <- Capacity
ImplementsQueue == Queue!Spec

(* The inductive invariant: order holds because the ring and the FIFO hold *)
(* what was sent, and the driver reads RX only after LSR said there is one.*)
Inv ==
  /\ TypeOK /\ InOrder
  /\ \A i \in DOMAIN taken : taken[i] <= sent
  /\ \A i \in DOMAIN Ring : Ring[i] \in 1 .. sent
  /\ \A i \in DOMAIN fifo : fifo[i] <= sent
  /\ mode = "byte" => fifo # <<>>

-----------------------------------------------------------------------------
(* What the documents say and the code does not do.                        *)

(* TUTORIAL-GUEST.md:76-78: the characters received are buffered while the *)
(* target runs: no reader makes one disappear (target_read_char does).     *)
NothingIsSwallowed == lost.swallowed = {}

(* TUTORIAL-GUEST.md:110-111: Ctrl-C is returned by read_char, also when   *)
(* it is typed while read_char waits (uart_get does not look for it).      *)
ReadReturnsBreak == (op = "read" /\ break) ~> (op # "read")
=============================================================================
