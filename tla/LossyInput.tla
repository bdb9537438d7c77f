------------------------------ MODULE LossyInput ------------------------------
(***************************************************************************)
(* What the readers of the guest's serial input may count on: a queue of   *)
(* the ordinary characters, in the order they were sent, from which a      *)
(* character disappears only by being delivered, oldest first, or by one   *)
(* of the two losses named here.  Characters are numbered as they are      *)
(* sent, so the queue is the set of those that wait.                       *)
(***************************************************************************)
EXTENDS Integers, Sequences, FiniteSets

CONSTANT Room      \* characters that are safe from Drop

VARIABLES sent, queue, delivered

Before(n) == {m \in queue : m < n}

Init == sent = 0 /\ queue = {} /\ delivered = <<>>

(* A character is sent; it may be a Ctrl-C, or not fit the device.         *)
Send ==
  /\ sent' = sent + 1 /\ queue' \in {queue, queue \cup {sent + 1}}
  /\ UNCHANGED delivered

Deliver ==
  \E n \in queue :
    /\ Before(n) = {} /\ queue' = queue \ {n} /\ delivered' = Append(delivered, n)
    /\ UNCHANGED sent

(* With more than Room of them waiting, the first that has no room.        *)
Drop ==
  \E n \in queue :
    /\ Cardinality(Before(n)) = Room /\ queue' = queue \ {n}
    /\ UNCHANGED <<sent, delivered>>

(* read_char answers Ctrl-C, and takes an ordinary character with it.      *)
Swallow ==
  \E n \in queue :
    /\ Before(n) = {} /\ queue' = queue \ {n}
    /\ UNCHANGED <<sent, delivered>>

Next == Send \/ Deliver \/ Drop \/ Swallow

Spec == Init /\ [][Next]_<<sent, queue, delivered>>
=============================================================================
