---------------------------- MODULE UartRxProofs ----------------------------
(***************************************************************************)
(* What is proved of UartRx for every size of the ring and of the FIFO and *)
(* every number of characters: the type invariant, with the arithmetic of  *)
(* the ring, that characters are delivered in order, each at most once,    *)
(* that no overrun is hidden, that a Ctrl-C is never forgotten, that every *)
(* character is accounted for, and that all of it implements LossyInput.   *)
(***************************************************************************)
EXTENDS UartRx, SequenceTheorems, FiniteSetTheorems, TLAPS

(* The order part of Inv, of the number sent n, a ring q, a FIFO f and the *)
(* characters taken t.                                                     *)
Ordered(n, q, f, t) ==
  /\ Increasing(t) /\ Increasing(q) /\ Increasing(f)
  /\ Precedes(t, q) /\ Precedes(t, f) /\ Precedes(q, f)
  /\ \A i \in DOMAIN t : t[i] <= n
  /\ \A i \in DOMAIN q : q[i] \in 1 .. n
  /\ \A i \in DOMAIN f : f[i] <= n

-----------------------------------------------------------------------------
(* Lemmas on sequences.                                                    *)

LEMMA IndexedAppend ==
  ASSUME NEW s \in Seq(Int), NEW c \in Int
  PROVE  /\ DOMAIN Append(s, c) = 1 .. Len(s) + 1 /\ DOMAIN s = 1 .. Len(s) /\ Len(s) \in Nat
         /\ \A i \in 1 .. Len(s) : Append(s, c)[i] = s[i] /\ s[i] \in Int
         /\ Append(s, c)[Len(s) + 1] = c
BY AppendProperties, ElementOfSeq, LenProperties

LEMMA IndexedTail ==
  ASSUME NEW s \in Seq(Int), s # <<>>
  PROVE  /\ DOMAIN Tail(s) = 1 .. Len(s) - 1 /\ DOMAIN s = 1 .. Len(s) /\ Len(s) \in Nat \ {0}
         /\ \A i \in 1 .. Len(s) - 1 : Tail(s)[i] = s[i + 1]
         /\ \A i \in 1 .. Len(s) : s[i] \in Int
         /\ Head(s) = s[1] /\ Head(s) \in Int
BY HeadTailProperties, ElementOfSeq, LenProperties, EmptySeq

(* How the two relations on sequences survive Append and Tail.             *)
LEMMA AppendKeepsOrder ==
  ASSUME NEW s \in Seq(Int), NEW c \in Int, \A i \in DOMAIN s : s[i] < c
  PROVE  /\ Increasing(s) => Increasing(Append(s, c))
         /\ \A r : Precedes(r, s) /\ (\A i \in DOMAIN r : r[i] < c) => Precedes(r, Append(s, c))
<1> DEFINE a == Append(s, c)
<1>1. /\ DOMAIN a = 1 .. Len(s) + 1 /\ DOMAIN s = 1 .. Len(s) /\ Len(s) \in Nat
      /\ \A i \in 1 .. Len(s) : a[i] = s[i] /\ s[i] \in Int
      /\ a[Len(s) + 1] = c
  BY IndexedAppend
<1> HIDE DEF a
<1>2. ASSUME Increasing(s), NEW i \in DOMAIN a, NEW j \in DOMAIN a, i < j
      PROVE  a[i] < a[j]
  BY <1>1, <1>2 DEF Increasing
<1>3. ASSUME NEW r, Precedes(r, s), \A i \in DOMAIN r : r[i] < c,
             NEW i \in DOMAIN r, NEW j \in DOMAIN a
      PROVE  r[i] < a[j]
  <2>1. j \in DOMAIN s \/ j = Len(s) + 1
    BY <1>1
  <2> QED
    BY <1>1, <1>3, <2>1 DEF Precedes
<1> QED
  BY <1>2, <1>3 DEF Increasing, Precedes, a

LEMMA AppendPrecedes ==
  ASSUME NEW s \in Seq(Int), NEW c \in Int, NEW r,
         Precedes(s, r), \A j \in DOMAIN r : c < r[j]
  PROVE  Precedes(Append(s, c), r)
<1> DEFINE a == Append(s, c)
<1>1. /\ DOMAIN a = 1 .. Len(s) + 1 /\ DOMAIN s = 1 .. Len(s) /\ Len(s) \in Nat
      /\ \A i \in 1 .. Len(s) : a[i] = s[i]
      /\ a[Len(s) + 1] = c
  BY IndexedAppend
<1> HIDE DEF a
<1>2. ASSUME NEW i \in DOMAIN a, NEW j \in DOMAIN r PROVE a[i] < r[j]
  <2>1. i \in DOMAIN s \/ i = Len(s) + 1
    BY <1>1
  <2> QED
    BY <1>1, <2>1 DEF Precedes
<1> QED
  BY <1>2 DEF Precedes, a

LEMMA TailKeepsOrder ==
  ASSUME NEW s \in Seq(Int), s # <<>>
  PROVE  /\ Increasing(s) => /\ Increasing(Tail(s))
                             /\ \A i \in DOMAIN Tail(s) : Head(s) < Tail(s)[i]
         /\ \A r : Precedes(r, s) => /\ Precedes(r, Tail(s))
                                     /\ \A i \in DOMAIN r : r[i] < Head(s)
         /\ \A r : Precedes(s, r) => /\ Precedes(Tail(s), r)
                                     /\ \A i \in DOMAIN r : Head(s) < r[i]
<1> DEFINE u == Tail(s)
           h == Head(s)
<1>1. /\ DOMAIN u = 1 .. Len(s) - 1 /\ DOMAIN s = 1 .. Len(s) /\ Len(s) \in Nat \ {0}
      /\ \A i \in 1 .. Len(s) - 1 : u[i] = s[i + 1]
      /\ h = s[1]
  BY IndexedTail
<1> HIDE DEF u, h
<1>2. \A i \in DOMAIN u : i + 1 \in DOMAIN s /\ u[i] = s[i + 1] /\ 1 < i + 1
  BY <1>1
<1>3. 1 \in DOMAIN s
  BY <1>1
<1>4. Increasing(s) => Increasing(u)
  <2> SUFFICES ASSUME Increasing(s), NEW i \in DOMAIN u, NEW j \in DOMAIN u, i < j
               PROVE  u[i] < u[j]
    BY DEF Increasing
  <2>1. i + 1 < j + 1
    BY <1>1
  <2> QED
    BY <1>2, <2>1 DEF Increasing
<1>5. Increasing(s) => \A i \in DOMAIN u : h < u[i]
  BY <1>1, <1>2, <1>3 DEF Increasing
<1>6. \A r : Precedes(r, s) => Precedes(r, u) /\ \A i \in DOMAIN r : r[i] < h
  BY <1>1, <1>2, <1>3 DEF Precedes
<1>7. \A r : Precedes(s, r) => Precedes(u, r) /\ \A i \in DOMAIN r : h < r[i]
  BY <1>1, <1>2, <1>3 DEF Precedes
<1> QED
  BY <1>4, <1>5, <1>6, <1>7 DEF u, h

(* A new character is younger than everything.                             *)
LEMMA OrderedArrive ==
  ASSUME NEW n \in Nat, NEW q \in Seq(Int), NEW f \in Seq(Int), NEW t \in Seq(Int),
         Ordered(n, q, f, t)
  PROVE  Ordered(n + 1, q, f, t) /\ Ordered(n + 1, q, Append(f, n + 1), t)
<1>1. \A i \in DOMAIN t : t[i] \in Int /\ t[i] < n + 1 /\ t[i] <= n + 1
  BY ElementOfSeq, LenProperties DEF Ordered
<1>2. \A i \in DOMAIN q : q[i] \in 1 .. n + 1 /\ q[i] < n + 1
  BY DEF Ordered
<1>3. \A i \in DOMAIN f : f[i] \in Int /\ f[i] < n + 1 /\ f[i] <= n + 1
  BY ElementOfSeq, LenProperties DEF Ordered
<1>4. Ordered(n + 1, q, f, t)
  BY <1>1, <1>2, <1>3 DEF Ordered
<1>5. /\ Increasing(Append(f, n + 1))
      /\ Precedes(t, Append(f, n + 1)) /\ Precedes(q, Append(f, n + 1))
  BY <1>1, <1>2, <1>3, AppendKeepsOrder DEF Ordered
<1>6. \A i \in DOMAIN Append(f, n + 1) : Append(f, n + 1)[i] <= n + 1
  <2>1. n + 1 \in Int
    OBVIOUS
  <2> QED
    BY <1>3, <2>1, IndexedAppend
<1> QED
  BY <1>4, <1>5, <1>6 DEF Ordered

(* The oldest character of the FIFO goes to the ring, or is dropped.       *)
LEMMA OrderedReceive ==
  ASSUME NEW n \in Nat, NEW q \in Seq(Int), NEW f \in Seq(Int), NEW t \in Seq(Int),
         Ordered(n, q, f, t), f # <<>>, Head(f) \in 1 .. n
  PROVE  Ordered(n, q, Tail(f), t) /\ Ordered(n, Append(q, Head(f)), Tail(f), t)
<1>1. /\ Increasing(Tail(f)) /\ Precedes(t, Tail(f)) /\ Precedes(q, Tail(f))
      /\ \A i \in DOMAIN Tail(f) : Head(f) < Tail(f)[i]
      /\ \A i \in DOMAIN q : q[i] < Head(f)
      /\ \A i \in DOMAIN t : t[i] < Head(f)
  BY TailKeepsOrder DEF Ordered
<1>2. \A i \in DOMAIN Tail(f) : Tail(f)[i] <= n
  <2>1. \A i \in DOMAIN Tail(f) : i + 1 \in DOMAIN f /\ Tail(f)[i] = f[i + 1]
    BY IndexedTail
  <2> QED
    BY <2>1 DEF Ordered
<1>3. Head(f) \in Int
  OBVIOUS
<1>4. /\ Increasing(Append(q, Head(f))) /\ Precedes(t, Append(q, Head(f)))
  BY <1>1, <1>3, AppendKeepsOrder DEF Ordered
<1>5. Precedes(Append(q, Head(f)), Tail(f))
  BY <1>1, <1>3, AppendPrecedes
<1>6. \A i \in DOMAIN Append(q, Head(f)) : Append(q, Head(f))[i] \in 1 .. n
  BY <1>3, IndexedAppend, SMTT(90) DEF Ordered
<1> QED
  BY <1>1, <1>2, <1>4, <1>5, <1>6 DEF Ordered

(* The oldest character of the ring is delivered, or swallowed.            *)
LEMMA OrderedPop ==
  ASSUME NEW n \in Nat, NEW q \in Seq(Int), NEW f \in Seq(Int), NEW t \in Seq(Int),
         Ordered(n, q, f, t), q # <<>>
  PROVE  Ordered(n, Tail(q), f, t) /\ Ordered(n, Tail(q), f, Append(t, Head(q)))
<1>1. /\ Increasing(Tail(q)) /\ Precedes(t, Tail(q)) /\ Precedes(Tail(q), f)
      /\ \A i \in DOMAIN Tail(q) : Head(q) < Tail(q)[i]
      /\ \A i \in DOMAIN t : t[i] < Head(q)
      /\ \A i \in DOMAIN f : Head(q) < f[i]
  BY TailKeepsOrder DEF Ordered
<1>2. \A i \in DOMAIN Tail(q) : Tail(q)[i] \in 1 .. n
  <2>1. \A i \in DOMAIN Tail(q) : i + 1 \in DOMAIN q /\ Tail(q)[i] = q[i + 1]
    BY IndexedTail
  <2> QED
    BY <2>1 DEF Ordered
<1>3. Head(q) \in Int /\ Head(q) <= n
  <2>1. 1 \in DOMAIN q /\ Head(q) = q[1]
    BY IndexedTail
  <2> QED
    BY <2>1 DEF Ordered
<1>4. Increasing(Append(t, Head(q)))
  BY <1>1, <1>3, AppendKeepsOrder DEF Ordered
<1>5. Precedes(Append(t, Head(q)), Tail(q)) /\ Precedes(Append(t, Head(q)), f)
  BY <1>1, <1>3, AppendPrecedes DEF Ordered
<1>6. \A i \in DOMAIN Append(t, Head(q)) : Append(t, Head(q))[i] <= n
  BY <1>3, IndexedAppend, SMTT(90) DEF Ordered
<1> QED
  BY <1>1, <1>2, <1>4, <1>5, <1>6 DEF Ordered

-----------------------------------------------------------------------------
(* The ring as a sequence, of a buffer b, a tail t and a count n.          *)

SlotAt(t, i) == IF t + i < Capacity THEN t + i ELSE t + i - Capacity
RingAt(b, t, n) == [i \in 1 .. n |-> b[SlotAt(t, i - 1)]]
Buffers == [Slots -> Numbers \cup {Empty}]

LEMMA RingIsRingAt ==
  Ring = RingAt(buffer, tail, count) /\ Ring' = RingAt(buffer', tail', count')
BY DEF Ring, RingAt, Slot, SlotAt

LEMMA RingIsASequence ==
  ASSUME NEW b \in Buffers, NEW t \in Slots, NEW n \in 0 .. Capacity
  PROVE  /\ \A i \in 0 .. n - 1 : SlotAt(t, i) \in Slots
         /\ \A i \in 1 .. n : RingAt(b, t, n)[i] = b[SlotAt(t, i - 1)]
         /\ RingAt(b, t, n) \in Seq(Int) /\ Len(RingAt(b, t, n)) = n
<1>1. \A i \in 0 .. n - 1 : SlotAt(t, i) \in Slots
  BY SizeAssumption DEF Slots, SlotAt
<1>2. \A i \in 1 .. n : b[SlotAt(t, i - 1)] \in Int
  BY <1>1 DEF Buffers, Numbers, Empty
<1>3. RingAt(b, t, n) \in [1 .. n -> Int] /\ n \in Nat
  BY <1>2, SizeAssumption DEF RingAt
<1>4. RingAt(b, t, n) \in Seq(Int) /\ DOMAIN RingAt(b, t, n) = 1 .. n
  BY <1>3, SeqDef
<1>5. Len(RingAt(b, t, n)) = n
  BY <1>3, <1>4, LenProperties
<1> QED
  BY <1>1, <1>4, <1>5 DEF RingAt

(* Storing at the slot after the last appends, wherever the ring wraps.    *)
LEMMA StoreAppends ==
  ASSUME NEW b \in Buffers, NEW t \in Slots, NEW n \in 0 .. Capacity, n < Capacity,
         NEW c \in Numbers
  PROVE  LET b2 == [b EXCEPT ![SlotAt(t, n)] = c] IN
         /\ b2 \in Buffers /\ After(SlotAt(t, n)) = SlotAt(t, n + 1)
         /\ After(SlotAt(t, n)) \in Slots
         /\ RingAt(b2, t, n + 1) = Append(RingAt(b, t, n), c)
<1> DEFINE b2 == [b EXCEPT ![SlotAt(t, n)] = c]
<1>1. /\ SlotAt(t, n) \in Slots /\ After(SlotAt(t, n)) = SlotAt(t, n + 1)
      /\ After(SlotAt(t, n)) \in Slots
  BY SizeAssumption DEF Slots, SlotAt, After
<1>2. /\ b2 \in Buffers /\ b2[SlotAt(t, n)] = c
      /\ \A i \in Slots : i # SlotAt(t, n) => b2[i] = b[i]
  BY <1>1 DEF Buffers
<1> HIDE DEF b2
<1>3. /\ RingAt(b2, t, n + 1) \in Seq(Int) /\ Len(RingAt(b2, t, n + 1)) = n + 1
      /\ \A i \in 1 .. n + 1 : RingAt(b2, t, n + 1)[i] = b2[SlotAt(t, i - 1)]
  <2>1. n + 1 \in 0 .. Capacity
    BY SizeAssumption
  <2> QED
    BY <1>2, <2>1, RingIsASequence
<1>4. /\ Append(RingAt(b, t, n), c) \in Seq(Int) /\ Len(Append(RingAt(b, t, n), c)) = n + 1
      /\ \A i \in 1 .. n : Append(RingAt(b, t, n), c)[i] = b[SlotAt(t, i - 1)]
      /\ Append(RingAt(b, t, n), c)[n + 1] = c
  <2>1. c \in Int
    BY DEF Numbers
  <2> QED
    BY <2>1, RingIsASequence, AppendProperties
<1>5. ASSUME NEW i \in 1 .. n PROVE b2[SlotAt(t, i - 1)] = b[SlotAt(t, i - 1)]
  <2>1. SlotAt(t, i - 1) # SlotAt(t, n) /\ SlotAt(t, i - 1) \in Slots
    BY SizeAssumption DEF Slots, SlotAt
  <2> QED
    BY <1>2, <2>1
<1>6. \A i \in 1 .. n + 1 : RingAt(b2, t, n + 1)[i] = Append(RingAt(b, t, n), c)[i]
  <2> TAKE i \in 1 .. n + 1
  <2>1. i \in 1 .. n \/ (i = n + 1 /\ i - 1 = n)
    OBVIOUS
  <2> QED
    BY <1>2, <1>3, <1>4, <1>5, <2>1
<1>7. RingAt(b2, t, n + 1) = Append(RingAt(b, t, n), c)
  BY <1>3, <1>4, <1>6, SeqEqual
<1> QED
  BY <1>1, <1>2, <1>7 DEF b2

(* Popping takes the head.                                                 *)
LEMMA PopTakesHead ==
  ASSUME NEW b \in Buffers, NEW t \in Slots, NEW n \in 0 .. Capacity, n > 0
  PROVE  /\ After(t) \in Slots /\ SlotAt(After(t), n - 1) = SlotAt(t, n)
         /\ RingAt(b, t, n) # <<>> /\ b[t] = Head(RingAt(b, t, n))
         /\ RingAt(b, After(t), n - 1) = Tail(RingAt(b, t, n))
<1>1. After(t) \in Slots /\ SlotAt(After(t), n - 1) = SlotAt(t, n) /\ n - 1 \in 0 .. Capacity
  BY SizeAssumption DEF Slots, SlotAt, After
<1>2. /\ RingAt(b, t, n) \in Seq(Int) /\ Len(RingAt(b, t, n)) = n
      /\ \A i \in 1 .. n : RingAt(b, t, n)[i] = b[SlotAt(t, i - 1)]
  BY RingIsASequence
<1>3. /\ RingAt(b, After(t), n - 1) \in Seq(Int) /\ Len(RingAt(b, After(t), n - 1)) = n - 1
      /\ \A i \in 1 .. n - 1 : RingAt(b, After(t), n - 1)[i] = b[SlotAt(After(t), i - 1)]
  BY <1>1, RingIsASequence
<1>4. RingAt(b, t, n) # <<>>
  BY <1>2, EmptySeq
<1>5. b[t] = Head(RingAt(b, t, n))
  <2>1. SlotAt(t, 1 - 1) = t /\ 1 \in 1 .. n
    BY SizeAssumption DEF Slots, SlotAt
  <2> QED
    BY <1>2, <1>4, <2>1, IndexedTail
<1>6. /\ Tail(RingAt(b, t, n)) \in Seq(Int) /\ Len(Tail(RingAt(b, t, n))) = n - 1
      /\ \A i \in 1 .. n - 1 : Tail(RingAt(b, t, n))[i] = RingAt(b, t, n)[i + 1]
  BY <1>2, <1>4, HeadTailProperties
<1>7. \A i \in 1 .. n - 1 : RingAt(b, After(t), n - 1)[i] = Tail(RingAt(b, t, n))[i]
  <2> TAKE i \in 1 .. n - 1
  <2>1. SlotAt(After(t), i - 1) = SlotAt(t, (i + 1) - 1) /\ i + 1 \in 1 .. n
    BY SizeAssumption DEF Slots, SlotAt, After
  <2> QED
    BY <1>2, <1>3, <1>6, <2>1
<1> QED
  BY <1>1, <1>3, <1>4, <1>5, <1>6, <1>7, SeqEqual

-----------------------------------------------------------------------------
(* What the actions do to the state, in terms of the above.                *)

Losses == [{"hardware", "software", "swallowed"} -> SUBSET Numbers]
Order == Ordered(sent, Ring, fifo, taken)
ByteIsThere == mode = "byte" => fifo # <<>>

LEMMA InvIsOrder == Inv <=> TypeOK /\ Order /\ ByteIsThere
BY DEF Inv, InOrder, Order, Ordered, ByteIsThere

LEMMA RingFacts ==
  ASSUME TypeOK
  PROVE  /\ buffer \in Buffers /\ tail \in Slots /\ head \in Slots /\ count \in 0 .. Capacity
         /\ head = SlotAt(tail, count) /\ Ring = RingAt(buffer, tail, count)
         /\ Ring \in Seq(Int) /\ taken \in Seq(Int) /\ fifo \in Seq(Int)
         /\ sent \in Nat /\ fifo \in Seq(Numbers) /\ taken \in Seq(Numbers)
<1>1. Seq(Numbers) \subseteq Seq(Int)
  <2>1. Numbers \subseteq Int
    BY DEF Numbers
  <2> QED
    BY <2>1, SeqMonotonic
<1> QED
  BY <1>1, RingIsRingAt, RingIsASequence, SizeAssumption
     DEF TypeOK, Buffers, Slot, SlotAt

(* The conjuncts of TypeOK that concern the ring and the losses.           *)
RingTypes ==
  /\ buffer \in Buffers /\ head \in Slots /\ tail \in Slots /\ count \in 0 .. Capacity
  /\ head = Slot(count)

LEMMA StoreOrDropEffect ==
  ASSUME TypeOK, NEW c \in Numbers, StoreOrDrop(c), tail' = tail
  PROVE  /\ RingTypes' /\ drops' \in Nat /\ lost' \in Losses
         /\ Ring' = Ring \/ Ring' = Append(Ring, c)
<1>1. CASE count = Capacity
  <2>1. buffer' = buffer /\ head' = head /\ count' = count /\ drops' = drops + 1
    BY <1>1 DEF StoreOrDrop
  <2>2. lost' \in Losses
    BY <1>1 DEF StoreOrDrop, TypeOK, Losses
  <2>3. RingTypes' /\ drops' \in Nat /\ Ring' = Ring
    BY <2>1 DEF RingTypes, TypeOK, Slot, Ring, Buffers
  <2> QED
    BY <2>2, <2>3
<1>2. CASE count # Capacity
  <2>1. /\ buffer' = [buffer EXCEPT ![head] = c] /\ head' = After(head) /\ count' = count + 1
        /\ drops' = drops /\ lost' = lost
    BY <1>2 DEF StoreOrDrop, Store
  <2>2. count < Capacity /\ count + 1 \in 0 .. Capacity
    BY <1>2, SizeAssumption DEF TypeOK
  <2>3. buffer' \in Buffers /\ head' = SlotAt(tail, count + 1) /\ head' \in Slots
        /\ RingAt(buffer', tail, count + 1) = Append(Ring, c)
    <3> DEFINE b2 == [buffer EXCEPT ![SlotAt(tail, count)] = c]
    <3>1. /\ b2 \in Buffers /\ After(SlotAt(tail, count)) = SlotAt(tail, count + 1)
          /\ After(SlotAt(tail, count)) \in Slots
          /\ RingAt(b2, tail, count + 1) = Append(RingAt(buffer, tail, count), c)
      BY <2>2, RingFacts, StoreAppends
    <3>2. head = SlotAt(tail, count) /\ Ring = RingAt(buffer, tail, count)
      BY RingFacts
    <3>3. buffer' = b2
      BY <2>1, <3>2
    <3> HIDE DEF b2
    <3> QED
      BY <2>1, <3>1, <3>2, <3>3
  <2>4. RingTypes'
    BY <2>1, <2>2, <2>3 DEF RingTypes, TypeOK, Slot, SlotAt
  <2>5. Ring' = Append(Ring, c)
    BY <2>1, <2>3, RingIsRingAt
  <2> QED
    BY <2>1, <2>4, <2>5 DEF TypeOK, Losses
<1> QED
  BY <1>1, <1>2

LEMMA PopEffect ==
  ASSUME TypeOK, Order, count > 0, Pop
  PROVE  /\ RingTypes' /\ Ring # <<>> /\ Ring' = Tail(Ring)
         /\ Popped = Head(Ring) /\ Popped \in Numbers
<1>1. tail' = After(tail) /\ count' = count - 1 /\ buffer' = buffer /\ head' = head
  BY DEF Pop
<1>2. /\ After(tail) \in Slots /\ SlotAt(After(tail), count - 1) = head
      /\ Ring # <<>> /\ buffer[tail] = Head(Ring)
      /\ RingAt(buffer, After(tail), count - 1) = Tail(Ring)
  BY RingFacts, PopTakesHead, ZenonT(120)
<1>3. RingTypes'
  <2>1. count - 1 \in 0 .. Capacity /\ buffer \in Buffers /\ head \in Slots
    BY RingFacts, SizeAssumption
  <2> QED
    BY <1>1, <1>2, <2>1 DEF RingTypes, Slot, SlotAt
<1>4. Ring' = Tail(Ring)
  BY <1>1, <1>2, RingIsRingAt
<1>5. Popped \in Numbers
  <2>1. 1 \in DOMAIN Ring /\ Head(Ring) = Ring[1]
    BY <1>2, RingFacts, IndexedTail
  <2>2. Ring[1] \in 1 .. sent /\ sent \in 0 .. Characters
    BY <2>1 DEF Order, Ordered, TypeOK
  <2> QED
    BY <1>2, <2>1, <2>2, SizeAssumption DEF Popped, Numbers
<1> QED
  BY <1>2, <1>3, <1>4, <1>5 DEF Popped

LEMMA DeliveredEffect ==
  ASSUME TypeOK, Order, count > 0, Delivered, sent' = sent, fifo' = fifo
  PROVE  RingTypes' /\ taken' \in Seq(Numbers) /\ lost' = lost /\ Order'
<1>1. Pop /\ taken' = Append(taken, Popped) /\ lost' = lost
  BY DEF Delivered
<1>2. Ordered(sent, Tail(Ring), fifo, Append(taken, Head(Ring)))
  BY <1>1, RingFacts, PopEffect, OrderedPop DEF Order
<1>3. taken' \in Seq(Numbers)
  BY <1>1, RingFacts, PopEffect, AppendProperties
<1> QED
  BY <1>1, <1>2, <1>3, PopEffect DEF Order

(* A step that leaves the characters where they are.                       *)
LEMMA QuietOrder ==
  ASSUME Order, UNCHANGED <<sent, fifo, taken, buffer, tail, count>>
  PROVE  Order'
BY DEF Order, Ring, Slot

-----------------------------------------------------------------------------
(* The invariant.                                                          *)

LEMMA InitInv == Init => Inv
<1> SUFFICES ASSUME Init PROVE Inv
  OBVIOUS
<1>1. TypeOK
  <2>1. buffer \in [Slots -> Numbers \cup {Empty}] /\ 0 \in Slots /\ Slot(0) = 0
    BY SizeAssumption DEF Init, Slots, Slot
  <2>2. <<>> \in Seq(Numbers) /\ Len(<<>>) = 0
    BY EmptySeq
  <2> QED
    BY <2>1, <2>2, SizeAssumption DEF Init, TypeOK, Operations
<1>2. DOMAIN taken = {} /\ DOMAIN fifo = {} /\ DOMAIN Ring = {}
  BY EmptySeq DEF Init, Ring
<1>3. Order
  BY <1>2 DEF Order, Ordered, Increasing, Precedes
<1> QED
  BY <1>1, <1>3, InvIsOrder DEF Init, ByteIsThere

(* The actions that move no character.                                     *)
Quiet ==
  \/ Raise \/ Interrupt \/ ReadStatus \/ PollAgain \/ EnterTarget \/ InterruptEnd
  \/ PollBreakEnd \/ PromptServes \/ ServiceBreak \/ MonitorLoop
  \/ \E o \in {"write", "read", "poll_char", "poll_break"} : Service(o)
  \/ UNCHANGED vars

LEMMA QuietStep ==
  ASSUME Inv, Quiet
  PROVE  Inv'
<1>1. /\ UNCHANGED <<sent, ctrl, fifo, taken, buffer, head, tail, count, drops, lost>>
      /\ ier' \in BOOLEAN /\ gateway' \in {"idle", "pending", "claimed"} /\ oe' \in BOOLEAN
      /\ break' \in BOOLEAN /\ overruns' \in Nat /\ unanswered' \in SUBSET Numbers
      /\ mode' \in {"target", "prompt", "status", "byte", "served"} /\ op' \in Operations
      /\ ByteIsThere'
  <2> USE InvIsOrder DEF TypeOK, ByteIsThere, line, device, ring, counters, history, Operations
  <2>1. CASE Raise
    BY <2>1 DEF Raise
  <2>2. CASE Interrupt
    BY <2>2 DEF Interrupt, Calls
  <2>3. CASE ReadStatus
    <3>1. mode' = "byte" => fifo # <<>>
      BY <2>3 DEF ReadStatus
    <3>2. mode' \in {"byte", "served"} /\ overruns' \in Nat /\ oe' = FALSE
      BY <2>3 DEF ReadStatus
    <3>3. UNCHANGED <<sent, ctrl, fifo, taken, buffer, head, tail, count, drops, lost, ier,
                      gateway, break, unanswered, op>>
      BY <2>3 DEF ReadStatus
    <3> QED
      BY <3>1, <3>2, <3>3
  <2>4. CASE PollAgain
    BY <2>4 DEF PollAgain
  <2>5. CASE EnterTarget
    BY <2>5 DEF EnterTarget, ResumeTarget
  <2>6. CASE InterruptEnd
    BY <2>6 DEF InterruptEnd, ResumeTarget
  <2>7. CASE PollBreakEnd
    BY <2>7 DEF PollBreakEnd, ResumeTarget
  <2>8. CASE PromptServes
    BY <2>8 DEF PromptServes, Continue, Prompt, Calls, ResumeTarget
  <2>9. CASE ServiceBreak
    BY <2>9 DEF ServiceBreak, Answers3, ResumeTarget
  <2>10. CASE MonitorLoop
    BY <2>10 DEF MonitorLoop, Calls
  <2>11. CASE \E o \in {"write", "read", "poll_char", "poll_break"} : Service(o)
    BY <2>11 DEF Service, Calls
  <2>12. CASE UNCHANGED vars
    BY <2>12 DEF vars
  <2> QED
    BY <2>1, <2>2, <2>3, <2>4, <2>5, <2>6, <2>7, <2>8, <2>9, <2>10, <2>11, <2>12 DEF Quiet
<1>2. TypeOK'
  <2>1. TypeOK
    BY InvIsOrder
  <2> QED
    BY <1>1, <2>1 DEF TypeOK, Slot
<1>3. Order'
  BY <1>1, QuietOrder, InvIsOrder
<1>4. Inv' <=> TypeOK' /\ Order' /\ ByteIsThere'
  BY DEF Inv, InOrder, Order, Ordered, ByteIsThere
<1> QED
  BY <1>1, <1>2, <1>3, <1>4

(* A character arrives: it joins the FIFO, or is lost at the device.       *)
LEMMA ArriveStep ==
  ASSUME Inv, NEW c \in BOOLEAN, Arrive(c)
  PROVE  Inv'
<1> USE DEF line, device, ring, counters, history
<1>1. TypeOK /\ Order /\ ByteIsThere
  BY InvIsOrder
<1>2. /\ sent' = sent + 1 /\ sent + 1 \in Numbers
      /\ UNCHANGED <<ier, gateway, buffer, head, tail, count, break, overruns, drops, mode, op,
                     taken, unanswered>>
  BY <1>1, SizeAssumption DEF Arrive, TypeOK, Numbers
<1>3. /\ ctrl' \in SUBSET Numbers /\ oe' \in BOOLEAN
      /\ lost' \in Losses
  BY <1>1, <1>2 DEF Arrive, TypeOK, Losses
<1>4. fifo' \in Seq(Numbers) /\ Len(fifo') <= FifoSize /\ (fifo # <<>> => fifo' # <<>>)
  <2>1. Len(fifo) \in Nat /\ fifo \in Seq(Numbers) /\ Len(fifo) <= FifoSize
    BY <1>1, LenProperties DEF TypeOK
  <2>2. CASE Len(fifo) < FifoSize
    <3>1. fifo' = Append(fifo, sent + 1)
      BY <2>2 DEF Arrive
    <3>2. fifo' \in Seq(Numbers) /\ Len(fifo') = Len(fifo) + 1 /\ fifo' # <<>>
      BY <1>2, <2>1, <3>1, AppendProperties
    <3> QED
      BY <2>1, <2>2, <3>2, SizeAssumption
  <2>3. CASE ~(Len(fifo) < FifoSize)
    BY <2>1, <2>3 DEF Arrive
  <2> QED
    BY <2>2, <2>3
<1>5. TypeOK'
  BY <1>1, <1>2, <1>3, <1>4, SizeAssumption DEF TypeOK, Slot, Losses, Numbers
<1>6. Order'
  <2>1. Ring' = Ring
    BY <1>2 DEF Ring, Slot
  <2>2. fifo' = fifo \/ fifo' = Append(fifo, sent + 1)
    BY DEF Arrive
  <2> QED
    BY <1>1, <1>2, <2>1, <2>2, RingFacts, OrderedArrive DEF Order
<1>7. Inv' <=> TypeOK' /\ Order' /\ ByteIsThere'
  BY DEF Inv, InOrder, Order, Ordered, ByteIsThere
<1> QED
  BY <1>1, <1>2, <1>4, <1>5, <1>6, <1>7 DEF ByteIsThere

(* poll_rx takes a character from the FIFO.                                *)
LEMMA ReadByteStep ==
  ASSUME Inv, ReadByte
  PROVE  Inv'
<1> USE DEF line, device, ring, counters, history
<1>1. TypeOK /\ Order /\ fifo # <<>>
  BY InvIsOrder DEF ByteIsThere, ReadByte
<1>2. /\ fifo' = Tail(fifo) /\ mode' = "status"
      /\ UNCHANGED <<sent, ctrl, oe, ier, gateway, tail, overruns, op, taken>>
  BY DEF ReadByte
<1>3. Head(fifo) \in 1 .. sent /\ Head(fifo) \in Numbers
  <2>1. 1 \in DOMAIN fifo /\ Head(fifo) = fifo[1] /\ Head(fifo) \in Numbers
    BY <1>1, RingFacts, IndexedTail, HeadTailProperties
  <2>2. fifo[1] <= sent
    BY <1>1, <2>1 DEF Order, Ordered
  <2> QED
    BY <1>1, <2>1, <2>2, RingFacts DEF Numbers
<1>4. /\ RingTypes' /\ drops' \in Nat /\ lost' \in Losses /\ break' \in BOOLEAN
      /\ unanswered' \in SUBSET Numbers
      /\ Ring' = Ring \/ Ring' = Append(Ring, Head(fifo))
  <2>1. CASE Head(fifo) \in ctrl
    <3>1. /\ UNCHANGED <<buffer, head, count, drops, lost>> /\ break' = TRUE
          /\ unanswered' = unanswered \cup {Head(fifo)}
      BY <2>1 DEF ReadByte
    <3> QED
      BY <1>1, <1>2, <1>3, <3>1 DEF TypeOK, RingTypes, Ring, Slot, Losses, Buffers
  <2>2. CASE Head(fifo) \notin ctrl
    <3>1. StoreOrDrop(Head(fifo)) /\ UNCHANGED <<break, unanswered>>
      BY <2>2 DEF ReadByte
    <3>2. break' \in BOOLEAN /\ unanswered' \in SUBSET Numbers
      BY <1>1, <3>1 DEF TypeOK
    <3> QED
      BY <1>1, <1>2, <1>3, <3>1, <3>2, StoreOrDropEffect
  <2> QED
    BY <2>1, <2>2
<1>5. fifo' \in Seq(Numbers) /\ Len(fifo') <= FifoSize
  <2>1. Len(fifo') = Len(fifo) - 1 /\ fifo' \in Seq(Numbers) /\ Len(fifo) \in Nat
    BY <1>1, <1>2, RingFacts, HeadTailProperties, LenProperties
  <2> QED
    BY <1>1, <2>1, SizeAssumption DEF TypeOK
<1>6. TypeOK'
  BY <1>1, <1>2, <1>4, <1>5 DEF TypeOK, RingTypes, Losses, Buffers
<1>7. Order'
  BY <1>1, <1>2, <1>3, <1>4, RingFacts, OrderedReceive DEF Order
<1>8. Inv' <=> TypeOK' /\ Order' /\ ByteIsThere'
  BY DEF Inv, InOrder, Order, Ordered, ByteIsThere
<1> QED
  BY <1>2, <1>6, <1>7, <1>8 DEF ByteIsThere

(* A reader leaves the driver: with the oldest character, with none, or    *)
(* with a Ctrl-C that costs one.                                           *)
LEMMA ReaderStep ==
  ASSUME Inv, ReadEnd \/ PollCharEnd \/ PromptEnd
  PROVE  Inv'
<1> USE DEF line, device, ring, counters, history
<1>1. TypeOK /\ Order
  BY InvIsOrder
<1>2. /\ UNCHANGED <<sent, ctrl, fifo, oe, gateway, overruns, drops>>
      /\ ier' \in BOOLEAN /\ mode' \in {"target", "prompt"} /\ op' \in Operations
      /\ break' \in BOOLEAN /\ unanswered' \in SUBSET Numbers
  <2> USE <1>1 DEF TypeOK, Operations
  <2>1. CASE ReadEnd
    BY <2>1 DEF ReadEnd, ResumeTarget, Answers3
  <2>2. CASE PollCharEnd
    BY <2>2 DEF PollCharEnd, ResumeTarget, Answers3
  <2>3. CASE PromptEnd
    BY <2>3 DEF PromptEnd
  <2> QED
    BY <2>1, <2>2, <2>3
<1>3. \/ Delivered /\ count > 0
      \/ Pop /\ count > 0 /\ taken' = taken /\ lost' = [lost EXCEPT !.swallowed = @ \cup {Popped}]
      \/ UNCHANGED <<buffer, head, tail, count, taken, lost>>
  BY DEF ReadEnd, PollCharEnd, PromptEnd
<1>4. RingTypes' /\ taken' \in Seq(Numbers) /\ lost' \in Losses /\ Order'
  <2>1. CASE Delivered /\ count > 0
    BY <1>1, <1>2, <2>1, DeliveredEffect DEF TypeOK, Losses
  <2>2. CASE Pop /\ count > 0 /\ taken' = taken /\ lost' = [lost EXCEPT !.swallowed = @ \cup {Popped}]
    <3>1. RingTypes' /\ Ring # <<>> /\ Ring' = Tail(Ring) /\ Popped \in Numbers
      BY <1>1, <2>2, PopEffect
    <3>2. lost' \in Losses
      BY <1>1, <2>2, <3>1 DEF TypeOK, Losses
    <3> QED
      BY <1>1, <1>2, <2>2, <3>1, <3>2, RingFacts, OrderedPop DEF Order
  <2>3. CASE UNCHANGED <<buffer, head, tail, count, taken, lost>>
    BY <1>1, <1>2, <2>3, QuietOrder DEF TypeOK, RingTypes, Slot, Losses, Buffers
  <2> QED
    BY <1>3, <2>1, <2>2, <2>3
<1>5. TypeOK'
  BY <1>1, <1>2, <1>4 DEF TypeOK, RingTypes, Losses, Buffers
<1>6. Inv' <=> TypeOK' /\ Order' /\ ByteIsThere'
  BY DEF Inv, InOrder, Order, Ordered, ByteIsThere
<1> QED
  BY <1>2, <1>4, <1>5, <1>6 DEF ByteIsThere

LEMMA NextInv == Inv /\ [Next]_vars => Inv'
<1> SUFFICES ASSUME Inv, [Next]_vars PROVE Inv'
  OBVIOUS
<1>1. CASE \E c \in BOOLEAN : Arrive(c)
  BY <1>1, ArriveStep
<1>2. CASE ReadByte
  BY <1>2, ReadByteStep
<1>3. CASE ReadEnd \/ PollCharEnd \/ PromptEnd
  BY <1>3, ReaderStep
<1>4. CASE Quiet
  BY <1>4, QuietStep
<1> QED
  BY <1>1, <1>2, <1>3, <1>4 DEF Next, Driver, Quiet

(* The inductive invariant holds: the ring, the FIFO and what was taken    *)
(* are in the order of the line, for every size of them.                   *)
THEOREM UartInvariance == Spec => []Inv
<1>1. Inv /\ [Next]_vars => Inv'
  BY NextInv
<1> QED
  BY <1>1, InitInv, PTL DEF Spec

(* Every variable keeps its type, and the indexes of the ring stay inside  *)
(* the buffer and agree with RX_COUNT, wherever the ring wraps (poll_rx,   *)
(* pop_rx).                                                                *)
THEOREM RingIsSound == Spec => []TypeOK
<1>1. Inv => TypeOK
  BY DEF Inv
<1> QED
  BY <1>1, UartInvariance, PTL

(* The readers take the characters in the order of the line, each at most  *)
(* once, whichever of them reads and whatever was dropped in between.      *)
THEOREM DeliveryIsInOrder == Spec => []InOrder
<1>1. Inv => InOrder
  BY DEF Inv
<1> QED
  BY <1>1, UartInvariance, PTL

-----------------------------------------------------------------------------
(* Ctrl-C, and the overruns of the device.                                 *)

(* A step keeps the request together with the Ctrl-Cs it stands for: it    *)
(* leaves both, captures one more, or answers them all.                    *)
LEMMA BreakStep ==
  ASSUME Next
  PROVE  \/ UNCHANGED <<break, unanswered>>
         \/ break' = TRUE /\ unanswered' # {}
         \/ break' = FALSE /\ unanswered' = {}
<1>1. CASE \E c \in BOOLEAN : Arrive(c)
  BY <1>1 DEF Arrive
<1>2. CASE ReadByte
  BY <1>2 DEF ReadByte
<1>3. CASE ReadEnd
  BY <1>3 DEF ReadEnd, Answers3
<1>4. CASE PollCharEnd
  BY <1>4 DEF PollCharEnd, Answers3
<1>5. CASE ServiceBreak
  BY <1>5 DEF ServiceBreak, Answers3
<1>6. CASE ReadStatus \/ PollAgain \/ EnterTarget \/ InterruptEnd \/ PollBreakEnd \/ PromptEnd
  BY <1>6 DEF ReadStatus, PollAgain, EnterTarget, InterruptEnd, PollBreakEnd, PromptEnd, history
<1>7. CASE Raise \/ Interrupt \/ MonitorLoop \/ PromptServes
  BY <1>7 DEF Raise, Interrupt, MonitorLoop, PromptServes, Continue, Prompt, history
<1>8. CASE \E o \in {"write", "read", "poll_char", "poll_break"} : Service(o)
  BY <1>8 DEF Service, history
<1> QED
  BY <1>1, <1>2, <1>3, <1>4, <1>5, <1>6, <1>7, <1>8 DEF Next, Driver

(* A Ctrl-C that was captured is remembered until a service answers for    *)
(* it, whoever reads or prints meanwhile (take_break_request).             *)
THEOREM BreakIsKept == Spec => []BreakIsRemembered
<1>1. Init => BreakIsRemembered
  BY DEF Init, BreakIsRemembered
<1>2. BreakIsRemembered /\ [Next]_vars => BreakIsRemembered'
  <2> SUFFICES ASSUME BreakIsRemembered, [Next]_vars PROVE BreakIsRemembered'
    OBVIOUS
  <2>1. CASE Next
    BY <2>1, BreakStep DEF BreakIsRemembered
  <2>2. CASE UNCHANGED vars
    BY <2>2 DEF vars, history, BreakIsRemembered
  <2> QED
    BY <2>1, <2>2
<1> QED
  BY <1>1, <1>2, PTL DEF Spec

(* The overflows so far, as poll_rx and LSR know them.                     *)
Known(o, n) == n + (IF o THEN 1 ELSE 0)
OverrunInv ==
  /\ IsFiniteSet(lost.hardware) /\ lost.hardware \subseteq 1 .. sent
  /\ OverrunsAreReported

LEMMA ReportedIsKnown ==
  ASSUME TypeOK
  PROVE  OverrunsAreReported <=>
           /\ lost.hardware # {} => Known(oe, overruns) # 0
           /\ Known(oe, overruns) <= Cardinality(lost.hardware)
<1>1. oe \in BOOLEAN /\ overruns \in Nat
  BY DEF TypeOK
<1> QED
  BY <1>1 DEF OverrunsAreReported, Known

(* Every step but an arrival and the read of LSR leaves the overflows.     *)
LEMMA OverrunQuiet ==
  ASSUME TypeOK, Next, ~ \E c \in BOOLEAN : Arrive(c), ~ReadStatus
  PROVE  UNCHANGED <<sent, oe, overruns>> /\ lost'.hardware = lost.hardware
<1>1. lost \in [{"hardware", "software", "swallowed"} -> SUBSET Numbers]
  BY DEF TypeOK
<1>2. CASE ReadByte
  BY <1>1, <1>2 DEF ReadByte, StoreOrDrop, Store, line
<1>3. CASE ReadEnd
  BY <1>1, <1>3 DEF ReadEnd, Delivered, line, device, counters
<1>4. CASE PollCharEnd \/ PromptEnd
  BY <1>1, <1>4 DEF PollCharEnd, PromptEnd, Delivered, line, device, counters
<1>5. CASE PollAgain \/ EnterTarget \/ InterruptEnd \/ PollBreakEnd \/ ServiceBreak
  BY <1>5 DEF PollAgain, EnterTarget, InterruptEnd, PollBreakEnd, ServiceBreak, line, device, counters, history
<1>6. CASE Raise \/ Interrupt \/ MonitorLoop \/ PromptServes
  BY <1>6 DEF Raise, Interrupt, MonitorLoop, PromptServes, Continue, Prompt, line, device, counters, history
<1>7. CASE \E o \in {"write", "read", "poll_char", "poll_break"} : Service(o)
  BY <1>7 DEF Service, line, device, counters, history
<1> QED
  BY <1>2, <1>3, <1>4, <1>5, <1>6, <1>7 DEF Next, Driver

LEMMA OverrunArrive ==
  ASSUME TypeOK, TypeOK', OverrunInv, NEW c \in BOOLEAN, Arrive(c)
  PROVE  OverrunInv'
<1>1. /\ sent \in Nat /\ sent' = sent + 1 /\ overruns \in Nat /\ overruns' = overruns
      /\ lost \in [{"hardware", "software", "swallowed"} -> SUBSET Numbers]
  BY DEF TypeOK, Arrive, counters
<1>2. IsFiniteSet(lost.hardware) /\ lost.hardware \subseteq 1 .. sent /\ Cardinality(lost.hardware) \in Nat
  BY FS_CardinalityType DEF OverrunInv
<1>3. CASE UNCHANGED <<oe, lost>>
  BY <1>1, <1>2, <1>3 DEF OverrunInv, OverrunsAreReported
<1>4. CASE oe' = TRUE /\ lost' = [lost EXCEPT !.hardware = @ \cup {sent + 1}]
  <2>1. lost'.hardware = lost.hardware \cup {sent + 1}
    BY <1>1, <1>4
  <2>2. sent + 1 \notin lost.hardware
    BY <1>1, <1>2
  <2>3. IsFiniteSet(lost'.hardware) /\ Cardinality(lost'.hardware) = Cardinality(lost.hardware) + 1
    BY <1>2, <2>1, <2>2, FS_AddElement
  <2>4. lost'.hardware \subseteq 1 .. sent'
    BY <1>1, <1>2, <2>1
  <2>5. Known(oe, overruns) <= Cardinality(lost.hardware)
    BY ReportedIsKnown DEF OverrunInv
  <2>6. overruns <= Cardinality(lost.hardware)
    BY <1>1, <1>2, <2>5 DEF Known
  <2>7. Known(oe', overruns') = overruns + 1
    BY <1>1, <1>4 DEF Known
  <2>8. /\ lost.hardware' # {} => Known(oe', overruns') # 0
        /\ Known(oe', overruns') <= Cardinality(lost'.hardware)
    BY <1>1, <1>2, <2>3, <2>6, <2>7
  <2>9. OverrunsAreReported'
    BY <1>1, <1>4, <2>8 DEF OverrunsAreReported, Known
  <2> QED
    BY <2>3, <2>4, <2>9 DEF OverrunInv
<1> QED
  BY <1>3, <1>4 DEF Arrive

(* The overflow LSR told of is counted in the step that clears it.         *)
LEMMA OverrunReadStatus ==
  ASSUME TypeOK, OverrunInv, ReadStatus
  PROVE  OverrunInv'
<1>1. oe \in BOOLEAN /\ overruns \in Nat /\ UNCHANGED <<sent, lost>> /\ oe' = FALSE
  BY DEF TypeOK, ReadStatus, line, history
<1>2. IsFiniteSet(lost.hardware) /\ Cardinality(lost.hardware) \in Nat
  BY FS_CardinalityType DEF OverrunInv
<1>3. CASE oe
  BY <1>1, <1>2, <1>3 DEF OverrunInv, OverrunsAreReported, ReadStatus
<1>4. CASE ~oe
  BY <1>1, <1>2, <1>4 DEF OverrunInv, OverrunsAreReported, ReadStatus
<1> QED
  BY <1>3, <1>4

(* No overflow of the FIFO is hidden, however its read of LSR falls between *)
(* two arrivals, and none is counted that did not happen (poll_rx).        *)
THEOREM OverrunsAreKnown == Spec => []OverrunsAreReported
<1>1. Init => OverrunInv
  BY FS_EmptySet DEF Init, OverrunInv, OverrunsAreReported
<1>2. TypeOK /\ TypeOK' /\ OverrunInv /\ [Next]_vars => OverrunInv'
  <2> SUFFICES ASSUME TypeOK, TypeOK', OverrunInv, [Next]_vars PROVE OverrunInv'
    OBVIOUS
  <2>1. CASE \E c \in BOOLEAN : Arrive(c)
    BY <2>1, OverrunArrive
  <2>2. CASE ReadStatus
    BY <2>2, OverrunReadStatus
  <2>3. CASE Next /\ ~(\E c \in BOOLEAN : Arrive(c)) /\ ~ReadStatus
    BY <2>3, OverrunQuiet DEF OverrunInv, OverrunsAreReported
  <2>4. CASE UNCHANGED vars
    BY <2>4 DEF vars, line, device, counters, history, OverrunInv, OverrunsAreReported
  <2> QED
    BY <2>1, <2>2, <2>3, <2>4
<1>3. OverrunInv => OverrunsAreReported
  BY DEF OverrunInv
<1> QED
  BY <1>1, <1>2, <1>3, RingIsSound, PTL DEF Spec

-----------------------------------------------------------------------------
(* No character vanishes between the FIFO and its readers.  Each step      *)
(* moves one character from one place to the next, and the places are      *)
(* never mixed up because what was dropped or swallowed is older than what *)
(* still waits.                                                            *)

(* What has left is older than what waits.                                 *)
Older(set, s) == \A n \in set : \A i \in DOMAIN s : n < s[i]
LossesAreOlder ==
  /\ Older(lost.software, fifo)
  /\ Older(lost.swallowed, fifo) /\ Older(lost.swallowed, Ring)
LineIsSent == ctrl \subseteq 1 .. sent /\ lost.hardware \subseteq 1 .. sent
AccountInv == Accounted /\ LossesAreOlder /\ LineIsSent

-----------------------------------------------------------------------------
(* The members of a sequence.                                              *)

LEMMA MembersAppend ==
  ASSUME NEW s \in Seq(Int), NEW c \in Int PROVE Members(Append(s, c)) = Members(s) \cup {c}
<1> DEFINE a == Append(s, c)
<1>1. /\ DOMAIN a = 1 .. Len(s) + 1 /\ DOMAIN s = 1 .. Len(s) /\ Len(s) \in Nat
      /\ \A i \in 1 .. Len(s) : a[i] = s[i]
      /\ a[Len(s) + 1] = c
  BY IndexedAppend
<1> HIDE DEF a
<1>2. \A i \in DOMAIN a : i \in DOMAIN s \/ i = Len(s) + 1
  BY <1>1
<1>3. DOMAIN s \subseteq DOMAIN a /\ Len(s) + 1 \in DOMAIN a
  BY <1>1
<1>4. Members(a) = Members(s) \cup {c}
  BY <1>1, <1>2, <1>3 DEF Members
<1> QED BY <1>4 DEF a

LEMMA MembersTail ==
  ASSUME NEW s \in Seq(Int), s # <<>> PROVE Members(s) = {Head(s)} \cup Members(Tail(s))
<1> DEFINE u == Tail(s)
           h == Head(s)
<1>1. /\ DOMAIN u = 1 .. Len(s) - 1 /\ DOMAIN s = 1 .. Len(s) /\ Len(s) \in Nat \ {0}
      /\ \A i \in 1 .. Len(s) - 1 : u[i] = s[i + 1]
      /\ h = s[1]
  BY IndexedTail
<1> HIDE DEF u, h
<1>2. \A i \in DOMAIN u : i + 1 \in DOMAIN s /\ u[i] = s[i + 1]
  BY <1>1
<1>3. ASSUME NEW i \in DOMAIN s PROVE i = 1 \/ (i - 1 \in DOMAIN u /\ s[i] = u[i - 1])
  <2>1. i # 1 => i - 1 \in 1 .. Len(s) - 1 /\ (i - 1) + 1 = i
    BY <1>1
  <2> QED BY <1>1, <2>1
<1>4. Members(s) \subseteq {h} \cup Members(u)
  BY <1>1, <1>3 DEF Members
<1>5. {h} \cup Members(u) \subseteq Members(s)
  <2>1. 1 \in DOMAIN s
    BY <1>1
  <2> QED BY <1>1, <1>2, <2>1 DEF Members
<1> QED BY <1>4, <1>5 DEF u, h

-----------------------------------------------------------------------------
(* Everything the sum counts is finite.                                    *)

LEMMA FiniteParts ==
  ASSUME TypeOK, Accounted
  PROVE  /\ IsFiniteSet(Arrived) /\ IsFiniteSet(Held) /\ IsFiniteSet(lost.software)
         /\ IsFiniteSet(lost.swallowed)
         /\ Cardinality(Held) \in Nat /\ Cardinality(lost.software) \in Nat
         /\ Cardinality(lost.swallowed) \in Nat /\ Cardinality(Arrived) \in Nat
         /\ count \in Nat /\ Len(taken) \in Nat /\ drops \in Nat /\ sent \in Nat
<1>1. sent \in Nat /\ count \in Nat /\ drops \in Nat /\ taken \in Seq(Numbers)
  BY SizeAssumption DEF TypeOK
<1>2. IsFiniteSet(1 .. sent) /\ Arrived \subseteq 1 .. sent
  BY <1>1, FS_Interval DEF Arrived
<1>3. IsFiniteSet(Arrived)
  BY <1>2, FS_Subset
<1>4. Held \subseteq Arrived /\ lost.software \subseteq Arrived /\ lost.swallowed \subseteq Arrived
  BY DEF Accounted
<1>5. IsFiniteSet(Held) /\ IsFiniteSet(lost.software) /\ IsFiniteSet(lost.swallowed)
  BY <1>3, <1>4, FS_Subset
<1> QED BY <1>1, <1>3, <1>5, FS_CardinalityType, LenProperties

LEMMA LossFields == TypeOK => lost \in Losses
BY DEF TypeOK, Losses

LEMMA OrderFacts ==
  ASSUME Inv
  PROVE  /\ TypeOK /\ Order /\ Ring \in Seq(Int) /\ fifo \in Seq(Int) /\ taken \in Seq(Int)
         /\ sent \in Nat /\ Increasing(fifo) /\ Increasing(Ring) /\ Precedes(Ring, fifo)
BY InvIsOrder, RingFacts DEF Order, Ordered

-----------------------------------------------------------------------------
(* One lemma for each way a character moves.                               *)

(* An ordinary character that finds room joins those that wait.            *)
LEMMA ArriveHolds ==
  ASSUME Inv, AccountInv, NEW c \in BOOLEAN, Arrive(c), NEW k, k = sent + 1
  PROVE  /\ k \notin Arrived /\ k \notin Held /\ Ring' = Ring
         /\ \/ Arrived' = Arrived /\ Held' = Held
            \/ Arrived' = Arrived \cup {k} /\ Held' = Held \cup {k}
<1>1. /\ sent' = k /\ ctrl' = (IF c THEN ctrl \cup {k} ELSE ctrl)
      /\ UNCHANGED <<buffer, head, tail, count, drops, taken>>
      /\ k \in Nat /\ k \notin 1 .. sent /\ 1 .. k = (1 .. sent) \cup {k} /\ k \in Int
  BY OrderFacts DEF Arrive, ring, counters
<1>2. lost \in Losses
  BY OrderFacts, LossFields
<1>3. \/ fifo' = Append(fifo, k) /\ lost' = lost
      \/ fifo' = fifo /\ lost' = [lost EXCEPT !.hardware = @ \cup {k}]
  BY DEF Arrive
<1>5. Ring' = Ring
  BY <1>1 DEF Ring, Slot
<1>6. /\ \A n \in Members(fifo) : n \in Int /\ n < k
      /\ \A n \in Arrived : n \in 1 .. sent
  BY <1>1, OrderFacts, ElementOfSeq, LenProperties DEF Members, Order, Ordered, Arrived
<1>7. k \notin Members(fifo) /\ k \notin Held /\ k \notin Arrived
  BY <1>1, <1>6 DEF Held
<1>8. Members(Append(fifo, k)) = Members(fifo) \cup {k}
  BY <1>1, OrderFacts, MembersAppend
<1>9. \A n \in 1 .. sent : Ordinary(n)' <=> Ordinary(n)
  BY <1>1 DEF Ordinary
<1>10. \A n \in Members(fifo) : Ordinary(n)' <=> Ordinary(n)
  BY <1>1, <1>7 DEF Ordinary
<1>11. Ordinary(k)' <=> ~c
  BY <1>1 DEF Ordinary, AccountInv, LineIsSent
<1>12. ASSUME fifo' = Append(fifo, k), lost' = lost
       PROVE  \/ Arrived' = Arrived /\ Held' = Held
              \/ Arrived' = Arrived \cup {k} /\ Held' = Held \cup {k}
  <2>1. k \notin lost.hardware
    BY <1>1 DEF AccountInv, LineIsSent
  <2>2. Members(fifo)' = Members(fifo) \cup {k}
    BY <1>8, <1>12 DEF Members
  <2>3. c => Arrived' = Arrived /\ Held' = Held
    BY <1>1, <1>9, <1>10, <1>11, <1>12, <2>2 DEF Arrived, Held
  <2>4. ~c => Held' = Held \cup {k}
    BY <1>10, <1>11, <2>2 DEF Held
  <2>5. ~c => Arrived' = Arrived \cup {k}
    <3>1. \A n : n \in Arrived' <=> n \in 1 .. k /\ Ordinary(n)' /\ n \notin lost.hardware
      BY <1>1, <1>12 DEF Arrived
    <3>2. \A n : n \in Arrived <=> n \in 1 .. sent /\ Ordinary(n) /\ n \notin lost.hardware
      BY DEF Arrived
    <3> QED BY <1>1, <1>9, <1>11, <2>1, <3>1, <3>2
  <2> QED BY <2>3, <2>4, <2>5
<1>13. ASSUME fifo' = fifo, lost' = [lost EXCEPT !.hardware = @ \cup {k}]
       PROVE  Arrived' = Arrived /\ Held' = Held
  <2>1. lost'.hardware = lost.hardware \cup {k}
    BY <1>2, <1>13 DEF Losses
  <2>2. Members(fifo)' = Members(fifo)
    BY <1>13 DEF Members
  <2>3. Held' = Held
    BY <1>10, <2>2 DEF Held
  <2>4. Arrived' = Arrived
    <3>1. \A n : n \in Arrived' <=> /\ n \in 1 .. k /\ Ordinary(n)'
                                    /\ n \notin lost.hardware \cup {k}
      BY <1>1, <2>1 DEF Arrived
    <3>2. \A n : n \in Arrived <=> n \in 1 .. sent /\ Ordinary(n) /\ n \notin lost.hardware
      BY DEF Arrived
    <3> QED BY <1>1, <1>9, <3>1, <3>2
  <2> QED BY <2>3, <2>4
<1> QED BY <1>3, <1>5, <1>7, <1>12, <1>13

(* A character arrives: it is counted if it is ordinary and there is room. *)
LEMMA AccountArrive ==
  ASSUME Inv, AccountInv, NEW c \in BOOLEAN, Arrive(c) PROVE AccountInv'
<1>0. PICK k : k = sent + 1
  OBVIOUS
<1>1. /\ sent' = k /\ ctrl' = (IF c THEN ctrl \cup {k} ELSE ctrl)
      /\ UNCHANGED <<buffer, head, tail, count, drops, taken>>
      /\ k \in Nat /\ k \notin 1 .. sent /\ 1 .. k = (1 .. sent) \cup {k} /\ k \in Int
  BY <1>0, OrderFacts DEF Arrive, ring, counters
<1>2. lost \in Losses
  BY OrderFacts, LossFields
<1>3. \/ fifo' = Append(fifo, k) /\ lost' = lost
      \/ fifo' = fifo /\ lost' = [lost EXCEPT !.hardware = @ \cup {k}]
  BY <1>0 DEF Arrive
<1>4. lost'.software = lost.software /\ lost'.swallowed = lost.swallowed
  BY <1>2, <1>3 DEF Losses
<1>5. Ring' = Ring
  BY <1>1 DEF Ring, Slot
<1>6. /\ \A n \in Members(fifo) : n \in Int /\ n < k
      /\ \A n \in Arrived : n \in 1 .. sent
  BY <1>0, <1>1, OrderFacts, ElementOfSeq, LenProperties DEF Members, Order, Ordered, Arrived
<1>7. k \notin Members(fifo) /\ k \notin Held /\ k \notin Arrived
  BY <1>1, <1>6 DEF Held
<1>8. Members(Append(fifo, k)) = Members(fifo) \cup {k}
  BY <1>1, OrderFacts, MembersAppend
<1>9. LineIsSent'
  BY <1>1, <1>2, <1>3 DEF AccountInv, LineIsSent, Losses
<1>10. LossesAreOlder'
  <2>1. lost.software \subseteq Arrived /\ lost.swallowed \subseteq Arrived
    BY DEF AccountInv, Accounted
  <2>2. \A n \in lost.software \cup lost.swallowed : n < k
    BY <1>1, <1>6, <2>1
  <2>3. \A i \in DOMAIN Append(fifo, k) : (i \in DOMAIN fifo /\ Append(fifo, k)[i] = fifo[i])
                                          \/ Append(fifo, k)[i] = k
    BY <1>1, OrderFacts, IndexedAppend
  <2> QED BY <1>3, <1>4, <1>5, <2>2, <2>3 DEF AccountInv, LossesAreOlder, Older
<1>11. /\ k \notin Arrived /\ k \notin Held
       /\ \/ Arrived' = Arrived /\ Held' = Held
          \/ Arrived' = Arrived \cup {k} /\ Held' = Held \cup {k}
  BY <1>0, ArriveHolds
<1>12. Members(Ring)' = Members(Ring) /\ Members(taken)' = Members(taken)
  BY <1>1, <1>5 DEF Members
<1>13. Accounted'
  <2>1. CASE Arrived' = Arrived /\ Held' = Held
    BY <1>1, <1>4, <1>12, <2>1 DEF AccountInv, Accounted
  <2>2. CASE Arrived' = Arrived \cup {k} /\ Held' = Held \cup {k}
    <3>1. /\ Cardinality(Arrived') = Cardinality(Arrived) + 1
          /\ Cardinality(Held') = Cardinality(Held) + 1
      BY <1>11, <2>2, OrderFacts, FiniteParts, FS_AddElement DEF AccountInv
    <3>2. Cardinality(Arrived') =
            count' + Cardinality(Held') + Len(taken') + drops' + Cardinality(lost'.swallowed)
      BY <1>1, <1>4, <3>1, OrderFacts, FiniteParts, SMTT(30) DEF AccountInv, Accounted
    <3> QED BY <1>1, <1>4, <1>12, <2>2, <3>2 DEF AccountInv, Accounted
  <2> QED BY <1>11, <2>1, <2>2
<1> QED BY <1>9, <1>10, <1>13 DEF AccountInv

LEMMA OlderTail ==
  ASSUME NEW s \in Seq(Int), s # <<>>, NEW set, Older(set, s)
  PROVE  Older(set, Tail(s)) /\ \A n \in set : n < Head(s)
<1>1. /\ \A i \in DOMAIN Tail(s) : i + 1 \in DOMAIN s /\ Tail(s)[i] = s[i + 1]
      /\ 1 \in DOMAIN s /\ Head(s) = s[1]
  BY IndexedTail
<1> QED BY <1>1 DEF Older

LEMMA OlderAppend ==
  ASSUME NEW s \in Seq(Int), NEW c \in Int, NEW set, Older(set, s), \A n \in set : n < c
  PROVE  Older(set, Append(s, c))
<1>1. \A i \in DOMAIN Append(s, c) : \/ i \in DOMAIN s /\ Append(s, c)[i] = s[i]
                                     \/ Append(s, c)[i] = c
  BY IndexedAppend
<1> QED BY <1>1 DEF Older

(* poll_rx moves a character from the FIFO to the ring, or to the drops.   *)
LEMMA ReadByteMoves ==
  ASSUME Inv, ReadByte, NEW h, h = Head(fifo)
  PROVE  /\ fifo # <<>> /\ fifo' = Tail(fifo) /\ h \in Int
         /\ UNCHANGED <<sent, ctrl, taken>>
         /\ lost'.hardware = lost.hardware /\ lost'.swallowed = lost.swallowed
         /\ \/ /\ ~Ordinary(h) /\ Ring' = Ring /\ UNCHANGED <<count, drops>>
               /\ lost'.software = lost.software
            \/ /\ Ordinary(h) /\ Ring' = Append(Ring, h) /\ count' = count + 1
               /\ drops' = drops /\ lost'.software = lost.software
            \/ /\ Ordinary(h) /\ Ring' = Ring /\ count = Capacity /\ count' = count
               /\ drops' = drops + 1 /\ lost'.software = lost.software \cup {h}
<1>1. /\ TypeOK /\ fifo # <<>> /\ fifo \in Seq(Int) /\ lost \in Losses
  BY OrderFacts, InvIsOrder, LossFields DEF ByteIsThere, ReadByte
<1>2. h \in Numbers /\ h \in Int
  <2>1. fifo \in Seq(Numbers)
    BY <1>1 DEF TypeOK
  <2> QED BY <1>1, <2>1, HeadTailProperties DEF Numbers
<1>3. fifo' = Tail(fifo) /\ tail' = tail /\ UNCHANGED <<sent, ctrl, taken>>
  BY DEF ReadByte, line
<1>4. CASE h \in ctrl
  <2>1. UNCHANGED <<buffer, head, count, drops, lost>>
    BY <1>4 DEF ReadByte
  <2>2. Ring' = Ring
    BY <1>3, <2>1 DEF Ring, Slot
  <2> QED BY <1>1, <1>2, <1>3, <1>4, <2>1, <2>2 DEF Ordinary
<1>5. CASE h \notin ctrl /\ count = Capacity
  <2>1. /\ UNCHANGED <<buffer, head, count>> /\ drops' = drops + 1
        /\ lost' = [lost EXCEPT !.software = @ \cup {h}]
    BY <1>5 DEF ReadByte, StoreOrDrop
  <2>2. Ring' = Ring
    BY <1>3, <2>1 DEF Ring, Slot
  <2> QED BY <1>1, <1>2, <1>3, <1>5, <2>1, <2>2 DEF Ordinary, Losses
<1>6. CASE h \notin ctrl /\ count # Capacity
  <2>1. StoreOrDrop(h) /\ count' = count + 1 /\ UNCHANGED <<drops, lost>>
    BY <1>6 DEF ReadByte, StoreOrDrop, Store
  <2>2. RingTypes' /\ (Ring' = Ring \/ Ring' = Append(Ring, h))
    BY <1>1, <1>2, <1>3, <2>1, StoreOrDropEffect
  <2>3. Len(Ring') = count + 1
    BY <2>1, <2>2, RingIsRingAt, RingIsASequence DEF RingTypes
  <2>4. Len(Ring) = count /\ count \in Nat
    BY <1>1, RingFacts, RingIsASequence, SizeAssumption
  <2>5. Ring' = Append(Ring, h)
    BY <2>2, <2>3, <2>4
  <2> QED BY <1>1, <1>2, <1>3, <1>6, <2>1, <2>5 DEF Ordinary
<1> QED BY <1>4, <1>5, <1>6

LEMMA AccountReadByte == ASSUME Inv, AccountInv, ReadByte PROVE AccountInv'
<1>0. PICK h : h = Head(fifo)
  OBVIOUS
<1>1. /\ fifo # <<>> /\ fifo' = Tail(fifo) /\ h \in Int
      /\ UNCHANGED <<sent, ctrl, taken>>
      /\ lost'.hardware = lost.hardware /\ lost'.swallowed = lost.swallowed
  BY <1>0, ReadByteMoves
<1>2. \/ ~Ordinary(h) /\ Ring' = Ring /\ UNCHANGED <<count, drops>> /\ lost'.software = lost.software
      \/ Ordinary(h) /\ Ring' = Append(Ring, h) /\ count' = count + 1
         /\ drops' = drops /\ lost'.software = lost.software
      \/ Ordinary(h) /\ Ring' = Ring /\ count' = count
         /\ drops' = drops + 1 /\ lost'.software = lost.software \cup {h}
  BY <1>0, ReadByteMoves
<1>3. /\ fifo \in Seq(Int) /\ Ring \in Seq(Int) /\ TypeOK
      /\ Increasing(fifo)
  BY OrderFacts
<1>4. \A i \in DOMAIN fifo' : h < fifo'[i]
  BY <1>0, <1>1, <1>3, TailKeepsOrder
<1>5. Members(fifo) = {h} \cup Members(fifo)'
  BY <1>0, <1>1, <1>3, MembersTail DEF Members
<1>6. h \notin Members(fifo)'
  BY <1>1, <1>4 DEF Members
<1>7. \A n : Ordinary(n)' <=> Ordinary(n)
  BY <1>1 DEF Ordinary
<1>8. IF Ordinary(h) THEN Held = Held' \cup {h} /\ h \notin Held' /\ Held' = Held \ {h} ELSE Held' = Held
  BY <1>5, <1>6, <1>7 DEF Held
<1>9. Arrived' = Arrived /\ LineIsSent'
  BY <1>1, <1>7 DEF Arrived, AccountInv, LineIsSent
<1>10. Members(taken)' = Members(taken)
  BY <1>1 DEF Members
<1>11. /\ Older(lost.software, fifo') /\ Older(lost.swallowed, fifo')
       /\ \A n \in lost.software \cup lost.swallowed : n < h
  BY <1>0, <1>1, <1>3, OlderTail DEF AccountInv, LossesAreOlder
<1>12. LossesAreOlder'
  <2>1. Older(lost'.software, fifo')
    BY <1>2, <1>4, <1>11 DEF Older
  <2>2. Older(lost.swallowed, Append(Ring, h))
    BY <1>1, <1>3, <1>11, OlderAppend DEF AccountInv, LossesAreOlder
  <2> QED BY <1>1, <1>2, <1>11, <2>1, <2>2 DEF AccountInv, LossesAreOlder, Older
<1>13. Accounted'
  <2>0. /\ IsFiniteSet(Held) /\ IsFiniteSet(lost.software)
        /\ Cardinality(Held) \in Nat /\ Cardinality(lost.software) \in Nat
        /\ Cardinality(lost.swallowed) \in Nat /\ Cardinality(Arrived) \in Nat
        /\ count \in Nat /\ Len(taken) \in Nat /\ drops \in Nat
    BY <1>3, FiniteParts DEF AccountInv
  <2>1. Cardinality(Arrived) =
          count + Cardinality(Held) + Len(taken) + drops + Cardinality(lost.swallowed)
    BY DEF AccountInv, Accounted
  <2>2. ASSUME Ordinary(h) PROVE Cardinality(Held) = Cardinality(Held') + 1 /\ Cardinality(Held') \in Nat
    <3>1. Held' \subseteq Held
      BY <1>8, <2>2
    <3>2. IsFiniteSet(Held')
      BY <2>0, <3>1, FS_Subset
    <3> QED BY <1>8, <2>2, <3>2, FS_AddElement, FS_CardinalityType
  <2>3. CASE ~Ordinary(h) /\ Ring' = Ring /\ UNCHANGED <<count, drops>> /\ lost'.software = lost.software
    <3>1. Members(Ring)' = Members(Ring)
      BY <2>3 DEF Members
    <3> QED BY <1>1, <1>8, <1>9, <1>10, <2>3, <3>1 DEF AccountInv, Accounted
  <2>4. CASE Ordinary(h) /\ Ring' = Append(Ring, h) /\ count' = count + 1
             /\ drops' = drops /\ lost'.software = lost.software
    <3>0. Members(Append(Ring, h)) = Members(Ring) \cup {h}
      BY <1>1, <1>3, MembersAppend
    <3>1. Members(Ring)' = Members(Ring) \cup {h}
      BY <2>4, <3>0 DEF Members
    <3>2. Cardinality(Arrived') =
            count' + Cardinality(Held') + Len(taken') + drops' + Cardinality(lost'.swallowed)
      BY <1>1, <1>9, <2>0, <2>2, <2>4, <2>1
    <3> QED BY <1>1, <1>8, <1>9, <1>10, <2>4, <3>1, <3>2 DEF AccountInv, Accounted
  <2>5. CASE Ordinary(h) /\ Ring' = Ring /\ count' = count
             /\ drops' = drops + 1 /\ lost'.software = lost.software \cup {h}
    <3>1. Members(Ring)' = Members(Ring)
      BY <2>5 DEF Members
    <3>2. Cardinality(Arrived) =
            count + Cardinality(Held') + Len(taken) + (drops + 1) + Cardinality(lost.swallowed)
      <4>1. Cardinality(Held) = Cardinality(Held') + 1 /\ Cardinality(Held') \in Nat
        BY <2>2, <2>5
      <4>2. PICK rest : rest = count + Cardinality(Held') + Len(taken)
        OBVIOUS
      <4>3. rest \in Nat /\ count + Cardinality(Held) + Len(taken) = rest + 1
        BY ONLY <2>0, <4>1, <4>2
      <4>4. Cardinality(Arrived) = rest + 1 + drops + Cardinality(lost.swallowed)
        BY <2>1, <4>3, Zenon
      <4>5. rest + 1 + drops + Cardinality(lost.swallowed)
              = rest + (drops + 1) + Cardinality(lost.swallowed)
        BY ONLY <2>0, <4>3
      <4> QED BY <4>2, <4>4, <4>5, Zenon
    <3>3. Cardinality(Arrived') =
            count' + Cardinality(Held') + Len(taken') + drops' + Cardinality(lost'.swallowed)
      BY <1>1, <1>9, <2>5, <3>2, Zenon
    <3>4. h \notin lost.software
      BY <1>1, <1>11
    <3>5. Cardinality(lost'.software) = drops'
      BY <2>0, <2>5, <3>4, FS_AddElement, ZenonT(60) DEF AccountInv, Accounted
    <3> QED BY <1>1, <1>8, <1>9, <1>10, <2>5, <3>1, <3>5, <3>3 DEF AccountInv, Accounted
  <2> QED BY <1>2, <2>3, <2>4, <2>5
<1> QED BY <1>9, <1>12, <1>13 DEF AccountInv


(* A reader takes a character from the ring, or a Ctrl-C swallows it.      *)
LEMMA AccountPop ==
  ASSUME Inv, AccountInv, Pop, count > 0, UNCHANGED <<sent, ctrl, fifo, drops>>,
         \/ taken' = Append(taken, Popped) /\ lost' = lost
         \/ taken' = taken /\ lost' = [lost EXCEPT !.swallowed = @ \cup {Popped}]
  PROVE  AccountInv'
<1>0. PICK h : h = Popped
  OBVIOUS
<1>1. /\ TypeOK /\ Order /\ Ring \in Seq(Int) /\ taken \in Seq(Int) /\ Increasing(Ring)
      /\ Precedes(Ring, fifo) /\ lost \in Losses
  BY OrderFacts, LossFields
<1>2. /\ Ring # <<>> /\ Ring' = Tail(Ring) /\ h = Head(Ring) /\ h \in Int /\ count' = count - 1
  BY <1>0, <1>1, PopEffect DEF Pop, Numbers
<1>3. lost'.hardware = lost.hardware /\ lost'.software = lost.software
  BY <1>1 DEF Losses
<1>4. Arrived' = Arrived /\ LineIsSent' /\ Held' = Held
  BY <1>3 DEF Arrived, AccountInv, LineIsSent, Held, Members, Ordinary
<1>5. Members(Ring) = {h} \cup Members(Ring)'
  BY <1>1, <1>2, MembersTail DEF Members
<1>6. /\ \A i \in DOMAIN Ring' : h < Ring'[i]
      /\ \A i \in DOMAIN fifo : h < fifo[i]
  BY <1>1, <1>2, TailKeepsOrder
<1>7. Older(lost.swallowed, Ring') /\ \A n \in lost.swallowed : n < h
  BY <1>1, <1>2, OlderTail DEF AccountInv, LossesAreOlder
<1>8. /\ IsFiniteSet(lost.swallowed)
      /\ Cardinality(Held) \in Nat /\ Cardinality(lost.software) \in Nat
      /\ Cardinality(lost.swallowed) \in Nat /\ Cardinality(Arrived) \in Nat
      /\ count \in Nat /\ Len(taken) \in Nat /\ drops \in Nat
  BY <1>1, FiniteParts DEF AccountInv
<1>9. Cardinality(Arrived) =
        count + Cardinality(Held) + Len(taken) + drops + Cardinality(lost.swallowed)
  BY DEF AccountInv, Accounted
<1>10. CASE taken' = Append(taken, Popped) /\ lost' = lost
  <2>1. Members(Append(taken, h)) = Members(taken) \cup {h} /\ Len(Append(taken, h)) = Len(taken) + 1
    BY <1>1, <1>2, MembersAppend, AppendProperties
  <2>2. Members(taken)' = Members(taken) \cup {h} /\ Len(taken') = Len(taken) + 1
    BY <1>0, <1>10, <2>1 DEF Members
  <2>3. Cardinality(Arrived) =
          (count - 1) + Cardinality(Held) + (Len(taken) + 1) + drops + Cardinality(lost.swallowed)
    <3>1. count + Cardinality(Held) + Len(taken)
            = (count - 1) + Cardinality(Held) + (Len(taken) + 1)
      BY ONLY <1>8
    <3> QED BY <1>9, <3>1, Zenon
  <2>4. Cardinality(Arrived') =
          count' + Cardinality(Held') + Len(taken') + drops' + Cardinality(lost'.swallowed)
    BY <1>2, <1>4, <1>10, <2>2, <2>3, Zenon
  <2>5. Accounted'
    BY <1>3, <1>4, <1>5, <1>10, <2>2, <2>4 DEF AccountInv, Accounted
  <2>6. LossesAreOlder'
    BY <1>7, <1>10 DEF AccountInv, LossesAreOlder, Older
  <2> QED BY <1>4, <2>5, <2>6 DEF AccountInv
<1>11. CASE taken' = taken /\ lost' = [lost EXCEPT !.swallowed = @ \cup {Popped}]
  <2>1. lost'.swallowed = lost.swallowed \cup {h}
    BY <1>0, <1>1, <1>11 DEF Losses
  <2>2. h \notin lost.swallowed
    BY <1>2, <1>7
  <2>3. Cardinality(lost'.swallowed) = Cardinality(lost.swallowed) + 1
    BY <1>8, <2>1, <2>2, FS_AddElement
  <2>4. Cardinality(Arrived) =
          (count - 1) + Cardinality(Held) + Len(taken) + drops + (Cardinality(lost.swallowed) + 1)
    BY <1>8, <1>9, SMTT(30)
  <2>5. Cardinality(Arrived') =
          count' + Cardinality(Held') + Len(taken') + drops' + Cardinality(lost'.swallowed)
    BY <1>2, <1>4, <1>11, <2>3, <2>4, Zenon
  <2>6. Members(taken)' = Members(taken)
    BY <1>11 DEF Members
  <2>7. Accounted'
    BY <1>3, <1>4, <1>5, <1>11, <2>1, <2>5, <2>6 DEF AccountInv, Accounted
  <2>8. LossesAreOlder'
    BY <1>3, <1>6, <1>7, <2>1 DEF AccountInv, LossesAreOlder, Older
  <2> QED BY <1>4, <2>7, <2>8 DEF AccountInv
<1> QED BY <1>10, <1>11

(* The other steps move no character.                                      *)
LEMMA AccountQuiet ==
  ASSUME AccountInv, UNCHANGED <<sent, ctrl, fifo, buffer, tail, count, drops, taken, lost>>
  PROVE  AccountInv'
<1>1. Ring' = Ring
  BY DEF Ring, Slot
<1>2. /\ Members(Ring)' = Members(Ring) /\ Members(taken)' = Members(taken)
      /\ Arrived' = Arrived /\ Held' = Held
  BY <1>1 DEF Members, Arrived, Held, Ordinary
<1> QED BY <1>1, <1>2 DEF AccountInv, Accounted, LossesAreOlder, Older, LineIsSent

LEMMA QuietMovesNothing ==
  ASSUME Quiet PROVE UNCHANGED <<sent, ctrl, fifo, buffer, tail, count, drops, taken, lost>>
BY DEF Quiet, Raise, Interrupt, ReadStatus, PollAgain, EnterTarget, InterruptEnd, PollBreakEnd,
       PromptServes, Continue, Prompt, ServiceBreak, MonitorLoop, Service, vars, line, device, ring,
       counters, history

LEMMA ReadersMove ==
  ASSUME ReadEnd \/ PollCharEnd \/ PromptEnd
  PROVE  /\ UNCHANGED <<sent, ctrl, fifo, drops>>
         /\ \/ Pop /\ count > 0
               /\ \/ taken' = Append(taken, Popped) /\ lost' = lost
                  \/ taken' = taken /\ lost' = [lost EXCEPT !.swallowed = @ \cup {Popped}]
            \/ UNCHANGED <<buffer, tail, count, taken, lost>>
BY DEF ReadEnd, PollCharEnd, PromptEnd, Delivered, line, device, counters, ring

LEMMA AccountStep == ASSUME Inv, AccountInv, [Next]_vars PROVE AccountInv'
<1>1. CASE \E c \in BOOLEAN : Arrive(c)
  BY <1>1, AccountArrive
<1>2. CASE ReadByte
  BY <1>2, AccountReadByte
<1>3. CASE ReadEnd \/ PollCharEnd \/ PromptEnd
  BY <1>3, ReadersMove, AccountPop, AccountQuiet
<1>4. CASE Quiet
  BY <1>4, QuietMovesNothing, AccountQuiet
<1> QED BY <1>1, <1>2, <1>3, <1>4 DEF Next, Driver, Quiet

-----------------------------------------------------------------------------
LEMMA AccountInvariance == Spec => []AccountInv
<1>1. Init => AccountInv
  <2> SUFFICES ASSUME Init PROVE AccountInv
    OBVIOUS
  <2>1. /\ fifo = <<>> /\ taken = <<>> /\ count = 0 /\ drops = 0 /\ sent = 0 /\ ctrl = {}
        /\ lost = [hardware |-> {}, software |-> {}, swallowed |-> {}]
    BY DEF Init
  <2>2. DOMAIN fifo = {} /\ DOMAIN taken = {} /\ DOMAIN Ring = {} /\ Len(taken) = 0
    BY <2>1, EmptySeq DEF Ring
  <2>3. Members(fifo) = {} /\ Members(taken) = {} /\ Members(Ring) = {}
    BY <2>2 DEF Members
  <2>4. Held = {} /\ Arrived = {}
    BY <2>1, <2>3 DEF Held, Arrived
  <2>5. Cardinality({}) = 0
    BY FS_EmptySet
  <2>6. Accounted
    BY <2>1, <2>2, <2>3, <2>4, <2>5 DEF Accounted
  <2> QED BY <2>1, <2>6 DEF AccountInv, LossesAreOlder, Older, LineIsSent
<1>2. Inv /\ AccountInv /\ [Next]_vars => AccountInv'
  BY AccountStep
<1> QED BY <1>1, <1>2, UartInvariance, PTL DEF Spec

(* No character vanishes between the FIFO and the readers, and software_-  *)
(* drops counts those the ring had no room for, one by one (poll_rx,       *)
(* pop_rx, target_read_char).                                              *)
THEOREM CharactersAreAccounted == Spec => []Accounted
<1>1. AccountInv => Accounted
  BY DEF AccountInv
<1> QED BY <1>1, AccountInvariance, PTL

-----------------------------------------------------------------------------
(* The refinement: ring and FIFO are one queue (LossyInput).               *)

(* An increasing sequence holds as many characters as it is long.          *)
LEMMA MembersCounted ==
  ASSUME NEW s \in Seq(Int), Increasing(s)
  PROVE  IsFiniteSet(Members(s)) /\ Cardinality(Members(s)) = Len(s)
<1>1. Len(s) \in Nat /\ DOMAIN s = 1 .. Len(s) /\ \A i \in 1 .. Len(s) : s[i] \in Int
  BY LenProperties, ElementOfSeq
<1>2. \A i, j \in 1 .. Len(s) : i # j => s[i] # s[j]
  <2> TAKE i, j \in 1 .. Len(s)
  <2>1. i # j => i < j \/ j < i
    BY <1>1
  <2>2. (i < j => s[i] < s[j]) /\ (j < i => s[j] < s[i]) /\ s[i] \in Int /\ s[j] \in Int
    BY <1>1 DEF Increasing
  <2> QED BY <2>1, <2>2
<1>3. [i \in 1 .. Len(s) |-> s[i]] \in Bijection(1 .. Len(s), Members(s))
  BY <1>1, <1>2 DEF Bijection, Injection, Surjection, IsInjective, Members
<1>4. IsFiniteSet(1 .. Len(s)) /\ Cardinality(1 .. Len(s)) = Len(s)
  <2>1. PICK n : n = Len(s)
    OBVIOUS
  <2>2. n \in Nat /\ 1 \in Int /\ n \in Int /\ (1 > n => n = 0) /\ n - 1 + 1 = n
    BY <1>1, <2>1
  <2> QED BY <2>1, <2>2, FS_Interval
<1>5. ExistsBijection(1 .. Len(s), Members(s))
  BY <1>3 DEF ExistsBijection
<1> QED BY <1>4, <1>5, FS_Bijection

(* What Queue!Next asks of an ordinary character, of the ring q it waits in *)
(* and of the set f of those that wait in the FIFO.                         *)
LEMMA HeadIsOldest ==
  ASSUME NEW q \in Seq(Int), q # <<>>, Increasing(q), NEW f, \A n \in f : Head(q) < n /\ n \in Int
  PROVE  /\ Head(q) \in Members(q) \cup f
         /\ {m \in Members(q) \cup f : m < Head(q)} = {}
         /\ Members(Tail(q)) \cup f = (Members(q) \cup f) \ {Head(q)}
<1>0. PICK h : h = Head(q)
  OBVIOUS
<1>1. Members(q) = {h} \cup Members(Tail(q)) /\ h \in Int
  BY <1>0, MembersTail, IndexedTail
<1>2. \A n \in Members(Tail(q)) : h < n /\ n \in Int
  <2>1. \A i \in DOMAIN Tail(q) : h < Tail(q)[i] /\ i + 1 \in DOMAIN q /\ Tail(q)[i] = q[i + 1]
    BY <1>0, TailKeepsOrder, IndexedTail
  <2>2. \A i \in DOMAIN q : q[i] \in Int
    BY IndexedTail
  <2> QED BY <2>1, <2>2 DEF Members
<1>3. \A n \in Members(Tail(q)) \cup f : h < n /\ n \in Int
  BY <1>0, <1>2
<1>4. h \notin Members(Tail(q)) \cup f /\ \A n \in Members(q) \cup f : ~(n < h)
  BY <1>1, <1>3
<1> QED BY <1>0, <1>1, <1>4

LEMMA QueueCounts == \A S : Queue!Cardinality(S) = Cardinality(S)
BY Zenon DEF Queue!Cardinality, Cardinality, Queue!IsFiniteSet, IsFiniteSet

LEMMA QueueSend == ASSUME Inv, AccountInv, NEW c \in BOOLEAN, Arrive(c) PROVE Queue!Send
<1>0. PICK k : k = sent + 1
  OBVIOUS
<1>1. Ring' = Ring /\ (Held' = Held \/ Held' = Held \cup {k})
  BY <1>0, ArriveHolds
<1>2. Members(Ring)' = Members(Ring)
  BY <1>1 DEF Members
<1>3. Waiting' = Waiting \/ Waiting' = Waiting \cup {k}
  BY <1>1, <1>2 DEF Waiting
<1>4. sent' = k /\ taken' = taken
  BY <1>0 DEF Arrive
<1> QED BY <1>0, <1>3, <1>4 DEF Queue!Send

(* A character moves from the FIFO to the ring and waits on, or finds the  *)
(* ring full: those before it are the Capacity characters of the ring.     *)
LEMMA QueueReadByte ==
  ASSUME Inv, AccountInv, ReadByte
  PROVE  UNCHANGED <<sent, Waiting, taken>> \/ Queue!Drop
<1>0. PICK h : h = Head(fifo)
  OBVIOUS
<1>1. /\ fifo # <<>> /\ fifo' = Tail(fifo) /\ h \in Int /\ UNCHANGED <<sent, ctrl, taken>>
      /\ \/ ~Ordinary(h) /\ Ring' = Ring
         \/ Ordinary(h) /\ Ring' = Append(Ring, h)
         \/ Ordinary(h) /\ Ring' = Ring /\ count = Capacity
  BY <1>0, ReadByteMoves
<1>2. /\ fifo \in Seq(Int) /\ Ring \in Seq(Int) /\ Increasing(fifo) /\ Increasing(Ring)
      /\ Precedes(Ring, fifo) /\ TypeOK
  BY OrderFacts
<1>3. /\ \A i \in DOMAIN fifo' : h < fifo'[i] /\ fifo'[i] \in Int
      /\ \A i \in DOMAIN Ring : Ring[i] < h
  BY <1>0, <1>1, <1>2, TailKeepsOrder, IndexedTail
<1>4. Members(fifo) = {h} \cup Members(fifo)'
  BY <1>0, <1>1, <1>2, MembersTail DEF Members
<1>5. /\ \A n \in Members(fifo)' : h < n /\ n \in Int
      /\ \A n \in Members(Ring) : n < h
  BY <1>3 DEF Members
<1>6. \A n : Ordinary(n)' <=> Ordinary(n)
  BY <1>1 DEF Ordinary
<1>7. Held = Held' \cup (IF Ordinary(h) THEN {h} ELSE {})
  BY <1>4, <1>6 DEF Held
<1>8. \A n \in Held' : h < n /\ n \in Int
  BY <1>5 DEF Held
<1>9. CASE ~Ordinary(h) /\ Ring' = Ring
  <2>1. Members(Ring)' = Members(Ring) /\ Held' = Held
    BY <1>7, <1>9 DEF Members
  <2> QED BY <1>1, <2>1 DEF Waiting
<1>10. CASE Ordinary(h) /\ Ring' = Append(Ring, h)
  <2>1. Members(Append(Ring, h)) = Members(Ring) \cup {h}
    BY <1>1, <1>2, MembersAppend
  <2>2. Members(Ring)' = Members(Ring) \cup {h}
    BY <1>10, <2>1 DEF Members
  <2>3. Waiting' = Waiting
    BY <1>7, <1>10, <2>2 DEF Waiting
  <2> QED BY <1>1, <2>3
<1>11. CASE Ordinary(h) /\ Ring' = Ring /\ count = Capacity
  <2>1. Members(Ring)' = Members(Ring)
    BY <1>11 DEF Members
  <2>2. h \notin Members(Ring) /\ h \notin Held' /\ h \in Held
    BY <1>1, <1>5, <1>7, <1>8, <1>11
  <2>3. h \in Waiting /\ Waiting' = Waiting \ {h}
    BY <1>7, <1>11, <2>1, <2>2 DEF Waiting
  <2>4. {m \in Waiting : m < h} = Members(Ring)
    <3>1. \A m \in Held : ~(m < h)
      BY <1>1, <1>7, <1>8
    <3> QED BY <1>5, <3>1 DEF Waiting
  <2>5. Cardinality(Members(Ring)) = Len(Ring) /\ Len(Ring) = count
    BY <1>2, MembersCounted, RingFacts, RingIsASequence
  <2> QED BY <1>1, <1>11, <2>3, <2>4, <2>5, QueueCounts DEF Queue!Drop, Queue!Before
<1> QED BY <1>1, <1>9, <1>10, <1>11

LEMMA QueuePop ==
  ASSUME Inv, AccountInv, Pop, count > 0, UNCHANGED <<sent, ctrl, fifo>>,
         \/ taken' = Append(taken, Popped) \/ taken' = taken
  PROVE  Queue!Deliver \/ Queue!Swallow
<1>0. PICK h : h = Popped
  OBVIOUS
<1>1. /\ TypeOK /\ Order /\ Ring \in Seq(Int) /\ Increasing(Ring) /\ Precedes(Ring, fifo)
      /\ fifo \in Seq(Int)
  BY OrderFacts
<1>2. Ring # <<>> /\ Ring' = Tail(Ring) /\ h = Head(Ring)
  BY <1>0, <1>1, PopEffect
<1>3. \A n \in Held : h < n /\ n \in Int
  <2>1. \A i \in DOMAIN fifo : h < fifo[i] /\ fifo[i] \in Int
    BY <1>1, <1>2, TailKeepsOrder, ElementOfSeq, LenProperties
  <2> QED BY <2>1 DEF Held, Members
<1>4. Held' = Held /\ Members(Ring)' = Members(Tail(Ring))
  BY <1>2 DEF Held, Members, Ordinary
<1>5. h \in Waiting /\ {m \in Waiting : m < h} = {} /\ Waiting' = Waiting \ {h}
  BY <1>1, <1>2, <1>3, <1>4, HeadIsOldest DEF Waiting
<1>6. CASE taken' = Append(taken, Popped)
  BY <1>0, <1>5, <1>6 DEF Queue!Deliver, Queue!Before
<1>7. CASE taken' = taken
  BY <1>5, <1>7 DEF Queue!Swallow, Queue!Before
<1> QED BY <1>6, <1>7

LEMMA QueueQuiet ==
  ASSUME UNCHANGED <<sent, ctrl, fifo, buffer, tail, count, taken>>
  PROVE  UNCHANGED <<sent, Waiting, taken>>
<1>1. Ring' = Ring
  BY DEF Ring, Slot
<1> QED BY <1>1 DEF Waiting, Held, Members, Ordinary

LEMMA QueueStep ==
  ASSUME Inv, AccountInv, [Next]_vars
  PROVE  [Queue!Next]_<<sent, Waiting, taken>>
<1>1. CASE \E c \in BOOLEAN : Arrive(c)
  BY <1>1, QueueSend DEF Queue!Next
<1>2. CASE ReadByte
  BY <1>2, QueueReadByte DEF Queue!Next
<1>3. CASE ReadEnd \/ PollCharEnd \/ PromptEnd
  BY <1>3, ReadersMove, QueuePop, QueueQuiet DEF Queue!Next
<1>4. CASE Quiet
  BY <1>4, QuietMovesNothing, QueueQuiet
<1> QED BY <1>1, <1>2, <1>3, <1>4 DEF Next, Driver, Quiet

(* The driver implements LossyInput for every size of ring and FIFO: to    *)
(* its readers, ring and FIFO are one queue, oldest first, that loses a    *)
(* character only to a read answered with Ctrl-C, or when Capacity older   *)
(* ones wait before it (poll_rx, pop_rx, target_read_char).                *)
THEOREM DriverIsLossyInput == Spec => ImplementsQueue
<1>1. Init => Queue!Init
  <2> SUFFICES ASSUME Init PROVE Queue!Init
    OBVIOUS
  <2>1. fifo = <<>> /\ taken = <<>> /\ count = 0 /\ sent = 0
    BY DEF Init
  <2>2. DOMAIN fifo = {} /\ DOMAIN Ring = {}
    BY <2>1, EmptySeq DEF Ring
  <2> QED BY <2>1, <2>2 DEF Queue!Init, Waiting, Held, Members
<1>2. Inv /\ AccountInv /\ [Next]_vars => [Queue!Next]_<<sent, Waiting, taken>>
  BY QueueStep
<1> QED BY <1>1, <1>2, UartInvariance, AccountInvariance, PTL DEF Spec, ImplementsQueue, Queue!Spec
=============================================================================
