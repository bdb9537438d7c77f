------------------------ MODULE SnapshotTransferProofs ------------------------
(***************************************************************************)
(* What is proved of the formats and of the transfer.  The formats first:  *)
(* their recursive functions exist and are sequences of naturals, each     *)
(* encoder is undone by its decoder, and a file that is read is the only   *)
(* one for what it holds.  Then the dialogue of tool and guest, one lemma  *)
(* for each action: payloads, chunks and manifests are not overrun.        *)
(***************************************************************************)
EXTENDS SnapshotTransfer, SequenceTheorems, WellFoundedInduction, TLAPS

-----------------------------------------------------------------------------
(* Induction and recursion over sets and functions.                        *)

\* Induction on the naturals, for a set.
LEMMA SetInduction ==
  ASSUME NEW S, 0 \in S, \A n \in Nat : n \in S => n + 1 \in S
  PROVE  Nat \subseteq S
<1> SUFFICES ASSUME Nat \ S # {} PROVE FALSE
  OBVIOUS
<1> DEFINE T == Nat \ S
<1>1. \E x \in T : \A y \in T : ~(<<y, x>> \in OpToRel(<, Nat))
  <2>1. T \subseteq Nat /\ T # {}
    OBVIOUS
  <2> HIDE DEF T
  <2> QED
    BY <2>1, WFMin, NatLessThanWellFounded, Zenon
<1>2. PICK x \in T : \A y \in T : ~(<<y, x>> \in OpToRel(<, Nat))
  BY <1>1
<1>3. \A y \in T : ~(y < x)
  BY <1>2, Zenon DEF OpToRel
<1>4. x \in Nat /\ x # 0 /\ x \notin S
  OBVIOUS
<1>5. x - 1 \in Nat /\ x - 1 < x /\ (x - 1) + 1 = x
  BY <1>4
<1>6. x - 1 \in S
  BY <1>3, <1>5
<1> QED
  BY <1>4, <1>5, <1>6

\* From every d of D but those of the base B one comes to a next one of lower
\* rank.
Chain(D, B, next, rank) ==
  /\ B \subseteq D /\ rank \in [D -> Nat] /\ next \in [D \ B -> D]
  /\ \A d \in D \ B : rank[next[d]] < rank[d]

\* Induction along a chain.
LEMMA ChainInduction ==
  ASSUME NEW D, NEW B, NEW next, NEW rank, Chain(D, B, next, rank),
         NEW S, B \subseteq S, \A d \in D \ B : next[d] \in S => d \in S
  PROVE  D \subseteq S
<1> USE DEF Chain
<1> DEFINE T == {n \in Nat : \A d \in D : rank[d] < n => d \in S}
<1>1. 0 \in T
  OBVIOUS
<1>2. ASSUME NEW n \in Nat, n \in T PROVE n + 1 \in T
  <2>1. ASSUME NEW d \in D, rank[d] < n + 1 PROVE d \in S
    <3>1. CASE d \notin B
      <4>1. next[d] \in D /\ rank[next[d]] < n
        BY <2>1, <3>1
      <4> QED
        BY <1>2, <3>1, <4>1
    <3> QED
      BY <3>1
  <2> QED
    BY <2>1
<1>3. Nat \subseteq T
  <2> HIDE DEF T
  <2> QED
    BY <1>1, <1>2, SetInduction
<1>4. ASSUME NEW d \in D PROVE d \in S
  <2>1. rank[d] \in Nat /\ rank[d] < rank[d] + 1
    OBVIOUS
  <2>2. rank[d] + 1 \in T
    BY <1>3, <2>1
  <2> QED
    BY <2>1, <2>2
<1> QED
  BY <1>4

\* A function from D to V may be defined along a chain: by b on its base, and
\* elsewhere by g from the value of the next.
Recursion(D, B, next, rank, V, bound, b, g) ==
  /\ Chain(D, B, next, rank) /\ bound \in Nat /\ \A d \in D : rank[d] < bound
  /\ V # {} /\ b \in [B -> V] /\ g \in [(D \ B) \X V -> V]
LEMMA ChainRecursion ==
  ASSUME NEW D, NEW B, NEW next, NEW rank, NEW V, NEW bound, NEW b, NEW g,
         Recursion(D, B, next, rank, V, bound, b, g)
  PROVE  \E f \in [D -> V] : \A d \in D : f[d] = IF d \in B THEN b[d] ELSE g[<<d, f[next[d]]>>]
<1> USE DEF Recursion, Chain
<1> DEFINE Value(f, d) == IF d \in B THEN b[d] ELSE g[<<d, f[next[d]]>>]
           Good(n) == \E f \in [D -> V] : \A d \in D : rank[d] < n => f[d] = Value(f, d)
           S == {n \in Nat : Good(n)}
<1>1. 0 \in S
  <2>1. PICK v : v \in V
    OBVIOUS
  <2>2. [d \in D |-> v] \in [D -> V] /\ \A d \in D : ~(rank[d] < 0)
    BY <2>1
  <2> QED
    BY <2>2
<1>2. ASSUME NEW n \in Nat, n \in S PROVE n + 1 \in S
  <2>1. PICK f \in [D -> V] : \A d \in D : rank[d] < n => f[d] = Value(f, d)
    BY <1>2
  <2>2. PICK h : h = [d \in D |-> IF rank[d] < n THEN f[d] ELSE Value(f, d)]
    OBVIOUS
  <2>3. h \in [D -> V]
    BY <2>2
  <2>4. ASSUME NEW d \in D, rank[d] < n + 1 PROVE h[d] = Value(h, d)
    <3>1. CASE d \in B
      BY <2>1, <2>2, <3>1
    <3>2. CASE d \notin B
      <4>1. next[d] \in D /\ rank[next[d]] < n
        BY <2>4, <3>2
      <4>2. h[next[d]] = f[next[d]]
        BY <2>2, <4>1
      <4>3. h[d] = Value(f, d)
        BY <2>1, <2>2
      <4> QED
        BY <3>2, <4>2, <4>3
    <3> QED
      BY <3>1, <3>2
  <2>5. Good(n + 1)
    BY <2>3, <2>4
  <2> QED
    BY <2>5
<1>3. bound \in S
  <2> HIDE DEF S
  <2>1. Nat \subseteq S
    BY <1>1, <1>2, SetInduction
  <2> QED
    BY <2>1
<1> QED
  BY <1>3

-----------------------------------------------------------------------------
(* The recursive functions of the formats.                                 *)

\* Counting down from n to 0.
Down(n) == [k \in 1 .. n |-> k - 1]
Height(n) == [k \in 0 .. n |-> k]
LEMMA CountDown ==
  ASSUME NEW n \in Nat
  PROVE  /\ Chain(0 .. n, {0}, Down(n), Height(n))
         /\ n + 1 \in Nat /\ \A k \in 0 .. n : Height(n)[k] < n + 1
         /\ (0 .. n) \ {0} = 1 .. n /\ \A k \in 1 .. n : Down(n)[k] = k - 1 /\ k - 1 \in 0 .. n
<1>1. (0 .. n) \ {0} = 1 .. n
  OBVIOUS
<1> QED
  BY <1>1 DEF Chain, Down, Height

\* A function defined by counting up to n.
Counting(n, V, v, g) == n \in Nat /\ v \in V /\ g \in [(1 .. n) \X V -> V]
LEMMA CountingRecursion ==
  ASSUME NEW n, NEW V, NEW v, NEW g, Counting(n, V, v, g)
  PROVE  \E f \in [0 .. n -> V] : \A k \in 0 .. n : f[k] = IF k = 0 THEN v ELSE g[<<k, f[k - 1]>>]
<1> USE DEF Counting
<1> DEFINE D == 0 .. n
           b == [k \in {0} |-> v]
<1>1. Recursion(D, {0}, Down(n), Height(n), V, n + 1, b, g)
  BY CountDown DEF Recursion
<1>2. PICK f \in [D -> V] :
        \A k \in D : f[k] = IF k \in {0} THEN b[k] ELSE g[<<k, f[Down(n)[k]]>>]
  <2> HIDE DEF D, b
  <2> QED
    BY ONLY <1>1, ChainRecursion
<1>3. \A k \in 1 .. n : Down(n)[k] = k - 1
  BY CountDown
<1>4. ASSUME NEW k \in D PROVE f[k] = IF k = 0 THEN v ELSE g[<<k, f[k - 1]>>]
  <2>1. CASE k = 0
    BY <1>2, <2>1
  <2>2. CASE k # 0
    <3>1. Down(n)[k] = k - 1
      BY <1>3, <2>2
    <3>2. f[k] = g[<<k, f[Down(n)[k]]>>]
      BY <1>2, <2>2
    <3> QED
      BY <2>2, <3>1, <3>2
  <2> QED
    BY <2>1, <2>2
<1> QED
  BY <1>4

\* Induction by counting up to n.
LEMMA CountingInduction ==
  ASSUME NEW n \in Nat, NEW S, 0 \in S, \A k \in 1 .. n : k - 1 \in S => k \in S
  PROVE  0 .. n \subseteq S
<1>1. {0} \subseteq S /\ \A k \in (0 .. n) \ {0} : Down(n)[k] \in S => k \in S
  BY CountDown
<1>2. Chain(0 .. n, {0}, Down(n), Height(n))
  BY CountDown
<1> QED
  BY ONLY <1>1, <1>2, ChainInduction

\* A function defined backwards from n + 1, each value from a later one.
Backward(n, V, v, next, g) ==
  /\ n \in Nat /\ v \in V /\ g \in [(1 .. n) \X V -> V]
  /\ next \in [1 .. n -> 1 .. n + 1] /\ \A k \in 1 .. n : next[k] > k
LEMMA BackwardChain ==
  ASSUME NEW n \in Nat, NEW next \in [1 .. n -> 1 .. n + 1], \A k \in 1 .. n : next[k] > k
  PROVE  \E rank : /\ Chain(1 .. n + 1, {n + 1}, next, rank)
                   /\ \A k \in 1 .. n + 1 : rank[k] < n + 1
<1>1. PICK rank : rank = [k \in 1 .. n + 1 |-> n + 1 - k]
  OBVIOUS
<1>2. rank \in [1 .. n + 1 -> Nat] /\ \A k \in 1 .. n + 1 : rank[k] = n + 1 - k
  BY <1>1
<1>3. (1 .. n + 1) \ {n + 1} = 1 .. n
  OBVIOUS
<1>4. ASSUME NEW k \in 1 .. n PROVE rank[next[k]] < rank[k]
  <2>1. next[k] \in 1 .. n + 1 /\ k \in 1 .. n + 1
    OBVIOUS
  <2> QED
    BY <1>2, <2>1
<1>5. Chain(1 .. n + 1, {n + 1}, next, rank)
  BY <1>2, <1>3, <1>4 DEF Chain
<1> QED
  BY <1>2, <1>5
LEMMA BackwardRecursion ==
  ASSUME NEW n, NEW V, NEW v, NEW next, NEW g, Backward(n, V, v, next, g)
  PROVE  \E f \in [1 .. n + 1 -> V] :
           /\ f[n + 1] = v
           /\ \A k \in 1 .. n : f[k] = g[<<k, f[next[k]]>>]
<1> USE DEF Backward
<1> DEFINE D == 1 .. n + 1
           b == [k \in {n + 1} |-> v]
<1>1. PICK rank : Chain(D, {n + 1}, next, rank) /\ \A k \in D : rank[k] < n + 1
  BY BackwardChain
<1>2. D \ {n + 1} = 1 .. n
  OBVIOUS
<1>3. Recursion(D, {n + 1}, next, rank, V, n + 1, b, g)
  <2>1. V # {} /\ b \in [{n + 1} -> V] /\ n + 1 \in Nat
    OBVIOUS
  <2>2. g \in [(D \ {n + 1}) \X V -> V]
    BY <1>2
  <2> HIDE DEF D, b, Backward
  <2> QED
    BY <1>1, <2>1, <2>2 DEF Recursion
<1>4. PICK f \in [D -> V] :
        \A k \in D : f[k] = IF k \in {n + 1} THEN b[k] ELSE g[<<k, f[next[k]]>>]
  <2> HIDE DEF D, b, Backward
  <2> QED
    BY ONLY <1>3, ChainRecursion
<1>5. f[n + 1] = v
  <2>1. n + 1 \in D /\ b[n + 1] = v
    OBVIOUS
  <2> HIDE DEF D, b
  <2> QED
    BY <1>4, <2>1
<1>6. \A k \in 1 .. n : f[k] = g[<<k, f[next[k]]>>]
  BY <1>4
<1> QED
  BY <1>5, <1>6
LEMMA BackwardInduction ==
  ASSUME NEW n \in Nat, NEW next \in [1 .. n -> 1 .. n + 1], \A k \in 1 .. n : next[k] > k,
         NEW S, n + 1 \in S, \A k \in 1 .. n : next[k] \in S => k \in S
  PROVE  1 .. n + 1 \subseteq S
<1>1. PICK rank : Chain(1 .. n + 1, {n + 1}, next, rank)
  BY BackwardChain
<1>2. (1 .. n + 1) \ {n + 1} = 1 .. n
  OBVIOUS
<1>3. {n + 1} \subseteq S /\ \A k \in (1 .. n + 1) \ {n + 1} : next[k] \in S => k \in S
  BY <1>2
<1> QED
  BY ONLY <1>1, <1>3, ChainInduction

\* crc32 is a number.
LEMMA ChecksumType == ASSUME NEW s \in Seq(Nat) PROVE Checksum(s) \in Nat
<1>1. PICK L : L = Len(s)
  OBVIOUS
<1> DEFINE D == 0 .. L
           e(n, v) == (31 * v + s[n] + 7) % 251
           g == [p \in (1 .. L) \X Nat |-> e(p[1], p[2])]
           sum == CHOOSE f : f = [n \in D |-> IF n = 0 THEN 1 ELSE e(n, f[n - 1])]
           S == {n \in D : sum[n] \in Nat}
<1>2. L \in Nat /\ \A n \in 1 .. L : s[n] \in Nat
  BY <1>1, LenProperties, ElementOfSeq
<1>3. \A n \in 1 .. L, v \in Nat : e(n, v) \in Nat
  BY <1>2
<1>4. Checksum(s) = sum[L]
  BY <1>1, Zenon DEF Checksum
<1> HIDE DEF e
<1>5. Counting(L, Nat, 1, g) /\ \A n \in 1 .. L, v \in Nat : g[<<n, v>>] = e(n, v)
  BY <1>2, <1>3 DEF Counting
<1> HIDE DEF g
<1>6. PICK f \in [D -> Nat] : \A n \in D : f[n] = IF n = 0 THEN 1 ELSE g[<<n, f[n - 1]>>]
  BY ONLY <1>5, CountingRecursion
<1>7. f = [n \in D |-> IF n = 0 THEN 1 ELSE e(n, f[n - 1])]
  <2> HIDE DEF sum
  <2>1. ASSUME NEW n \in D, n # 0 PROVE f[n] = e(n, f[n - 1])
    <3>1. n \in 1 .. L /\ f[n - 1] \in Nat
      BY <1>2, <2>1
    <3> QED
      BY <1>5, <1>6, <2>1, <3>1
  <2>2. \A n \in D : f[n] = IF n = 0 THEN 1 ELSE e(n, f[n - 1])
    BY <1>6, <2>1
  <2> HIDE DEF D
  <2> QED
    BY <2>2
<1>8. sum = [n \in D |-> IF n = 0 THEN 1 ELSE e(n, sum[n - 1])]
  <2> HIDE DEF D
  <2> QED BY <1>7, Zenon
<1>9. D \subseteq S
  <2> HIDE DEF sum
  <2>1. 0 \in S
    BY <1>2, <1>8
  <2>2. ASSUME NEW n \in 1 .. L, n - 1 \in S PROVE n \in S
    <3>1. n \in D /\ n # 0 /\ sum[n - 1] \in Nat
      BY <1>2, <2>2
    <3>2. sum[n] = e(n, sum[n - 1])
      BY <1>8, <3>1
    <3> QED
      BY <1>3, <3>1, <3>2
  <2> HIDE DEF S
  <2> QED
    BY <1>2, <2>1, <2>2, CountingInduction
<1> QED
  <2> HIDE DEF sum
  <2> QED
    BY <1>2, <1>4, <1>9

-----------------------------------------------------------------------------
(* Sequences.                                                              *)

\* Parts of a sequence.
LEMMA PartOf ==
  ASSUME NEW S, NEW s \in Seq(S), NEW a \in Nat \ {0}, NEW b \in Nat, b <= Len(s)
  PROVE  /\ SubSeq(s, a, b) \in Seq(S)
         /\ Len(SubSeq(s, a, b)) = IF a <= b THEN b - a + 1 ELSE 0
         /\ \A i \in 1 .. b - a + 1 : SubSeq(s, a, b)[i] = s[a + i - 1]
<1>1. PICK L : L = Len(s)
  OBVIOUS
<1>2. L \in Nat /\ \A i \in 1 .. L : s[i] \in S
  BY <1>1, LenProperties, ElementOfSeq
<1>3. a \in Int /\ b \in Int /\ \A i \in a .. b : s[i] \in S
  BY <1>1, <1>2
<1> QED
  BY ONLY <1>3, SubSeqProperties

LEMMA PrefixOf ==
  ASSUME NEW S, NEW s \in Seq(S), NEW n \in 0 .. Len(s)
  PROVE  /\ Prefix(s, n) \in Seq(S) /\ Len(Prefix(s, n)) = n
         /\ \A i \in 1 .. n : Prefix(s, n)[i] = s[i]
<1>1. PICK L : L = Len(s)
  OBVIOUS
<1>2. L \in Nat
  BY <1>1, LenProperties
<1>3. 1 \in Nat \ {0} /\ n \in Nat /\ n <= Len(s)
  BY <1>1, <1>2
<1>4. /\ SubSeq(s, 1, n) \in Seq(S)
      /\ Len(SubSeq(s, 1, n)) = IF 1 <= n THEN n - 1 + 1 ELSE 0
      /\ \A i \in 1 .. n - 1 + 1 : SubSeq(s, 1, n)[i] = s[1 + i - 1]
  BY ONLY <1>3, s \in Seq(S), PartOf
<1>5. Len(Prefix(s, n)) = n
  BY <1>3, <1>4 DEF Prefix
<1>6. ASSUME NEW i \in 1 .. n PROVE Prefix(s, n)[i] = s[i]
  <2>1. i \in 1 .. n - 1 + 1 /\ 1 + i - 1 = i
    BY <1>3
  <2> QED
    BY <1>4, <2>1 DEF Prefix
<1> QED
  BY <1>4, <1>5, <1>6 DEF Prefix

LEMMA FromOf ==
  ASSUME NEW S, NEW s \in Seq(S), NEW n \in Nat
  PROVE  /\ From(s, n) \in Seq(S)
         /\ n <= Len(s) => Len(From(s, n)) = Len(s) - n
         /\ n >= Len(s) => From(s, n) = <<>>
         /\ \A i \in 1 .. Len(s) - n : From(s, n)[i] = s[n + i]
<1>1. PICK L : L = Len(s)
  OBVIOUS
<1>2. L \in Nat
  BY <1>1, LenProperties
<1>3. n + 1 \in Nat \ {0} /\ L \in Nat /\ L <= Len(s)
  BY <1>1, <1>2
<1>4. /\ SubSeq(s, n + 1, L) \in Seq(S)
      /\ Len(SubSeq(s, n + 1, L)) = IF n + 1 <= L THEN L - (n + 1) + 1 ELSE 0
      /\ \A i \in 1 .. L - (n + 1) + 1 : SubSeq(s, n + 1, L)[i] = s[n + 1 + i - 1]
  BY ONLY <1>3, s \in Seq(S), PartOf
<1>5. From(s, n) = SubSeq(s, n + 1, L)
  BY <1>1 DEF From
<1>6. n <= L => Len(From(s, n)) = L - n
  BY <1>2, <1>4, <1>5
<1>7. ASSUME NEW i \in 1 .. L - n PROVE From(s, n)[i] = s[n + i]
  <2>1. i \in 1 .. L - (n + 1) + 1 /\ n + 1 + i - 1 = n + i
    BY <1>2
  <2> QED
    BY <1>4, <1>5, <2>1
<1>8. n >= L => From(s, n) = <<>>
  <2>1. n >= L => L < n + 1 /\ n + 1 \in Int /\ L \in Int
    BY <1>2
  <2> QED
    BY <1>5, <2>1, SubSeqEmpty
<1> QED
  BY <1>1, <1>4, <1>5, <1>6, <1>7, <1>8

LEMMA RepeatOf ==
  ASSUME NEW S, NEW c \in S, NEW n \in Nat
  PROVE  /\ Repeat(c, n) \in Seq(S) /\ Len(Repeat(c, n)) = n
         /\ \A i \in 1 .. n : Repeat(c, n)[i] = c
<1>1. Repeat(c, n) \in [1 .. n -> S] /\ \A i \in 1 .. n : Repeat(c, n)[i] = c
  BY DEF Repeat
<1>2. Repeat(c, n) \in Seq(S)
  BY <1>1, SeqDef
<1>3. PICK L : L = Len(Repeat(c, n))
  OBVIOUS
<1>4. L \in Nat /\ DOMAIN Repeat(c, n) = 1 .. L
  BY <1>2, <1>3, LenProperties
<1>5. 1 .. L = 1 .. n
  BY <1>1, <1>4
<1>6. L = n
  BY <1>4, <1>5
<1> QED
  BY <1>1, <1>2, <1>3, <1>6

\* A set of numbers has a least one, and under a bound a greatest.
LEMMA Least ==
  ASSUME NEW T, T \subseteq Nat, T # {}
  PROVE  \E n \in T : \A k \in T : n <= k
<1> SUFFICES ASSUME \A n \in T : \E k \in T : k < n PROVE FALSE
  OBVIOUS
<1> DEFINE S == {n \in Nat : \A k \in 0 .. n : k \notin T}
<1>1. 0 \in S
  OBVIOUS
<1>2. \A n \in Nat : n \in S => n + 1 \in S
  OBVIOUS
<1>3. Nat \subseteq S
  <2> HIDE DEF S
  <2> QED BY <1>1, <1>2, SetInduction
<1>4. PICK t \in T : t \in Nat
  OBVIOUS
<1>5. t \in S /\ t \in 0 .. t
  BY <1>3, <1>4
<1> QED
  BY <1>4, <1>5

LEMMA Greatest ==
  ASSUME NEW L \in Nat, NEW T, T \subseteq 0 .. L, T # {}
  PROVE  \E n \in T : \A k \in T : k <= n
<1> DEFINE U == {n \in Nat : \A k \in T : k <= n}
<1>1. L \in U /\ U \subseteq Nat
  OBVIOUS
<1>2. PICK n \in U : \A k \in U : n <= k
  <2> HIDE DEF U
  <2> QED BY <1>1, Least
<1>3. CASE n \in T
  BY <1>3
<1>4. CASE n \notin T
  <2>1. \A k \in T : k \in Nat /\ k <= n /\ k # n
    BY <1>4
  <2>2. n \in Nat /\ n # 0
    <3>1. PICK t : t \in T
      OBVIOUS
    <3>2. t \in Nat /\ t <= n /\ t # n
      BY <2>1, <3>1
    <3> QED
      BY <3>2
  <2>3. n - 1 \in U
    BY <2>1, <2>2
  <2> QED
    BY <1>2, <2>2, <2>3
<1> QED
  BY <1>3, <1>4

-----------------------------------------------------------------------------
(* Runs.                                                                   *)

\* The run found at a cell has at least that cell, is of equal ones and fits a
\* pair.
LEMMA RunFound ==
  ASSUME NEW s \in Seq(Nat), NEW at \in 1 .. Len(s)
  PROVE  /\ RunAt(s, at) \in 1 .. Len(s) - at + 1 /\ RunAt(s, at) <= PairMax
         /\ \A i \in at .. at + RunAt(s, at) - 1 : s[i] = s[at]
<1>1. PICK L : L = Len(s)
  OBVIOUS
<1>2. L \in Nat /\ at \in 1 .. L
  BY <1>1, LenProperties
<1> DEFINE same == {n \in 1 .. L - at + 1 : n <= PairMax /\ \A i \in at .. at + n - 1 : s[i] = s[at]}
<1>3. RunAt(s, at) = CHOOSE n \in same : \A k \in same : k <= n
  BY <1>1, Zenon DEF RunAt
<1>4. 1 \in same
  <2>1. \A i \in at .. at + 1 - 1 : i = at
    BY <1>2
  <2> QED
    BY <1>2, <2>1, FormatAssumption
<1>5. same \subseteq 0 .. L - at + 1 /\ L - at + 1 \in Nat
  BY <1>2
<1>6. \E n \in same : \A k \in same : k <= n
  <2> HIDE DEF same
  <2> QED BY <1>4, <1>5, Greatest
<1>7. RunAt(s, at) \in same
  <2> HIDE DEF same
  <2> QED BY <1>3, <1>6
<1> QED
  BY <1>1, <1>7

\* rle_encode, from each cell on.
LEMMA RunsEncoded ==
  ASSUME NEW s \in Seq(Nat)
  PROVE  \E f \in [1 .. Len(s) + 1 -> Seq(Nat)] :
           /\ RleEncode(s) = f[1] /\ f[Len(s) + 1] = <<>>
           /\ \A at \in 1 .. Len(s) : f[at] = <<RunAt(s, at), s[at]>> \o f[at + RunAt(s, at)]
<1>1. PICK L : L = Len(s)
  OBVIOUS
<1> DEFINE D == 1 .. L + 1
           V == Seq(Nat)
           r(at) == RunAt(s, at)
           e(at, v) == <<r(at), s[at]>> \o v
           next == [at \in 1 .. L |-> at + r(at)]
           g == [p \in (1 .. L) \X V |-> e(p[1], p[2])]
           pairs == CHOOSE f : f = [at \in D |-> IF at > L THEN <<>> ELSE e(at, f[at + r(at)])]
           S == {at \in D : pairs[at] \in V}
<1>2. L \in Nat /\ (\A at \in 1 .. L : s[at] \in Nat /\ r(at) \in 1 .. L - at + 1)
  BY <1>1, LenProperties, ElementOfSeq, RunFound
<1>3. RleEncode(s) = pairs[1]
  BY <1>1, Zenon DEF RleEncode
<1>4. \A at \in 1 .. L : at + r(at) \in D /\ at + r(at) > at /\ r(at) \in Nat
  BY <1>2
<1>5. ASSUME NEW at \in 1 .. L, NEW v \in V PROVE e(at, v) \in V
  <2>1. <<r(at), s[at]>> \in V
    BY <1>2, <1>4
  <2> QED
    BY <2>1, ConcatProperties
<1>6. \A at \in 1 .. L : next[at] = at + r(at)
  OBVIOUS
<1> HIDE DEF r
<1>7. next \in [1 .. L -> D] /\ \A at \in 1 .. L : next[at] > at
  BY <1>4
<1>8. \A at \in 1 .. L, v \in V : g[<<at, v>>] = e(at, v)
  OBVIOUS
<1>9. g \in [(1 .. L) \X V -> V]
  <2> HIDE DEF e, V
  <2> QED BY <1>5
<1>10. <<>> \in V
  BY EmptySeq
<1> HIDE DEF e, V, g, next
<1>11. Backward(L, V, <<>>, next, g)
  BY <1>2, <1>7, <1>9, <1>10 DEF Backward
<1>12. PICK f \in [D -> V] : f[L + 1] = <<>> /\ \A at \in 1 .. L : f[at] = g[<<at, f[next[at]]>>]
  <2> HIDE DEF pairs
  <2> QED
    BY ONLY <1>11, BackwardRecursion
<1>13. f = [at \in D |-> IF at > L THEN <<>> ELSE e(at, f[at + r(at)])]
  <2> HIDE DEF pairs
  <2>1. ASSUME NEW at \in 1 .. L PROVE f[at] = e(at, f[at + r(at)])
    <3>1. f[at] = g[<<at, f[at + r(at)]>>] /\ f[at + r(at)] \in V
      BY <1>4, <1>6, <1>12
    <3> QED
      BY <1>8, <3>1
  <2>2. \A at \in D : at > L => at = L + 1
    BY <1>2
  <2>3. \A at \in D : ~(at > L) => at \in 1 .. L
    BY <1>2
  <2>4. \A at \in D : f[at] = IF at > L THEN <<>> ELSE e(at, f[at + r(at)])
    BY <1>12, <2>1, <2>2, <2>3
  <2> HIDE DEF D
  <2> QED
    BY <2>4
<1>14. pairs = [at \in D |-> IF at > L THEN <<>> ELSE e(at, pairs[at + r(at)])]
  <2> HIDE DEF D
  <2> QED BY <1>13, Zenon
<1> HIDE DEF pairs
<1>15. pairs[L + 1] = <<>>
  <2>1. L + 1 \in D /\ L + 1 > L
    BY <1>2
  <2> HIDE DEF D
  <2> QED BY <1>14, <2>1
<1>16. ASSUME NEW at \in 1 .. L PROVE pairs[at] = e(at, pairs[at + r(at)])
  <2>1. at \in D /\ ~(at > L)
    BY <1>2
  <2> HIDE DEF D
  <2> QED BY <1>14, <2>1
<1>17. D \subseteq S
  <2>1. L + 1 \in S
    BY <1>2, <1>10, <1>15
  <2>2. ASSUME NEW at \in 1 .. L, next[at] \in S PROVE at \in S
    <3>1. next[at] \in S /\ next[at] = at + r(at)
      BY <1>6, <2>2
    <3>2. pairs[at + r(at)] \in V
      BY <3>1
    <3>3. at \in D
      BY <1>2
    <3> QED
      BY <1>5, <1>16, <3>2, <3>3
  <2> HIDE DEF S
  <2> QED
    BY <1>2, <1>7, <2>1, <2>2, BackwardInduction
<1>18. pairs \in [D -> V]
  <2> HIDE DEF D
  <2> QED BY <1>14, <1>17
<1> QED
  BY <1>1, <1>3, <1>15, <1>16, <1>18 DEF e, r, V

\* snapshot_patch_rle, pair by pair.
LEMMA RunsUnpacked ==
  ASSUME NEW pairs \in Seq(Nat)
  PROVE  \E f \in [0 .. (Len(pairs) \div 2) -> Seq(Nat)] :
           /\ Unpacked(pairs) = f[(Len(pairs) \div 2)] /\ f[0] = <<>>
           /\ \A n \in 1 .. (Len(pairs) \div 2) : f[n] = f[n - 1] \o Repeat(pairs[2 * n], pairs[2 * n - 1])
<1>1. PICK N : N = (Len(pairs) \div 2)
  OBVIOUS
<1> DEFINE D == 0 .. N
           V == Seq(Nat)
           e(n, v) == v \o Repeat(pairs[2 * n], pairs[2 * n - 1])
           g == [p \in (1 .. N) \X V |-> e(p[1], p[2])]
           cells == CHOOSE f : f = [n \in D |-> IF n = 0 THEN <<>> ELSE e(n, f[n - 1])]
           S == {n \in D : cells[n] \in V}
<1>2. N \in Nat /\ \A n \in 1 .. N : pairs[2 * n] \in Nat /\ pairs[2 * n - 1] \in Nat
  <2>1. PICK L : L = Len(pairs)
    OBVIOUS
  <2>2. L \in Nat /\ \A i \in 1 .. L : pairs[i] \in Nat
    BY <2>1, LenProperties, ElementOfSeq
  <2>3. N = L \div 2
    BY <1>1, <2>1
  <2>4. N \in Nat /\ 2 * N <= L
    BY <2>2, <2>3
  <2>5. \A n \in 1 .. N : 2 * n \in 1 .. L /\ 2 * n - 1 \in 1 .. L
    BY <2>2, <2>4
  <2> QED
    BY <2>2, <2>4, <2>5
<1>3. ASSUME NEW n \in 1 .. N, NEW v \in V PROVE e(n, v) \in V
  <2>1. pairs[2 * n] \in Nat /\ pairs[2 * n - 1] \in Nat
    BY <1>2
  <2>2. Repeat(pairs[2 * n], pairs[2 * n - 1]) \in Seq(Nat)
    BY <2>1, RepeatOf, ZenonT(60)
  <2> QED
    BY <2>2, ConcatProperties
<1>4. Unpacked(pairs) = cells[N]
  BY <1>1, Zenon DEF Unpacked
<1> HIDE DEF e
<1>5. \A n \in 1 .. N, v \in V : g[<<n, v>>] = e(n, v)
  OBVIOUS
<1>6. <<>> \in V
  BY EmptySeq
<1> HIDE DEF V
<1>7. g \in [(1 .. N) \X V -> V]
  BY <1>3
<1> HIDE DEF g
<1>8. Counting(N, V, <<>>, g)
  BY <1>2, <1>6, <1>7 DEF Counting
<1>9. PICK f \in [D -> V] : \A n \in D : f[n] = IF n = 0 THEN <<>> ELSE g[<<n, f[n - 1]>>]
  <2> HIDE DEF cells
  <2> QED
    BY ONLY <1>8, CountingRecursion
<1>10. f = [n \in D |-> IF n = 0 THEN <<>> ELSE e(n, f[n - 1])]
  <2> HIDE DEF cells
  <2>1. ASSUME NEW n \in D, n # 0 PROVE f[n] = e(n, f[n - 1])
    <3>1. n \in 1 .. N /\ f[n - 1] \in V
      BY <1>2, <2>1
    <3> QED
      BY <1>5, <1>9, <2>1, <3>1
  <2>2. \A n \in D : f[n] = IF n = 0 THEN <<>> ELSE e(n, f[n - 1])
    BY <1>9, <2>1
  <2> HIDE DEF D
  <2> QED
    BY <2>2
<1>11. cells = [n \in D |-> IF n = 0 THEN <<>> ELSE e(n, cells[n - 1])]
  <2> HIDE DEF D
  <2> QED BY <1>10, Zenon
<1> HIDE DEF cells
<1>12. cells[0] = <<>> /\ \A n \in 1 .. N : cells[n] = e(n, cells[n - 1])
  BY <1>2, <1>11
<1>13. D \subseteq S
  <2>1. 0 \in S
    BY <1>2, <1>6, <1>12
  <2>2. ASSUME NEW n \in 1 .. N, n - 1 \in S PROVE n \in S
    <3>1. n \in D /\ cells[n - 1] \in V
      BY <1>2, <2>2
    <3> QED
      BY <1>3, <1>12, <3>1
  <2> HIDE DEF S
  <2> QED
    BY <1>2, <2>1, <2>2, CountingInduction
<1>14. cells \in [D -> V]
  <2> HIDE DEF D
  <2> QED BY <1>11, <1>13
<1> QED
  BY <1>1, <1>4, <1>12, <1>14 DEF e, V

\* encode_symbols, symbol by symbol.
LEMMA SymbolsEncoded ==
  ASSUME NEW symbols \in Seq(Symbol)
  PROVE  \E f \in [0 .. Len(symbols) -> Seq(Nat)] :
           /\ SymbolFields(symbols) = f[Len(symbols)] /\ f[0] = <<>>
           /\ \A n \in 1 .. Len(symbols) : f[n] = f[n - 1] \o <<symbols[n].address, Len(symbols[n].name)>> \o symbols[n].name
<1>1. PICK N : N = Len(symbols)
  OBVIOUS
<1> DEFINE D == 0 .. N
           V == Seq(Nat)
           e(n, v) == v \o <<symbols[n].address, Len(symbols[n].name)>> \o symbols[n].name
           g == [p \in (1 .. N) \X V |-> e(p[1], p[2])]
           fields == CHOOSE f : f = [n \in D |-> IF n = 0 THEN <<>> ELSE e(n, f[n - 1])]
           S == {n \in D : fields[n] \in V}
<1>2. N \in Nat /\ \A n \in 1 .. N : symbols[n] \in Symbol
  BY <1>1, LenProperties, ElementOfSeq
<1>3. ASSUME NEW n \in 1 .. N, NEW v \in V PROVE e(n, v) \in V
  <2>1. symbols[n].address \in Nat /\ symbols[n].name \in Seq(Nat)
    BY <1>2 DEF Symbol
  <2>2. <<symbols[n].address, Len(symbols[n].name)>> \in Seq(Nat)
    BY <2>1, LenProperties
  <2> QED
    BY <2>1, <2>2, ConcatProperties
<1>4. SymbolFields(symbols) = fields[N]
  BY <1>1, Zenon DEF SymbolFields
<1> HIDE DEF e
<1>5. \A n \in 1 .. N, v \in V : g[<<n, v>>] = e(n, v)
  OBVIOUS
<1>6. <<>> \in V
  BY EmptySeq
<1> HIDE DEF V
<1>7. g \in [(1 .. N) \X V -> V]
  BY <1>3
<1> HIDE DEF g
<1>8. Counting(N, V, <<>>, g)
  BY <1>2, <1>6, <1>7 DEF Counting
<1>9. PICK f \in [D -> V] : \A n \in D : f[n] = IF n = 0 THEN <<>> ELSE g[<<n, f[n - 1]>>]
  <2> HIDE DEF fields
  <2> QED
    BY ONLY <1>8, CountingRecursion
<1>10. f = [n \in D |-> IF n = 0 THEN <<>> ELSE e(n, f[n - 1])]
  <2> HIDE DEF fields
  <2>1. ASSUME NEW n \in D, n # 0 PROVE f[n] = e(n, f[n - 1])
    <3>1. n \in 1 .. N /\ f[n - 1] \in V
      BY <1>2, <2>1
    <3> QED
      BY <1>5, <1>9, <2>1, <3>1
  <2>2. \A n \in D : f[n] = IF n = 0 THEN <<>> ELSE e(n, f[n - 1])
    BY <1>9, <2>1
  <2> HIDE DEF D
  <2> QED
    BY <2>2
<1>11. fields = [n \in D |-> IF n = 0 THEN <<>> ELSE e(n, fields[n - 1])]
  <2> HIDE DEF D
  <2> QED BY <1>10, Zenon
<1> HIDE DEF fields
<1>12. fields[0] = <<>> /\ \A n \in 1 .. N : fields[n] = e(n, fields[n - 1])
  BY <1>2, <1>11
<1>13. D \subseteq S
  <2>1. 0 \in S
    BY <1>2, <1>6, <1>12
  <2>2. ASSUME NEW n \in 1 .. N, n - 1 \in S PROVE n \in S
    <3>1. n \in D /\ fields[n - 1] \in V
      BY <1>2, <2>2
    <3> QED
      BY <1>3, <1>12, <3>1
  <2> HIDE DEF S
  <2> QED
    BY <1>2, <2>1, <2>2, CountingInduction
<1>14. fields \in [D -> V]
  <2> HIDE DEF D
  <2> QED BY <1>11, <1>13
<1> QED
  BY <1>1, <1>4, <1>12, <1>14 DEF e, V

\* build_snapshot_metadata, line by line.
LEMMA LinesJoined ==
  ASSUME NEW lines \in Seq(Seq(Nat))
  PROVE  \E f \in [0 .. Len(lines) -> Seq(Nat)] :
           /\ SourceOf(lines) = f[Len(lines)] /\ f[0] = <<>>
           /\ \A n \in 1 .. Len(lines) : f[n] = f[n - 1] \o (IF n = 1 THEN <<>> ELSE <<Newline>>) \o lines[n]
<1>1. PICK N : N = Len(lines)
  OBVIOUS
<1> DEFINE D == 0 .. N
           V == Seq(Nat)
           e(n, v) == v \o (IF n = 1 THEN <<>> ELSE <<Newline>>) \o lines[n]
           g == [p \in (1 .. N) \X V |-> e(p[1], p[2])]
           text == CHOOSE f : f = [n \in D |-> IF n = 0 THEN <<>> ELSE e(n, f[n - 1])]
           S == {n \in D : text[n] \in V}
<1>2. N \in Nat /\ \A n \in 1 .. N : lines[n] \in Seq(Nat)
  BY <1>1, LenProperties, ElementOfSeq
<1>3. ASSUME NEW n \in 1 .. N, NEW v \in V PROVE e(n, v) \in V
  <2>1. lines[n] \in Seq(Nat) /\ (IF n = 1 THEN <<>> ELSE <<Newline>>) \in Seq(Nat)
    BY <1>2, EmptySeq DEF Newline
  <2> QED
    BY <2>1, ConcatProperties
<1>4. SourceOf(lines) = text[N]
  BY <1>1, Zenon DEF SourceOf
<1> HIDE DEF e
<1>5. \A n \in 1 .. N, v \in V : g[<<n, v>>] = e(n, v)
  OBVIOUS
<1>6. <<>> \in V
  BY EmptySeq
<1> HIDE DEF V
<1>7. g \in [(1 .. N) \X V -> V]
  BY <1>3
<1> HIDE DEF g
<1>8. Counting(N, V, <<>>, g)
  BY <1>2, <1>6, <1>7 DEF Counting
<1>9. PICK f \in [D -> V] : \A n \in D : f[n] = IF n = 0 THEN <<>> ELSE g[<<n, f[n - 1]>>]
  <2> HIDE DEF text
  <2> QED
    BY ONLY <1>8, CountingRecursion
<1>10. f = [n \in D |-> IF n = 0 THEN <<>> ELSE e(n, f[n - 1])]
  <2> HIDE DEF text
  <2>1. ASSUME NEW n \in D, n # 0 PROVE f[n] = e(n, f[n - 1])
    <3>1. n \in 1 .. N /\ f[n - 1] \in V
      BY <1>2, <2>1
    <3> QED
      BY <1>5, <1>9, <2>1, <3>1
  <2>2. \A n \in D : f[n] = IF n = 0 THEN <<>> ELSE e(n, f[n - 1])
    BY <1>9, <2>1
  <2> HIDE DEF D
  <2> QED
    BY <2>2
<1>11. text = [n \in D |-> IF n = 0 THEN <<>> ELSE e(n, text[n - 1])]
  <2> HIDE DEF D
  <2> QED BY <1>10, Zenon
<1> HIDE DEF text
<1>12. text[0] = <<>> /\ \A n \in 1 .. N : text[n] = e(n, text[n - 1])
  BY <1>2, <1>11
<1>13. D \subseteq S
  <2>1. 0 \in S
    BY <1>2, <1>6, <1>12
  <2>2. ASSUME NEW n \in 1 .. N, n - 1 \in S PROVE n \in S
    <3>1. n \in D /\ text[n - 1] \in V
      BY <1>2, <2>2
    <3> QED
      BY <1>3, <1>12, <3>1
  <2> HIDE DEF S
  <2> QED
    BY <1>2, <2>1, <2>2, CountingInduction
<1>14. text \in [D -> V]
  <2> HIDE DEF D
  <2> QED BY <1>11, <1>13
<1> QED
  BY <1>1, <1>4, <1>12, <1>14 DEF e, V

\* The symbols read, within the limit of a name.
SymbolsWithin(limits) == Seq({y \in Symbol : Len(y.name) <= limits.name})
Reading(limits) == [at : Nat \ {0}, symbols : SymbolsWithin(limits)]
LEMMA SymbolReads ==
  ASSUME NEW rest \in Seq(Nat), NEW limits, NEW r \in Reading(limits), SymbolFits(rest, r, limits)
  PROVE  /\ SymbolRead(rest, r) \in Reading(limits)
         /\ Len(SymbolRead(rest, r).symbols) = Len(r.symbols) + 1
<1>1. PICK L : L = Len(rest)
  OBVIOUS
<1>2. PICK at : at = r.at
  OBVIOUS
<1>3. L \in Nat /\ (\A i \in 1 .. L : rest[i] \in Nat) /\ at \in Nat \ {0}
  BY <1>1, <1>2, LenProperties, ElementOfSeq DEF Reading
<1>4. PICK end : end = at + 1 + rest[at + 1]
  OBVIOUS
<1>5. at < L /\ rest[at + 1] <= limits.name /\ end <= L
  BY <1>1, <1>2, <1>4 DEF SymbolFits
<1>6. rest[at + 1] \in Nat /\ rest[at] \in Nat
  BY <1>3, <1>5
<1>7. end \in Nat /\ end + 1 \in Nat \ {0} /\ at + 2 \in Nat \ {0} /\ end - (at + 2) + 1 = rest[at + 1]
      /\ (~(at + 2 <= end) => rest[at + 1] = 0)
  <2>1. PICK length : length = rest[at + 1]
    OBVIOUS
  <2>2. length \in Nat /\ at \in Nat \ {0} /\ end = at + 1 + length
    BY <1>3, <1>4, <1>6, <2>1
  <2>3. end \in Nat /\ end + 1 \in Nat \ {0} /\ at + 2 \in Nat \ {0} /\ end - (at + 2) + 1 = length
        /\ (~(at + 2 <= end) => length = 0)
    BY ONLY <2>2
  <2> QED
    BY <2>1, <2>3
<1>8. PICK name : name = SubSeq(rest, at + 2, end)
  OBVIOUS
<1>9. name \in Seq(Nat) /\ Len(name) = rest[at + 1]
  <2>1. end <= Len(rest)
    BY <1>1, <1>5
  <2>2. /\ SubSeq(rest, at + 2, end) \in Seq(Nat)
        /\ Len(SubSeq(rest, at + 2, end)) = IF at + 2 <= end THEN end - (at + 2) + 1 ELSE 0
    BY ONLY <1>7, <2>1, rest \in Seq(Nat), PartOf
  <2> QED
    BY <1>7, <1>8, <2>2
<1>10. PICK y : y = [address |-> rest[at], name |-> name]
  OBVIOUS
<1>11. y \in {z \in Symbol : Len(z.name) <= limits.name}
  BY <1>5, <1>6, <1>9, <1>10 DEF Symbol
<1>12. r.symbols \in SymbolsWithin(limits)
  BY DEF Reading
<1>13. Append(r.symbols, y) \in SymbolsWithin(limits) /\ Len(Append(r.symbols, y)) = Len(r.symbols) + 1
  BY <1>11, <1>12, AppendProperties DEF SymbolsWithin
<1>14. SymbolRead(rest, r) = [at |-> end + 1, symbols |-> Append(r.symbols, y)]
  BY <1>2, <1>4, <1>8, <1>10, Zenon DEF SymbolRead
<1> QED
  BY <1>7, <1>13, <1>14 DEF Reading

\* The loop over the symbols.
LEMMA SymbolsReads ==
  ASSUME NEW rest \in Seq(Nat), NEW count \in Nat, NEW limits
  PROVE  \E f \in [0 .. count -> SUBSET Reading(limits)] :
           /\ SymbolsDecode(rest, count, limits) = {r.symbols : r \in {q \in f[count] : q.at = Len(rest) + 1}}
           /\ f[0] = {[at |-> 1, symbols |-> <<>>]}
           /\ \A n \in 1 .. count :
                f[n] = {SymbolRead(rest, r) : r \in {q \in f[n - 1] : SymbolFits(rest, q, limits)}}
<1> DEFINE D == 0 .. count
           V == SUBSET Reading(limits)
           start == {[at |-> 1, symbols |-> <<>>]}
           e(v) == {SymbolRead(rest, r) : r \in {q \in v : SymbolFits(rest, q, limits)}}
           g == [p \in (1 .. count) \X V |-> e(p[2])]
           read == CHOOSE f : f = [n \in D |-> IF n = 0 THEN start ELSE e(f[n - 1])]
           S == {n \in D : read[n] \in V}
<1>1. ASSUME NEW v \in V PROVE e(v) \in V
  BY SymbolReads
<1>2. SymbolsDecode(rest, count, limits) = {r.symbols : r \in {q \in read[count] : q.at = Len(rest) + 1}}
  BY Zenon DEF SymbolsDecode
<1>3. start \in V
  <2>1. <<>> \in SymbolsWithin(limits)
    BY EmptySeq DEF SymbolsWithin
  <2>2. [at |-> 1, symbols |-> <<>>] \in Reading(limits)
    BY <2>1 DEF Reading
  <2> QED
    BY <2>2
<1> HIDE DEF e, V, start
<1>4. g \in [(1 .. count) \X V -> V] /\ \A n \in 1 .. count, v \in V : g[<<n, v>>] = e(v)
  BY <1>1
<1> HIDE DEF g
<1>5. Counting(count, V, start, g)
  BY <1>3, <1>4 DEF Counting
<1>6. PICK f \in [D -> V] : \A n \in D : f[n] = IF n = 0 THEN start ELSE g[<<n, f[n - 1]>>]
  <2> HIDE DEF read
  <2> QED
    BY ONLY <1>5, CountingRecursion, SMTT(90)
<1>7. f = [n \in D |-> IF n = 0 THEN start ELSE e(f[n - 1])]
  <2> HIDE DEF read
  <2>1. ASSUME NEW n \in D, n # 0 PROVE f[n] = e(f[n - 1])
    <3>1. n \in 1 .. count /\ f[n - 1] \in V
      BY <2>1
    <3> QED
      BY <1>4, <1>6, <2>1, <3>1
  <2>2. \A n \in D : f[n] = IF n = 0 THEN start ELSE e(f[n - 1])
    BY <1>6, <2>1
  <2> HIDE DEF D
  <2> QED
    BY <2>2
<1>8. read = [n \in D |-> IF n = 0 THEN start ELSE e(read[n - 1])]
  <2> HIDE DEF D
  <2> QED BY <1>7, Zenon
<1> HIDE DEF read
<1>9. read[0] = start /\ \A n \in 1 .. count : read[n] = e(read[n - 1])
  BY <1>8
<1>10. D \subseteq S
  <2>1. 0 \in S
    BY <1>3, <1>9
  <2>2. ASSUME NEW n \in 1 .. count, n - 1 \in S PROVE n \in S
    <3>1. n \in D /\ read[n - 1] \in V
      BY <2>2
    <3> QED
      BY <1>1, <1>9, <3>1
  <2> HIDE DEF S
  <2> QED
    BY <2>1, <2>2, CountingInduction
<1>11. read \in [D -> V]
  <2> HIDE DEF D
  <2> QED BY <1>8, <1>10
<1> QED
  BY <1>2, <1>9, <1>11, Zenon DEF e, V, start

\* As many symbols as were to be read, with no name beyond the limit.
LEMMA SymbolsDecoded ==
  ASSUME NEW rest \in Seq(Nat), NEW count \in Nat, NEW limits,
         NEW symbols \in SymbolsDecode(rest, count, limits)
  PROVE  symbols \in SymbolsWithin(limits) /\ Len(symbols) = count
<1>1. PICK f \in [0 .. count -> SUBSET Reading(limits)] :
        /\ SymbolsDecode(rest, count, limits) = {r.symbols : r \in {q \in f[count] : q.at = Len(rest) + 1}}
        /\ f[0] = {[at |-> 1, symbols |-> <<>>]}
        /\ \A n \in 1 .. count :
             f[n] = {SymbolRead(rest, r) : r \in {q \in f[n - 1] : SymbolFits(rest, q, limits)}}
  BY SymbolsReads, SMTT(30)
<1> DEFINE S == {n \in 0 .. count : \A r \in f[n] : Len(r.symbols) = n}
<1>2. 0 \in S
  BY <1>1, EmptySeq
<1>3. ASSUME NEW n \in 1 .. count, n - 1 \in S PROVE n \in S
  <2>1. n \in 0 .. count /\ n - 1 \in 0 .. count /\ n - 1 + 1 = n /\ f[n - 1] \subseteq Reading(limits)
    BY <1>1
  <2>2. ASSUME NEW r \in f[n] PROVE Len(r.symbols) = n
    <3>1. PICK q \in f[n - 1] : r = SymbolRead(rest, q) /\ SymbolFits(rest, q, limits)
      BY <1>1
    <3>2. Len(r.symbols) = Len(q.symbols) + 1
      BY <2>1, <3>1, SymbolReads
    <3> QED
      BY <1>3, <2>1, <3>1, <3>2
  <2> QED
    BY <2>1, <2>2
<1>4. count \in S
  <2>1. 0 .. count \subseteq S
    <3> HIDE DEF S
    <3> QED
      BY <1>2, <1>3, CountingInduction
  <2> HIDE DEF S
  <2> QED
    BY <2>1
<1>5. PICK r \in f[count] : symbols = r.symbols
  BY <1>1
<1>6. r \in Reading(limits)
  BY <1>5
<1> QED
  BY <1>4, <1>5, <1>6 DEF Reading

LEMMA SymbolsTyped ==
  ASSUME NEW limits, NEW symbols \in SymbolsWithin(limits)
  PROVE  /\ symbols \in Seq(Symbol)
         /\ \A i \in DOMAIN symbols : Len(symbols[i].name) <= limits.name
<1> DEFINE T == {y \in Symbol : Len(y.name) <= limits.name}
<1>1. symbols \in Seq(T) /\ T \subseteq Symbol
  BY DEF SymbolsWithin
<1>2. symbols \in Seq(Symbol)
  <2> HIDE DEF T
  <2> QED
    BY <1>1, SeqMonotonic
<1>3. \A i \in DOMAIN symbols : symbols[i] \in T
  <2> HIDE DEF T
  <2> QED
    BY <1>1, ElementOfSeq, LenProperties
<1> QED
  BY <1>2, <1>3

\* The text of a slot as lines: each from a cell to the next newline.
Cut(source, at, end) ==
  /\ end \in at .. Len(source) /\ source[end] = Newline
  /\ \A i \in at .. end - 1 : source[i] # Newline
LEMMA LinesSplit ==
  ASSUME NEW source \in Seq(Nat)
  PROVE  \E f \in [1 .. Len(source) + 1 -> Seq(Seq(Nat))] :
           /\ LinesOf(source) = f[1]
           /\ \A at \in 1 .. Len(source) + 1 :
                /\ (\A i \in at .. Len(source) : source[i] # Newline) => f[at] = <<From(source, at - 1)>>
                /\ \A end : Cut(source, at, end) => f[at] = <<SubSeq(source, at, end - 1)>> \o f[end + 1]
<1>1. PICK L : L = Len(source)
  OBVIOUS
<1> DEFINE D == 1 .. L + 1
           V == Seq(Seq(Nat))
           newlines(at) == Newlines(source, at)
           first(at) == LineEnd(source, at)
           last(at) == <<From(source, at - 1)>>
           e(at, v) == <<SubSeq(source, at, first(at) - 1)>> \o v
           next == [at \in 1 .. L |-> IF newlines(at) = {} THEN L + 1 ELSE first(at) + 1]
           g == [p \in (1 .. L) \X V |-> IF newlines(p[1]) = {} THEN last(p[1]) ELSE e(p[1], p[2])]
           lines == CHOOSE f :
             f = [at \in D |-> IF newlines(at) = {} THEN last(at) ELSE e(at, f[first(at) + 1])]
           S == {at \in D : lines[at] \in V}
<1>2. L \in Nat /\ (\A at \in 1 .. L : source[at] \in Nat)
  BY <1>1, LenProperties, ElementOfSeq
<1>3. LinesOf(source) = lines[1]
  BY <1>1, Zenon DEF LinesOf
<1>4. ASSUME NEW at \in D, newlines(at) # {}
      PROVE  at \in 1 .. L /\ Cut(source, at, first(at)) /\ first(at) + 1 \in D /\ first(at) + 1 > at
             /\ \A end : Cut(source, at, end) => end = first(at)
  <2> DEFINE N == newlines(at)
  <2>0. N = {i \in at .. L : source[i] = Newline}
    BY <1>1 DEF Newlines
  <2>1. N \subseteq Nat
    BY <1>2, <2>0
  <2> HIDE DEF N
  <2>2. \E i \in N : \A k \in N : i <= k
    <3>1. N # {}
      BY <1>4 DEF N
    <3> QED BY <2>1, <3>1, Least
  <2>3. first(at) = CHOOSE i \in N : \A k \in N : i <= k
    BY DEF LineEnd, N
  <2>9. first(at) \in N /\ \A k \in N : first(at) <= k
    BY <2>2, <2>3
  <2> HIDE DEF first
  <2>4. first(at) \in at .. L /\ source[first(at)] = Newline
    BY <2>0, <2>9
  <2>5. at \in 1 .. L /\ first(at) + 1 \in D /\ first(at) + 1 > at
    BY <1>2, <2>4
  <2>6. \A i \in at .. first(at) - 1 : source[i] # Newline
    <3>1. ASSUME NEW i \in at .. first(at) - 1, source[i] = Newline PROVE FALSE
      <4>1. i \in N /\ i < first(at)
        BY <1>2, <2>0, <2>4, <3>1
      <4> QED
        BY <2>9, <2>4, <4>1
    <3> QED
      BY <3>1
  <2>7. Cut(source, at, first(at))
    BY <1>1, <2>4, <2>6 DEF Cut
  <2>8. ASSUME NEW end, Cut(source, at, end) PROVE end = first(at)
    <3>1. end \in at .. L /\ source[end] = Newline /\ \A i \in at .. end - 1 : source[i] # Newline
      BY <1>1, <2>8 DEF Cut
    <3>2. end \in N
      BY <2>0, <3>1
    <3>3. first(at) <= end
      BY <2>9, <3>2
    <3>4. ~(first(at) < end)
      BY <1>2, <2>4, <3>1
    <3> QED
      BY <2>4, <3>1, <3>3, <3>4
  <2> QED
    BY <2>5, <2>7, <2>8
<1>5. \A at \in D : last(at) \in V
  <2> TAKE at \in D
  <2>1. at - 1 \in Nat
    BY <1>2
  <2>2. From(source, at - 1) \in Seq(Nat)
    BY <2>1, FromOf
  <2> QED
    BY <2>2
<1>6. ASSUME NEW at \in D, newlines(at) # {}, NEW v \in V PROVE e(at, v) \in V
  <2> HIDE DEF newlines, first
  <2>1. first(at) \in at .. L /\ at \in 1 .. L
    BY <1>1, <1>4, <1>6 DEF Cut
  <2>2. at \in Nat \ {0} /\ first(at) - 1 \in Nat /\ first(at) - 1 <= Len(source)
    BY <1>1, <1>2, <2>1
  <2>3. SubSeq(source, at, first(at) - 1) \in Seq(Nat)
    BY ONLY <2>2, source \in Seq(Nat), PartOf
  <2>4. <<SubSeq(source, at, first(at) - 1)>> \in V
    BY <2>3
  <2> QED
    BY <2>4, ConcatProperties
<1>7. \A at \in D : newlines(at) # {} => at \in 1 .. L /\ first(at) + 1 \in D /\ first(at) + 1 > at
  BY <1>4
<1>8. \A at \in D : (newlines(at) = {}) <=> \A i \in at .. L : source[i] # Newline
  BY <1>1 DEF Newlines
<1>9. 1 .. L \subseteq D /\ L + 1 \in D /\ newlines(L + 1) = {}
  BY <1>1, <1>2 DEF Newlines
<1> HIDE DEF newlines, first, last, e
<1>10. next \in [1 .. L -> D] /\ \A at \in 1 .. L : next[at] > at
  BY <1>2, <1>7, <1>9
<1>11. \A at \in 1 .. L : newlines(at) # {} => next[at] = first(at) + 1
  OBVIOUS
<1>12. \A at \in 1 .. L, v \in V : g[<<at, v>>] = IF newlines(at) = {} THEN last(at) ELSE e(at, v)
  OBVIOUS
<1> HIDE DEF V
<1>13. g \in [(1 .. L) \X V -> V]
  BY <1>5, <1>6, <1>9
<1>14. last(L + 1) \in V
  BY <1>5, <1>9
<1> HIDE DEF g, next
<1>15. Backward(L, V, last(L + 1), next, g)
  BY <1>2, <1>10, <1>13, <1>14 DEF Backward
<1>16. PICK f \in [D -> V] : f[L + 1] = last(L + 1) /\ \A at \in 1 .. L : f[at] = g[<<at, f[next[at]]>>]
  <2> HIDE DEF lines
  <2> QED
    BY ONLY <1>15, BackwardRecursion
<1>17. f = [at \in D |-> IF newlines(at) = {} THEN last(at) ELSE e(at, f[first(at) + 1])]
  <2> HIDE DEF lines
  <2>1. ASSUME NEW at \in D
        PROVE  f[at] = IF newlines(at) = {} THEN last(at) ELSE e(at, f[first(at) + 1])
    <3>1. CASE at = L + 1
      BY <1>9, <1>16, <3>1
    <3>2. CASE at # L + 1
      <4>1. at \in 1 .. L
        BY <1>2, <3>2
      <4>2. next[at] \in D
        BY <1>10, <4>1
      <4>3. f[at] = g[<<at, f[next[at]]>>] /\ f[next[at]] \in V
        BY <1>16, <4>1, <4>2
      <4> QED
        BY <1>11, <1>12, <4>1, <4>3
    <3> QED
      BY <3>1, <3>2
  <2> HIDE DEF D
  <2> QED
    BY <2>1
<1>18. lines = [at \in D |-> IF newlines(at) = {} THEN last(at) ELSE e(at, lines[first(at) + 1])]
  <2> HIDE DEF D
  <2> QED BY <1>17, Zenon
<1> HIDE DEF lines
<1>19. \A at \in D : lines[at] = IF newlines(at) = {} THEN last(at) ELSE e(at, lines[first(at) + 1])
  <2> HIDE DEF D
  <2> QED BY <1>18, Zenon
<1>20. D \subseteq S
  <2>1. L + 1 \in S
    BY <1>9, <1>14, <1>19
  <2>2. ASSUME NEW at \in 1 .. L, next[at] \in S PROVE at \in S
    <3>1. CASE newlines(at) = {}
      BY <1>5, <1>9, <1>19, <3>1
    <3>2. CASE newlines(at) # {}
      <4>1. lines[first(at) + 1] \in V
        BY <1>11, <2>2, <3>2
      <4> QED
        BY <1>6, <1>9, <1>19, <3>2, <4>1
    <3> QED
      BY <3>1, <3>2
  <2> HIDE DEF S
  <2> QED
    BY <1>2, <1>10, <2>1, <2>2, BackwardInduction
<1>21. lines \in [D -> V]
  <2> HIDE DEF D
  <2> QED BY <1>18, <1>20
<1>22. ASSUME NEW at \in D, \A i \in at .. L : source[i] # Newline
       PROVE  lines[at] = <<From(source, at - 1)>>
  BY <1>8, <1>19, <1>22 DEF last
<1>23. ASSUME NEW at \in D, NEW end, Cut(source, at, end)
       PROVE  lines[at] = <<SubSeq(source, at, end - 1)>> \o lines[end + 1]
  <2>1. newlines(at) # {}
    BY <1>1, <1>8, <1>23 DEF Cut
  <2>2. end = first(at)
    BY <1>4, <1>23, <2>1
  <2> QED
    BY <1>19, <2>1, <2>2 DEF e
<1> QED
  BY <1>1, <1>3, <1>21, <1>22, <1>23 DEF V

-----------------------------------------------------------------------------
(* The encoders and decoders give what they say.                           *)

LEMMA Types ==
  ASSUME NEW s \in Seq(Nat)
  PROVE  /\ RleEncode(s) \in Seq(Nat)
         /\ \A length : RleDecode(s, length) \subseteq {c \in Seq(Nat) : Len(c) = length}
         /\ LinesOf(s) \in Seq(Seq(Nat)) /\ LinesDecode(s) \subseteq Seq(Seq(Nat))
<1>1. PICK L : L = Len(s)
  OBVIOUS
<1>2. L \in Nat /\ 1 \in 1 .. L + 1 /\ L \div 2 \in 0 .. (L \div 2)
  BY <1>1, LenProperties
<1>3. RleEncode(s) \in Seq(Nat)
  BY <1>1, <1>2, RunsEncoded, ZenonT(60)
<1>4. Unpacked(s) \in Seq(Nat)
  BY <1>1, <1>2, RunsUnpacked, ZenonT(60)
<1>5. LinesOf(s) \in Seq(Seq(Nat))
  <2>1. \E f \in [1 .. Len(s) + 1 -> Seq(Seq(Nat))] : LinesOf(s) = f[1]
    BY LinesSplit
  <2> QED
    BY <1>1, <1>2, <2>1
<1>6. LinesDecode(s) \subseteq Seq(Seq(Nat))
  BY <1>5, EmptySeq DEF LinesDecode
<1> QED
  BY <1>3, <1>4, <1>5, <1>6 DEF RleDecode

LEMMA TextType ==
  /\ \A lines \in Seq(Seq(Nat)) : SourceOf(lines) \in Seq(Nat)
  /\ \A symbols \in Seq(Symbol) : SymbolFields(symbols) \in Seq(Nat)
<1>1. ASSUME NEW lines \in Seq(Seq(Nat)) PROVE SourceOf(lines) \in Seq(Nat)
  <2>1. Len(lines) \in 0 .. Len(lines)
    BY LenProperties
  <2> QED
    BY <2>1, LinesJoined, ZenonT(60)
<1>2. ASSUME NEW symbols \in Seq(Symbol) PROVE SymbolFields(symbols) \in Seq(Nat)
  <2>1. Len(symbols) \in 0 .. Len(symbols)
    BY LenProperties
  <2> QED
    <3>1. PICK f \in [0 .. Len(symbols) -> Seq(Nat)] : SymbolFields(symbols) = f[Len(symbols)]
      BY ONLY <1>2, SymbolsEncoded
    <3> QED
      BY ONLY <2>1, <3>1
<1> QED
  BY <1>1, <1>2

\* RVSNAP01.
LEMMA ImageDecodeType == ASSUME NEW read \in Seq(Nat) PROVE ImageDecode(read) \subseteq Image
<1> SUFFICES ASSUME NEW image \in ImageDecode(read) PROVE image \in Image
  OBVIOUS
<1>1. PICK L : L = Len(read)
  OBVIOUS
<1>2. ~(L < HeaderLen \/ read[1] # Magic \/ read[2] # HeaderLen)
  BY <1>1 DEF ImageDecode
<1>3. L \in Nat /\ L >= 7 /\ \A i \in 1 .. L : read[i] \in Nat
  BY <1>1, <1>2, LenProperties, ElementOfSeq DEF HeaderLen
<1>4. PICK w, d : w = read[3] /\ d = read[4] /\ w \in Nat /\ d \in Nat
  BY <1>3
<1> DEFINE end == HeaderLen + w
           img == [workspace |-> SubSeq(read, HeaderLen + 1, end),
                   data |-> From(read, end), lines |-> read[5]]
<1>5. image = img /\ L = end + d
  BY <1>1, <1>2, <1>4 DEF ImageDecode
<1>6. end \in Nat /\ end <= Len(read) /\ HeaderLen + 1 \in Nat \ {0} /\ read[5] \in Nat
  <2>1. end \in Nat /\ HeaderLen + 1 \in Nat \ {0}
    BY <1>4 DEF HeaderLen
  <2>2. read[5] \in Nat
    BY <1>3
  <2> HIDE DEF end
  <2>3. end <= L
    BY ONLY <1>3, <1>4, <1>5, <2>1
  <2> QED
    BY <1>1, <2>1, <2>2, <2>3
<1> HIDE DEF end
<1>7. SubSeq(read, HeaderLen + 1, end) \in Seq(Nat)
  BY ONLY <1>6, read \in Seq(Nat), PartOf
<1>8. From(read, end) \in Seq(Nat)
  BY <1>6, FromOf
<1> QED
  BY <1>5, <1>6, <1>7, <1>8 DEF Image

LEMMA ImageEncodeType == ASSUME NEW image \in Image PROVE ImageEncode(image) \subseteq Seq(Nat)
<1>1. image.workspace \in Seq(Nat) /\ image.data \in Seq(Nat) /\ image.lines \in Nat
  BY DEF Image
<1>2. /\ Len(image.workspace) \in Nat /\ Len(image.data) \in Nat
      /\ Checksum(image.workspace) \in Nat /\ Checksum(image.data) \in Nat
      /\ Magic \in Nat /\ HeaderLen \in Nat
  BY <1>1, LenProperties, ChecksumType DEF Magic, HeaderLen
<1>3. <<Magic, HeaderLen, Len(image.workspace), Len(image.data), image.lines,
        Checksum(image.workspace), Checksum(image.data)>> \in Seq(Nat)
  BY <1>1, <1>2
<1>4. <<Magic, HeaderLen, Len(image.workspace), Len(image.data), image.lines,
        Checksum(image.workspace), Checksum(image.data)>> \o image.workspace \o image.data \in Seq(Nat)
  BY <1>1, <1>3, ConcatProperties
<1> QED
  BY <1>4 DEF ImageEncode

\* RVMETA01: what a decoder accepts is within its limits.
Limits == [source : Nat, symbols : Nat, name : Nat]
Within(m, limits) ==
  /\ Len(m.source) <= limits.source /\ Len(m.symbols) <= limits.symbols
  /\ \A i \in DOMAIN m.symbols : Len(m.symbols[i].name) <= limits.name
LEMMA MetadataDecodeType ==
  ASSUME NEW read \in Seq(Nat), NEW limits \in Limits, NEW m \in MetadataDecode(read, limits)
  PROVE  m \in Metadata /\ Within(m, limits)
<1>1. PICK L : L = Len(read)
  OBVIOUS
<1> DEFINE fixed == 2 + ContextLen + 2
<1>2. ~(L < fixed \/ read[1] # MetadataMagic \/ read[2] # Version)
  BY <1>1 DEF MetadataDecode
<1>3. fixed = 6 /\ L \in Nat /\ L >= 6 /\ \A i \in 1 .. L : read[i] \in Nat
  BY <1>1, <1>2, LenProperties, ElementOfSeq DEF ContextLen
<1>4. PICK length, count : length = read[fixed - 1] /\ count = read[fixed]
                           /\ length \in Nat /\ count \in Nat
  BY <1>3
<1>5. limits.source \in Nat /\ limits.symbols \in Nat /\ limits.name \in Nat
  BY DEF Limits
<1>6. /\ ~(length > limits.source \/ count > limits.symbols \/ L < fixed + length)
      /\ \E symbols \in SymbolsDecode(From(read, fixed + length), count, limits) :
           m = [context |-> SubSeq(read, 3, 2 + ContextLen),
                source |-> SubSeq(read, fixed + 1, fixed + length), symbols |-> symbols]
  BY <1>1, <1>2, <1>4 DEF MetadataDecode
<1>7. length <= limits.source /\ count <= limits.symbols /\ fixed + length <= L
  <2>1. PICK a, b : a = limits.source /\ b = limits.symbols
    OBVIOUS
  <2>2. ~(length > a \/ count > b \/ L < fixed + length) /\ a \in Nat /\ b \in Nat
    BY <1>5, <1>6, <2>1
  <2> HIDE DEF fixed
  <2>3. length <= a /\ count <= b /\ fixed + length <= L
    BY ONLY <1>3, <1>4, <2>2, SMTT(90)
  <2> QED
    BY <2>1, <2>3
<1>8. PICK symbols \in SymbolsDecode(From(read, fixed + length), count, limits) :
        m = [context |-> SubSeq(read, 3, 2 + ContextLen),
             source |-> SubSeq(read, fixed + 1, fixed + length), symbols |-> symbols]
  BY <1>6
<1> HIDE DEF fixed
<1>9. PICK end : end = fixed + length
  OBVIOUS
<1>10. end \in Nat /\ fixed + 1 \in Nat \ {0} /\ 6 <= Len(read) /\ end <= Len(read)
      /\ end - (fixed + 1) + 1 = length /\ (~(fixed + 1 <= end) => length = 0)
  <2>1. end \in Nat /\ fixed + 1 \in Nat \ {0} /\ 6 <= L /\ end <= L
        /\ end - (fixed + 1) + 1 = length /\ (~(fixed + 1 <= end) => length = 0)
    BY ONLY <1>3, <1>4, <1>7, <1>9, SMTT(90)
  <2> QED
    BY <1>1, <2>1
<1>11. From(read, end) \in Seq(Nat)
  BY <1>10, <1>9, FromOf
<1>12. symbols \in SymbolsWithin(limits) /\ Len(symbols) = count
  BY <1>4, <1>8, <1>9, <1>11, SymbolsDecoded
<1>13. SubSeq(read, fixed + 1, end) \in Seq(Nat) /\ Len(SubSeq(read, fixed + 1, end)) = length
  <2>1. /\ SubSeq(read, fixed + 1, end) \in Seq(Nat)
        /\ Len(SubSeq(read, fixed + 1, end)) = IF fixed + 1 <= end THEN end - (fixed + 1) + 1 ELSE 0
    BY ONLY <1>10, read \in Seq(Nat), PartOf
  <2>2. PICK N : N = Len(SubSeq(read, fixed + 1, end))
    OBVIOUS
  <2>3. N = IF fixed + 1 <= end THEN end - (fixed + 1) + 1 ELSE 0
    BY <2>1, <2>2
  <2>4. N = length
    BY ONLY <1>10, <2>3
  <2> QED
    BY <2>1, <2>2, <2>4
<1>14. SubSeq(read, 3, 2 + ContextLen) \in [1 .. ContextLen -> Nat]
  <2>1. 2 + ContextLen = 4 /\ ContextLen = 2 /\ 4 <= Len(read) /\ 3 \in Nat \ {0} /\ 4 \in Nat
    BY <1>10, LenProperties DEF ContextLen
  <2>2. SubSeq(read, 3, 4) \in Seq(Nat) /\ Len(SubSeq(read, 3, 4)) = 2
    <3>1. /\ SubSeq(read, 3, 4) \in Seq(Nat)
          /\ Len(SubSeq(read, 3, 4)) = IF 3 <= 4 THEN 4 - 3 + 1 ELSE 0
      BY ONLY <2>1, read \in Seq(Nat), PartOf
    <3> QED
      BY <3>1
  <2> QED
    BY <2>1, <2>2, LenProperties
<1>15. m \in Metadata
  BY <1>8, <1>9, <1>12, <1>13, <1>14, SymbolsTyped DEF Metadata
<1>16. m.source = SubSeq(read, fixed + 1, end) /\ m.symbols = symbols
  BY <1>8, <1>9
<1> QED
  BY <1>7, <1>12, <1>13, <1>15, <1>16, SymbolsTyped DEF Within

LEMMA MetadataFieldsType ==
  ASSUME NEW m \in Metadata PROVE MetadataFields(m) \in Seq(Nat)
<1>1. m.context \in [1 .. ContextLen -> Nat] /\ m.source \in Seq(Nat) /\ m.symbols \in Seq(Symbol)
  BY DEF Metadata
<1>2. m.context \in Seq(Nat)
  <2>1. ContextLen \in Nat
    BY DEF ContextLen
  <2> QED
    BY <1>1, <2>1, IsASeq
<1>3. SymbolFields(m.symbols) \in Seq(Nat)
  BY <1>1, TextType
<1>4. <<MetadataMagic, Version>> \in Seq(Nat)
  BY DEF MetadataMagic, Version
<1>5. <<Len(m.source), Len(m.symbols)>> \in Seq(Nat)
  BY <1>1, LenProperties
<1> QED
  BY <1>1, <1>2, <1>3, <1>4, <1>5, ConcatProperties DEF MetadataFields

LEMMA MetadataEncodeType ==
  ASSUME NEW m \in Metadata
  PROVE  /\ MetadataEncode(m) \subseteq Seq(Nat)
         /\ Within(m, HostLimits) => MetadataEncode(m) # {}
  BY MetadataFieldsType DEF MetadataEncode, Within

\* RVPROJ01: a project that is decoded can be sent to the guest.
LEMMA ProjectTypes ==
  /\ \A p \in Project : ProjectEncode(p) \subseteq Seq(Nat)
  /\ \A read \in Seq(Nat) : \A p \in ProjectDecode(read) : p \in Project /\ MetadataEncode(p.metadata) # {}
<1>1. ASSUME NEW p \in Project, NEW bytes \in ProjectEncode(p) PROVE bytes \in Seq(Nat)
  <2>1. p.image \in Image /\ p.metadata \in Metadata
    BY DEF Project
  <2>2. PICK image \in ImageEncode(p.image), metadata \in MetadataEncode(p.metadata) :
          bytes = <<ProjectMagic, Version, Len(image), Len(metadata)>> \o image \o metadata
    BY <1>1 DEF ProjectEncode
  <2>3. image \in Seq(Nat) /\ metadata \in Seq(Nat)
    BY <2>1, <2>2, ImageEncodeType, MetadataEncodeType
  <2>4. <<ProjectMagic, Version, Len(image), Len(metadata)>> \in Seq(Nat)
    BY <2>3, LenProperties DEF ProjectMagic, Version
  <2> QED
    BY <2>2, <2>3, <2>4, ConcatProperties
<1>2. ASSUME NEW read \in Seq(Nat), NEW p \in ProjectDecode(read)
      PROVE  p \in Project /\ MetadataEncode(p.metadata) # {}
  <2>1. PICK L : L = Len(read)
    OBVIOUS
  <2>2. /\ ~(L < ProjectHeaderLen \/ L # ProjectHeaderLen + read[3] + read[4])
    BY <1>2, <2>1 DEF ProjectDecode
  <2>3. L \in Nat /\ L >= 4 /\ \A i \in 1 .. L : read[i] \in Nat
    BY <2>1, <2>2, LenProperties, ElementOfSeq DEF ProjectHeaderLen
  <2>4. PICK a, b : a = read[3] /\ b = read[4] /\ a \in Nat /\ b \in Nat
    BY <2>3
  <2>5. PICK end : end = ProjectHeaderLen + a
    OBVIOUS
  <2>6. end \in Nat /\ end <= Len(read) /\ ProjectHeaderLen + 1 \in Nat \ {0}
    BY <2>1, <2>2, <2>4, <2>5, SMTT(90) DEF ProjectHeaderLen
  <2>7. \E image \in ImageDecode(SubSeq(read, ProjectHeaderLen + 1, end)) :
          \E metadata \in MetadataDecode(From(read, end), HostLimits) :
            p = [image |-> image, metadata |-> metadata]
    BY <1>2, <2>4, <2>5, Zenon DEF ProjectDecode
  <2>8. SubSeq(read, ProjectHeaderLen + 1, end) \in Seq(Nat)
    BY ONLY <2>6, read \in Seq(Nat), PartOf
  <2>9. From(read, end) \in Seq(Nat)
    BY <2>6, FromOf
  <2>10. HostLimits \in Limits
    BY FormatAssumption DEF Limits
  <2>11. PICK image \in Image, metadata \in Metadata :
           p = [image |-> image, metadata |-> metadata] /\ Within(metadata, HostLimits)
    BY <2>7, <2>8, <2>9, <2>10, ImageDecodeType, MetadataDecodeType
  <2> QED
    BY <2>11, MetadataEncodeType DEF Project
<1> QED
  BY <1>1, <1>2

\* The guest's half.
LEMMA GuestMetadataType ==
  ASSUME NEW s \in Slot PROVE GuestMetadata(s) \subseteq Seq(Nat)
<1> DEFINE m == [context |-> s.context, source |-> SourceOf(s.source), symbols |-> s.symbols]
<1>1. m \in Metadata
  BY TextType DEF Slot, Metadata
<1>2. MetadataFields(m) \in Seq(Nat)
  BY <1>1, MetadataFieldsType
<1> QED
  BY <1>2 DEF GuestMetadata

LEMMA GuestDecodeType ==
  ASSUME NEW read \in Seq(Nat)
  PROVE  GuestDecode(read) \subseteq
           [context : [1 .. ContextLen -> Nat], source : Seq(Seq(Nat)), symbols : Seq(Symbol)]
<1>1. GuestLimits \in Limits
  BY FormatAssumption DEF Limits
<1>2. ASSUME NEW m \in MetadataDecode(read, GuestLimits)
      PROVE  m \in Metadata /\ LinesDecode(m.source) \subseteq Seq(Seq(Nat))
  <2>1. m \in Metadata
    BY <1>1, MetadataDecodeType
  <2> QED
    BY <2>1, Types DEF Metadata
<1> QED
  BY <1>2 DEF GuestDecode, Metadata

-----------------------------------------------------------------------------
(* Round trips: what one side writes the other reads back.                 *)

LEMMA FunctionIsSeq ==
  ASSUME NEW S, NEW n \in Nat, NEW f \in [1 .. n -> S]
  PROVE  f \in Seq(S) /\ Len(f) = n /\ DOMAIN f = 1 .. n
<1>1. f \in Seq(S)
  OBVIOUS
<1>2. DOMAIN f = 1 .. Len(f) /\ DOMAIN f = 1 .. n /\ Len(f) \in Nat
  BY <1>1, LenProperties
<1> QED
  BY <1>1, <1>2

LEMMA Grouping ==
  ASSUME NEW s \in Seq(Nat), NEW t \in Seq(Nat), NEW u \in Seq(Nat)
  PROVE  (s \o t) \o u = s \o (t \o u)
BY ConcatAssociative, SMTT(90)

LEMMA ConcatAt ==
  ASSUME NEW S, NEW s \in Seq(S), NEW t \in Seq(S), NEW i \in 1 .. Len(t)
  PROVE  (s \o t)[Len(s) + i] = t[i]
<1>1. PICK K : K = Len(s)
  OBVIOUS
<1>2. PICK L : L = Len(t)
  OBVIOUS
<1>3. K \in Nat /\ L \in Nat /\ i \in 1 .. L
  BY <1>1, <1>2, LenProperties
<1>4. K + i \in 1 .. K + L /\ ~(K + i <= K) /\ K + i - K = i
  BY <1>3
<1> QED
  BY <1>1, <1>2, <1>4, ConcatProperties

\* A part of two sequences that lies in the second, and the one that is the first.
LEMMA ConcatParts ==
  ASSUME NEW S, NEW s \in Seq(S), NEW t \in Seq(S), NEW a \in Nat, NEW b \in Nat, b <= Len(t)
  PROVE  SubSeq(s \o t, Len(s) + a + 1, Len(s) + b) = SubSeq(t, a + 1, b)
<1>1. PICK K : K = Len(s)
  OBVIOUS
<1>2. PICK L : L = Len(t)
  OBVIOUS
<1>3. PICK u : u = s \o t
  OBVIOUS
<1>4. K \in Nat /\ L \in Nat /\ b <= L
  BY <1>1, <1>2, LenProperties
<1>5. u \in Seq(S) /\ Len(u) = K + L /\ (\A i \in 1 .. K : u[i] = s[i])
      /\ \A i \in 1 .. L : u[K + i] = t[i]
  <2>1. \A i \in 1 .. K : i \in 1 .. K + L /\ i <= K
    BY <1>4
  <2> QED
    BY <1>1, <1>2, <1>3, <2>1, ConcatProperties, ConcatAt
<1>6. K + a + 1 \in Nat \ {0} /\ K + b \in Nat /\ K + b <= Len(u) /\ K + b <= K + L
  BY <1>4, <1>5
<1>7. a + 1 \in Nat \ {0} /\ b <= Len(t)
  OBVIOUS
<1>8. PICK v : v = SubSeq(u, K + a + 1, K + b)
  OBVIOUS
<1>9. PICK w : w = SubSeq(t, a + 1, b)
  OBVIOUS
<1>10. v \in Seq(S) /\ (Len(v) = IF a < b THEN b - a ELSE 0) /\ \A i \in 1 .. b - a : v[i] = t[a + i]
  <2>1. PICK A : A = K + a + 1
    OBVIOUS
  <2>2. PICK B : B = K + b
    OBVIOUS
  <2>3. u \in Seq(S) /\ A \in Nat \ {0} /\ B \in Nat /\ B <= Len(u)
    BY <1>5, <1>6, <2>1, <2>2
  <2>4. v = SubSeq(u, A, B)
    BY <1>8, <2>1, <2>2
  <2>5. /\ v \in Seq(S) /\ Len(v) = IF A <= B THEN B - A + 1 ELSE 0
        /\ \A i \in 1 .. B - A + 1 : v[i] = u[A + i - 1]
    BY ONLY <2>3, <2>4, PartOf
  <2>6. Len(v) = IF a < b THEN b - a ELSE 0
    BY <1>4, <2>1, <2>2, <2>5
  <2>7. ASSUME NEW i \in 1 .. b - a PROVE v[i] = t[a + i]
    <3>1. i \in 1 .. B - A + 1 /\ A + i - 1 = K + (a + i) /\ a + i \in 1 .. L
      BY <1>4, <2>1, <2>2
    <3> QED
      BY <1>5, <2>5, <3>1
  <2> QED
    BY <2>5, <2>6, <2>7
<1>11. w \in Seq(S) /\ (Len(w) = IF a < b THEN b - a ELSE 0) /\ \A i \in 1 .. b - a : w[i] = t[a + i]
  <2>1. PICK A : A = a + 1
    OBVIOUS
  <2>2. A \in Nat \ {0}
    BY <2>1
  <2>3. /\ w \in Seq(S) /\ Len(w) = IF A <= b THEN b - A + 1 ELSE 0
        /\ \A i \in 1 .. b - A + 1 : w[i] = t[A + i - 1]
    BY ONLY t \in Seq(S), b \in Nat, <1>4, <1>2, <1>9, <2>1, <2>2, PartOf
  <2>4. Len(w) = IF a < b THEN b - a ELSE 0
    BY <2>1, <2>3
  <2>5. ASSUME NEW i \in 1 .. b - a PROVE w[i] = t[a + i]
    <3>1. i \in 1 .. b - A + 1 /\ A + i - 1 = a + i
      BY <2>1
    <3> QED
      BY <2>3, <3>1
  <2> QED
    BY <2>3, <2>4, <2>5
<1>12. PICK n : n = IF a < b THEN b - a ELSE 0
  OBVIOUS
<1>13. Len(v) = Len(w) /\ \A i \in 1 .. Len(v) : v[i] = w[i]
  <2>1. \A i \in 1 .. n : i \in 1 .. b - a
    BY <1>12
  <2> QED
    BY <1>10, <1>11, <1>12, <2>1
<1>14. v = w
  BY ONLY <1>10, <1>11, <1>13, SeqEqual
<1> QED
  BY <1>1, <1>3, <1>8, <1>9, <1>14

LEMMA ConcatPrefix ==
  ASSUME NEW s \in Seq(Nat), NEW t \in Seq(Nat)
  PROVE  SubSeq(s \o t, 1, Len(s)) = s
<1>1. PICK K : K = Len(s)
  OBVIOUS
<1>2. PICK L : L = Len(t)
  OBVIOUS
<1>3. PICK u : u = s \o t
  OBVIOUS
<1>4. K \in Nat /\ L \in Nat /\ 1 \in Nat \ {0}
  BY <1>1, <1>2, LenProperties
<1>5. u \in Seq(Nat) /\ K <= Len(u) /\ \A i \in 1 .. K : u[i] = s[i]
  <2>1. \A i \in 1 .. K : i \in 1 .. K + L /\ i <= K
    BY <1>4
  <2>2. u \in Seq(Nat) /\ Len(u) = K + L
    BY <1>1, <1>2, <1>3, ConcatProperties
  <2>3. K <= Len(u)
    BY <1>4, <2>2
  <2> QED
    BY <1>1, <1>2, <1>3, <2>1, <2>2, <2>3, ConcatProperties
<1>6. PICK x : x = SubSeq(u, 1, K)
  OBVIOUS
<1>7. /\ x \in Seq(Nat) /\ Len(x) = IF 1 <= K THEN K - 1 + 1 ELSE 0
      /\ \A i \in 1 .. K - 1 + 1 : x[i] = u[1 + i - 1]
  BY ONLY <1>4, <1>5, <1>6, PartOf
<1>8. Len(x) = K /\ \A i \in 1 .. K : i \in 1 .. K - 1 + 1 /\ 1 + i - 1 = i
  BY <1>4, <1>7
<1>9. Len(x) = Len(s) /\ \A i \in 1 .. Len(x) : x[i] = s[i]
  BY <1>1, <1>5, <1>7, <1>8
<1>10. x = s
  BY ONLY <1>7, <1>9, s \in Seq(Nat), SeqEqual
<1> QED
  BY <1>1, <1>3, <1>6, <1>10

\* A sequence is the one element after the other.
LEMMA AllOf ==
  ASSUME NEW S, NEW s \in Seq(S)
  PROVE  SubSeq(s, 1, Len(s)) = s
<1>1. PICK L : L = Len(s)
  OBVIOUS
<1>2. L \in Nat /\ 1 \in Nat \ {0}
  BY <1>1, LenProperties
<1>3. PICK z : z = SubSeq(s, 1, L)
  OBVIOUS
<1>4. /\ z \in Seq(S) /\ Len(z) = IF 1 <= L THEN L - 1 + 1 ELSE 0
      /\ \A i \in 1 .. L - 1 + 1 : z[i] = s[1 + i - 1]
  <2>1. L <= Len(s)
    BY <1>1, <1>2
  <2> QED
    BY ONLY s \in Seq(S), <1>2, <1>3, <2>1, PartOf
<1>5. Len(z) = L /\ \A i \in 1 .. L : i \in 1 .. L - 1 + 1 /\ 1 + i - 1 = i
  BY <1>2, <1>4
<1>6. Len(z) = Len(s) /\ \A i \in 1 .. Len(z) : z[i] = s[i]
  BY <1>1, <1>4, <1>5
<1>7. z = s
  BY ONLY <1>4, <1>6, s \in Seq(S), SeqEqual
<1> QED
  BY <1>1, <1>3, <1>7

\* One pair more stands for its run, and then what followed.
LEMMA PairUnpacked ==
  ASSUME NEW n \in Nat, NEW c \in Nat, NEW q \in Seq(Nat)
  PROVE  Unpacked(<<n, c>> \o q) = Repeat(c, n) \o Unpacked(q)
<1>1. PICK p : p = <<n, c>> \o q
  OBVIOUS
<1>2. PICK L : L = Len(q)
  OBVIOUS
<1>3. PICK N : N = L \div 2
  OBVIOUS
<1>4. <<n, c>> \in Seq(Nat) /\ Len(<<n, c>>) = 2
  OBVIOUS
<1>5. L \in Nat /\ N \in Nat /\ 2 * N <= L /\ (L + 2) \div 2 = N + 1
  BY <1>2, <1>3, LenProperties
<1>6. p \in Seq(Nat) /\ Len(p) = 2 + L /\ p[1] = n /\ p[2] = c
      /\ \A i \in 1 .. L : p[2 + i] = q[i]
  <2>1. 1 \in 1 .. 2 + L /\ 2 \in 1 .. 2 + L
    BY <1>5
  <2>2. p \in Seq(Nat) /\ Len(p) = 2 + L /\ p[1] = n /\ p[2] = c
    BY <1>1, <1>2, <1>4, <2>1, ConcatProperties
  <2>3. \A i \in 1 .. L : p[2 + i] = q[i]
    BY <1>1, <1>2, <1>4, ConcatAt
  <2> QED
    BY <2>2, <2>3
<1>7. Len(p) \div 2 = N + 1
  BY <1>5, <1>6
<1>8. PICK f \in [0 .. N + 1 -> Seq(Nat)] :
        /\ Unpacked(p) = f[N + 1] /\ f[0] = <<>>
        /\ \A k \in 1 .. N + 1 : f[k] = f[k - 1] \o Repeat(p[2 * k], p[2 * k - 1])
  <2>1. PICK M : M = (Len(p) \div 2)
    OBVIOUS
  <2>2. \E f \in [0 .. M -> Seq(Nat)] :
          /\ Unpacked(p) = f[M] /\ f[0] = <<>>
          /\ \A k \in 1 .. M : f[k] = f[k - 1] \o Repeat(p[2 * k], p[2 * k - 1])
    BY <1>6, <2>1, RunsUnpacked
  <2>3. M = N + 1
    BY <1>7, <2>1
  <2> QED
    BY ONLY <2>2, <2>3
<1>9. PICK h \in [0 .. N -> Seq(Nat)] :
        /\ Unpacked(q) = h[N] /\ h[0] = <<>>
        /\ \A k \in 1 .. N : h[k] = h[k - 1] \o Repeat(q[2 * k], q[2 * k - 1])
  BY <1>2, <1>3, RunsUnpacked
<1>10. PICK R : R = Repeat(c, n)
  OBVIOUS
<1>11. R \in Seq(Nat)
  BY <1>10, RepeatOf
<1> DEFINE S == {k \in 0 .. N : f[k + 1] = R \o h[k]}
<1>12. 0 \in S
  <2>1. f[1] = f[0] \o Repeat(p[2], p[1])
    <3>1. 1 \in 1 .. N + 1 /\ 2 * 1 = 2 /\ 2 * 1 - 1 = 1 /\ 1 - 1 = 0
      BY <1>5
    <3> QED
      BY <1>8, <3>1
  <2>2. f[1] = R \o h[0]
    BY <1>6, <1>8, <1>9, <1>10, <1>11, <2>1, ConcatEmptySeq
  <2> QED
    BY <1>5, <2>2
<1>13. ASSUME NEW k \in 1 .. N, k - 1 \in S PROVE k \in S
  <2>1. 2 * k \in 1 .. L /\ 2 * k - 1 \in 1 .. L
    BY <1>5
  <2>2. p[2 * (k + 1)] = q[2 * k] /\ p[2 * (k + 1) - 1] = q[2 * k - 1]
    <3>1. 2 * (k + 1) = 2 + 2 * k /\ 2 * (k + 1) - 1 = 2 + (2 * k - 1)
      BY <1>5
    <3> QED
      BY <1>6, <2>1, <3>1
  <2>3. PICK r : r = Repeat(q[2 * k], q[2 * k - 1])
    OBVIOUS
  <2>4. r \in Seq(Nat)
    <3>1. \A i \in 1 .. L : q[i] \in Nat
      BY <1>2, ElementOfSeq
    <3>2. q[2 * k] \in Nat /\ q[2 * k - 1] \in Nat
      BY <2>1, <3>1
    <3> QED
      BY <2>3, <3>2, RepeatOf, ZenonT(120)
  <2>5. f[k + 1] = f[k] \o r
    <3>1. k + 1 \in 1 .. N + 1 /\ (k + 1) - 1 = k
      BY <1>5
    <3> QED
      BY <1>8, <2>2, <2>3, <3>1
  <2>6. f[k] = R \o h[k - 1]
    <3>1. (k - 1) + 1 = k
      BY <1>5
    <3> QED
      BY <1>13, <3>1
  <2>7. h[k] = h[k - 1] \o r /\ h[k - 1] \in Seq(Nat)
    <3>1. k - 1 \in 0 .. N
      BY <1>5
    <3> QED
      BY <1>9, <2>3, <3>1
  <2>8. f[k + 1] = R \o h[k]
    <3>1. PICK t : t = h[k - 1]
      OBVIOUS
    <3>2. t \in Seq(Nat)
      BY <2>7, <3>1
    <3>3. (R \o t) \o r = R \o (t \o r)
      BY ONLY <1>11, <2>4, <3>2, Grouping
    <3> QED
      BY <2>5, <2>6, <2>7, <3>1, <3>3
  <2> QED
    BY <1>5, <2>8, SMTT(90)
<1>14. 0 .. N \subseteq S
  <2> HIDE DEF S
  <2> QED
    BY <1>5, <1>12, <1>13, CountingInduction
<1>15. N \in S
  <2> HIDE DEF S
  <2> QED
    BY <1>5, <1>14
<1> QED
  BY <1>1, <1>8, <1>9, <1>10, <1>15

\* The run at a cell, and what follows it.
LEMMA RunThenRest ==
  ASSUME NEW s \in Seq(Nat), NEW at \in 1 .. Len(s)
  PROVE  Repeat(s[at], RunAt(s, at)) \o From(s, at + RunAt(s, at) - 1) = From(s, at - 1)
<1>1. PICK L : L = Len(s)
  OBVIOUS
<1>2. PICK r : r = RunAt(s, at)
  OBVIOUS
<1>3. L \in Nat /\ at \in 1 .. L /\ r \in 1 .. L - at + 1 /\ s[at] \in Nat
      /\ \A i \in at .. at + r - 1 : s[i] = s[at]
  BY <1>1, <1>2, LenProperties, ElementOfSeq, RunFound
<1>4. PICK x : x = Repeat(s[at], r)
  OBVIOUS
<1>5. x \in Seq(Nat) /\ Len(x) = r /\ \A i \in 1 .. r : x[i] = s[at]
  <2>1. s[at] \in Nat /\ r \in Nat
    BY <1>3
  <2> QED
    BY ONLY <1>4, <2>1, RepeatOf
<1>6. PICK y : y = From(s, at + r - 1)
  OBVIOUS
<1>7. at + r - 1 \in Nat /\ at + r - 1 <= L /\ at - 1 \in Nat /\ at - 1 <= L /\ r \in Nat
  BY <1>3
<1>8. /\ y \in Seq(Nat) /\ Len(y) = L - (at + r - 1)
      /\ \A i \in 1 .. L - (at + r - 1) : y[i] = s[at + r - 1 + i]
  BY <1>1, <1>6, <1>7, FromOf
<1>9. PICK z : z = From(s, at - 1)
  OBVIOUS
<1>10. /\ z \in Seq(Nat) /\ Len(z) = L - (at - 1)
       /\ \A i \in 1 .. L - (at - 1) : z[i] = s[at - 1 + i]
  BY <1>1, <1>7, <1>9, FromOf
<1>11. /\ x \o y \in Seq(Nat) /\ Len(x \o y) = Len(x) + Len(y)
       /\ \A i \in 1 .. Len(x) + Len(y) : (x \o y)[i] = IF i <= Len(x) THEN x[i] ELSE y[i - Len(x)]
  BY <1>5, <1>8, ConcatProperties
<1>12. PICK u : u = x \o y
  OBVIOUS
<1>13. u \in Seq(Nat) /\ Len(u) = L - (at - 1)
  BY <1>3, <1>5, <1>8, <1>11, <1>12
<1>14. ASSUME NEW i \in 1 .. L - (at - 1) PROVE u[i] = z[i]
  <2>1. u[i] = IF i <= r THEN x[i] ELSE y[i - r]
    <3>1. i \in 1 .. Len(x) + Len(y)
      BY <1>3, <1>5, <1>8
    <3> QED
      BY <1>5, <1>11, <1>12, <3>1
  <2>2. z[i] = s[at - 1 + i]
    BY <1>10
  <2>3. CASE i <= r
    <3>1. i \in 1 .. r /\ at - 1 + i \in at .. at + r - 1
      BY <1>3, <2>3
    <3> QED
      BY <1>3, <1>5, <2>1, <2>2, <2>3, <3>1
  <2>4. CASE ~(i <= r)
    <3>1. i - r \in 1 .. L - (at + r - 1) /\ at + r - 1 + (i - r) = at - 1 + i
      BY <1>3, <2>4
    <3> QED
      BY <1>8, <2>1, <2>2, <2>4, <3>1
  <2> QED
    BY <2>3, <2>4
<1>15. u = z
  BY ONLY <1>10, <1>13, <1>14, SeqEqual
<1> QED
  BY <1>2, <1>4, <1>6, <1>9, <1>12, <1>15

\* Whole pairs, none too long, that stand for the cells of s from one on.
Whole(p) == Len(p) % 2 = 0
Fits(p) == \A k \in 1 .. Len(p) \div 2 : p[2 * k - 1] \in 1 .. PairMax
PairsFor(s, at, p) == Unpacked(p) = From(s, at - 1) /\ Whole(p) /\ Fits(p)

\* rle_encode and snapshot_patch_rle: the pairs the tool sends for the cells of
\* a chunk are whole, none of them is longer than a pair may be, and the guest
\* unpacks exactly those cells from them.
THEOREM RunsRoundTrip ==
  ASSUME NEW s \in Seq(Nat)
  PROVE  /\ RleDecode(RleEncode(s), Len(s)) = {s}
         /\ Len(RleEncode(s)) % 2 = 0
         /\ \A k \in 1 .. Len(RleEncode(s)) \div 2 : RleEncode(s)[2 * k - 1] \in 1 .. PairMax
<1>1. PICK L : L = Len(s)
  OBVIOUS
<1>2. L \in Nat
  BY <1>1, LenProperties
<1>3. PICK f \in [1 .. L + 1 -> Seq(Nat)] :
        /\ RleEncode(s) = f[1] /\ f[L + 1] = <<>>
        /\ \A at \in 1 .. L : f[at] = <<RunAt(s, at), s[at]>> \o f[at + RunAt(s, at)]
  BY <1>1, RunsEncoded
<1>4. PICK next : next = [at \in 1 .. L |-> at + RunAt(s, at)]
  OBVIOUS
<1>5. \A at \in 1 .. L : /\ s[at] \in Nat /\ RunAt(s, at) \in 1 .. L - at + 1
                         /\ RunAt(s, at) \in 1 .. PairMax /\ RunAt(s, at) \in Nat
  <2> TAKE at \in 1 .. L
  <2>1. s[at] \in Nat /\ RunAt(s, at) \in 1 .. L - at + 1 /\ RunAt(s, at) <= PairMax
    BY <1>1, ElementOfSeq, RunFound
  <2> QED
    BY <1>2, <2>1, FormatAssumption
<1>6. next \in [1 .. L -> 1 .. L + 1] /\ \A at \in 1 .. L : next[at] > at /\ next[at] = at + RunAt(s, at)
  <2>1. \A at \in 1 .. L : at + RunAt(s, at) \in 1 .. L + 1 /\ at + RunAt(s, at) > at
    <3> TAKE at \in 1 .. L
    <3>1. PICK r : r = RunAt(s, at)
      OBVIOUS
    <3>2. r \in 1 .. L - at + 1
      BY <1>5, <3>1
    <3>3. at + r \in 1 .. L + 1 /\ at + r > at
      BY <1>2, <3>2
    <3> QED
      BY <3>1, <3>3
  <2> QED
    BY <1>4, <2>1
<1> DEFINE S == {at \in 1 .. L + 1 : PairsFor(s, at, f[at])}
<1>7. L + 1 \in S
  <2>1. PICK e : e = f[L + 1]
    OBVIOUS
  <2>2. e = <<>> /\ Len(e) = 0 /\ e \in Seq(Nat)
    BY <1>3, <2>1, EmptySeq
  <2>3. Whole(e) /\ Fits(e) /\ Len(e) \div 2 = 0
    BY <2>2 DEF Whole, Fits
  <2>4. Unpacked(e) = <<>>
    <3>1. PICK M : M = (Len(e) \div 2)
      OBVIOUS
    <3>2. \E h \in [0 .. M -> Seq(Nat)] : Unpacked(e) = h[M] /\ h[0] = <<>>
      BY <2>2, <3>1, RunsUnpacked
    <3>3. M = 0
      BY <2>3, <3>1
    <3> QED
      BY ONLY <3>2, <3>3
  <2>5. From(s, (L + 1) - 1) = <<>>
    <3>1. (L + 1) - 1 \in Nat /\ (L + 1) - 1 >= Len(s)
      BY <1>1, <1>2
    <3> QED
      BY <3>1, FromOf
  <2>6. L + 1 \in 1 .. L + 1
    BY <1>2
  <2>7. PairsFor(s, L + 1, e)
    BY <2>3, <2>4, <2>5 DEF PairsFor
  <2> QED
    BY <2>1, <2>6, <2>7
<1>8. ASSUME NEW at \in 1 .. L, next[at] \in S PROVE at \in S
  <2>1. PICK r : r = RunAt(s, at)
    OBVIOUS
  <2>2. PICK q : q = f[at + r]
    OBVIOUS
  <2>3. r \in Nat /\ r \in 1 .. PairMax /\ s[at] \in Nat /\ at \in 1 .. L + 1 /\ next[at] = at + r
    BY <1>2, <1>5, <1>6, <2>1
  <2>4. q \in Seq(Nat) /\ Unpacked(q) = From(s, at + r - 1) /\ Whole(q) /\ Fits(q)
    <3>1. PairsFor(s, at + r, q)
      BY <1>8, <2>2, <2>3
    <3>2. (at + r) - 1 = at + r - 1 /\ at + r \in 1 .. L + 1
      <4>1. r \in 1 .. L - at + 1
        BY <1>5, <2>1
      <4> QED
        BY <1>2, <4>1
    <3> QED
      BY <2>2, <3>1, <3>2 DEF PairsFor
  <2>5. PICK p : p = f[at]
    OBVIOUS
  <2>6. p = <<r, s[at]>> \o q
    BY <1>3, <2>1, <2>2, <2>5
  <2>7. Unpacked(p) = From(s, at - 1)
    <3>1. Unpacked(p) = Repeat(s[at], r) \o Unpacked(q)
      BY <2>3, <2>4, <2>6, PairUnpacked
    <3> QED
      BY <1>1, <2>1, <2>4, <3>1, RunThenRest
  <2>8. Whole(p) /\ Fits(p)
    <3>1. PICK K : K = Len(q)
      OBVIOUS
    <3>2. K \in Nat /\ K % 2 = 0 /\ \A k \in 1 .. K \div 2 : q[2 * k - 1] \in 1 .. PairMax
      BY <2>4, <3>1, LenProperties DEF Whole, Fits
    <3>3. <<r, s[at]>> \in Seq(Nat) /\ Len(<<r, s[at]>>) = 2
      BY <2>3
    <3>4. Len(p) = 2 + K /\ p[1] = r /\ \A i \in 1 .. K : p[2 + i] = q[i]
      <4>1. 1 \in 1 .. 2 + K
        BY <3>2
      <4>2. Len(p) = 2 + K /\ p[1] = r
        BY <2>4, <2>6, <3>1, <3>3, <4>1, ConcatProperties
      <4>3. \A i \in 1 .. K : p[2 + i] = q[i]
        BY <2>4, <2>6, <3>1, <3>3, ConcatAt
      <4> QED
        BY <4>2, <4>3
    <3>5. Whole(p)
      BY <3>2, <3>4 DEF Whole
    <3>6. Len(p) \div 2 = K \div 2 + 1
      BY <3>2, <3>4
    <3>7. ASSUME NEW k \in 1 .. K \div 2 + 1 PROVE p[2 * k - 1] \in 1 .. PairMax
      <4>1. CASE k = 1
        BY <2>3, <3>4, <4>1
      <4>2. CASE k # 1
        <5>1. PICK j : j = k - 1
          OBVIOUS
        <5>2. j \in 1 .. K \div 2 /\ 2 * j - 1 \in 1 .. K /\ 2 * k - 1 = 2 + (2 * j - 1)
          BY <3>2, <4>2, <5>1
        <5> QED
          BY <3>2, <3>4, <5>2
      <4> QED
        BY <4>1, <4>2
    <3> QED
      BY <3>5, <3>6, <3>7 DEF Fits
  <2>9. PairsFor(s, at, p)
    BY <2>7, <2>8 DEF PairsFor
  <2> QED
    BY <2>3, <2>5, <2>9
<1>9. 1 .. L + 1 \subseteq S
  <2> HIDE DEF S
  <2> QED
    BY <1>2, <1>6, <1>7, <1>8, BackwardInduction
<1>10. 1 \in S
  <2> HIDE DEF S
  <2> QED
    BY <1>2, <1>9
<1>11. From(s, 1 - 1) = s
  BY AllOf DEF From
<1>12. Unpacked(RleEncode(s)) = s
  BY <1>3, <1>10, <1>11 DEF PairsFor
<1>13. Len(RleEncode(s)) % 2 = 0
       /\ \A k \in 1 .. Len(RleEncode(s)) \div 2 : RleEncode(s)[2 * k - 1] \in 1 .. PairMax
  BY <1>3, <1>10 DEF PairsFor, Whole, Fits
<1> QED
  BY <1>12, <1>13 DEF RleDecode

\* Three parts put together, and each found again.
Joined(whole, h, w, d) ==
  h \in Seq(Nat) /\ w \in Seq(Nat) /\ d \in Seq(Nat) /\ whole = (h \o w) \o d
LEMMA ThreeParts ==
  ASSUME NEW whole, NEW h, NEW w, NEW d, Joined(whole, h, w, d)
  PROVE  /\ whole \in Seq(Nat) /\ Len(whole) = Len(h) + Len(w) + Len(d)
         /\ \A i \in 1 .. Len(h) : whole[i] = h[i]
         /\ SubSeq(whole, Len(h) + 1, Len(h) + Len(w)) = w
         /\ From(whole, Len(h) + Len(w)) = d
<1> USE DEF Joined
<1>0. h \in Seq(Nat) /\ w \in Seq(Nat) /\ d \in Seq(Nat)
  OBVIOUS
<1>1. PICK H : H = Len(h)
  OBVIOUS
<1>2. PICK W : W = Len(w)
  OBVIOUS
<1>3. PICK D : D = Len(d)
  OBVIOUS
<1>4. H \in Nat /\ W \in Nat /\ D \in Nat /\ 0 \in Nat
  BY <1>1, <1>2, <1>3, LenProperties
<1>5. PICK x : x = h \o w
  OBVIOUS
<1>6. PICK y : y = w \o d
  OBVIOUS
<1>7. x \in Seq(Nat) /\ Len(x) = H + W /\ y \in Seq(Nat) /\ Len(y) = W + D
  BY <1>1, <1>2, <1>3, <1>5, <1>6, ConcatProperties
<1>8. whole = x \o d /\ whole = h \o y
  BY <1>5, <1>6, Grouping
<1>9. whole \in Seq(Nat) /\ Len(whole) = H + W + D /\ \A i \in 1 .. H : whole[i] = h[i]
  <2>1. whole \in Seq(Nat) /\ Len(whole) = H + (W + D)
    BY <1>1, <1>7, <1>8, ConcatProperties, ZenonT(60)
  <2>2. \A i \in 1 .. H : i \in 1 .. H + (W + D) /\ i <= H
    BY <1>4
  <2>3. \A i \in 1 .. H : whole[i] = h[i]
    BY <1>1, <1>7, <1>8, <2>2, ConcatProperties
  <2> QED
    BY <1>4, <2>1, <2>3
<1>10. SubSeq(whole, H + 1, H + W) = w
  <2>1. W <= Len(y)
    BY <1>4, <1>7
  <2>2. SubSeq(whole, Len(h) + 0 + 1, Len(h) + W) = SubSeq(y, 0 + 1, W)
    BY ONLY <1>0, <1>4, <1>7, <1>8, <2>1, ConcatParts, SMTT(90)
  <2>3. SubSeq(y, 1, Len(w)) = w
    BY <1>6, ConcatPrefix
  <2>4. Len(h) + 0 + 1 = H + 1 /\ 0 + 1 = 1
    BY <1>1, <1>4
  <2> QED
    BY <1>1, <1>2, <2>2, <2>3, <2>4
<1>11. From(whole, H + W) = d
  <2>1. D <= Len(d)
    BY <1>3, <1>4
  <2>2. SubSeq(x \o d, Len(x) + 0 + 1, Len(x) + D) = SubSeq(d, 0 + 1, D)
    <3>1. x \in Seq(Nat) /\ 0 \in Nat /\ D \in Nat
      BY <1>4, <1>7
    <3> QED
      BY ONLY <1>0, <2>1, <3>1, ConcatParts
  <2>3. Len(x) + 0 + 1 = H + W + 1 /\ 0 + 1 = 1 /\ Len(x) + D = Len(whole)
    BY <1>4, <1>7, <1>9
  <2>4. SubSeq(d, 1, D) = d
    BY <1>3, AllOf
  <2> QED
    BY <1>8, <2>2, <2>3, <2>4 DEF From
<1> QED
  BY <1>1, <1>2, <1>3, <1>9, <1>10, <1>11

\* And taken apart.
Part(s, a, b) == SubSeq(s, a + 1, b)
LEMMA PartAt ==
  ASSUME NEW s \in Seq(Nat), NEW a \in Nat, NEW b \in Nat, a <= b, b <= Len(s)
  PROVE  /\ Part(s, a, b) \in Seq(Nat) /\ Len(Part(s, a, b)) = b - a
         /\ \A i \in 1 .. b - a : Part(s, a, b)[i] = s[a + i]
<1>1. PICK A : A = a + 1
  OBVIOUS
<1>2. A \in Nat \ {0}
  BY <1>1
<1>3. PICK y : y = SubSeq(s, A, b)
  OBVIOUS
<1>4. /\ y \in Seq(Nat) /\ Len(y) = IF A <= b THEN b - A + 1 ELSE 0
      /\ \A i \in 1 .. b - A + 1 : y[i] = s[A + i - 1]
  <2>1. s \in Seq(Nat) /\ A \in Nat \ {0} /\ b \in Nat /\ b <= Len(s)
    BY <1>2
  <2> QED
    BY ONLY <1>3, <2>1, PartOf
<1>5. Len(y) = b - a /\ \A i \in 1 .. b - a : i \in 1 .. b - A + 1 /\ A + i - 1 = a + i
  BY <1>1, <1>4
<1>6. \A i \in 1 .. b - a : y[i] = s[a + i]
  BY <1>4, <1>5
<1> QED
  BY <1>1, <1>3, <1>4, <1>5, <1>6 DEF Part

Apart(s, a, b, c) == s \in Seq(Nat) /\ a \in Nat /\ b \in Nat /\ c \in Nat /\ a <= b /\ b <= c /\ c <= Len(s)
LEMMA SplitAt ==
  ASSUME NEW s, NEW a, NEW b, NEW c, Apart(s, a, b, c)
  PROVE  Part(s, a, b) \o Part(s, b, c) = Part(s, a, c)
<1> USE DEF Apart
<1>1. PICK L : L = Len(s)
  OBVIOUS
<1>2. L \in Nat /\ c <= L
  BY <1>1, LenProperties
<1>3. a <= b /\ b <= Len(s) /\ b <= c /\ c <= Len(s) /\ a <= c
  BY <1>1, <1>2
<1>4. PICK x : x = Part(s, a, b)
  OBVIOUS
<1>5. x \in Seq(Nat) /\ Len(x) = b - a /\ \A i \in 1 .. b - a : x[i] = s[a + i]
  BY <1>3, <1>4, PartAt
<1>6. PICK y : y = Part(s, b, c)
  OBVIOUS
<1>7. y \in Seq(Nat) /\ Len(y) = c - b /\ \A i \in 1 .. c - b : y[i] = s[b + i]
  BY <1>3, <1>6, PartAt
<1>8. PICK z : z = Part(s, a, c)
  OBVIOUS
<1>9. z \in Seq(Nat) /\ Len(z) = c - a /\ \A i \in 1 .. c - a : z[i] = s[a + i]
  BY <1>3, <1>8, PartAt
<1>10. PICK u : u = x \o y
  OBVIOUS
<1>11. u \in Seq(Nat) /\ Len(u) = c - a
       /\ \A i \in 1 .. c - a : u[i] = IF i <= b - a THEN x[i] ELSE y[i - (b - a)]
  <2>1. /\ u \in Seq(Nat) /\ Len(u) = Len(x) + Len(y)
        /\ \A i \in 1 .. Len(x) + Len(y) : u[i] = IF i <= Len(x) THEN x[i] ELSE y[i - Len(x)]
    BY ONLY <1>5, <1>7, <1>10, ConcatProperties
  <2>2. Len(x) + Len(y) = c - a
    BY <1>5, <1>7
  <2> QED
    BY <1>5, <2>1, <2>2
<1>12. ASSUME NEW i \in 1 .. c - a PROVE u[i] = z[i]
  <2>1. CASE i <= b - a
    <3>1. i \in 1 .. b - a
      BY <2>1
    <3> QED
      BY <1>5, <1>9, <1>11, <2>1, <3>1
  <2>2. CASE ~(i <= b - a)
    <3>1. i - (b - a) \in 1 .. c - b /\ b + (i - (b - a)) = a + i
      BY <2>2
    <3> QED
      BY <1>7, <1>9, <1>11, <2>2, <3>1
  <2> QED
    BY <2>1, <2>2
<1>13. u = z
  BY ONLY <1>9, <1>11, <1>12, SeqEqual
<1> QED
  BY <1>4, <1>6, <1>8, <1>10, <1>13

\* Seven numbers are a header of an image.
LEMMA Seven ==
  ASSUME NEW a \in Nat, NEW b \in Nat, NEW c \in Nat, NEW d \in Nat, NEW e \in Nat, NEW f \in Nat, NEW g \in Nat
  PROVE  <<a, b, c, d, e, f, g>> \in Seq(Nat) /\ Len(<<a, b, c, d, e, f, g>>) = 7
OBVIOUS

\* RVSNAP01: an image within the lengths is written as one file, which is read
\* back as that image and no other.
THEOREM ImageRoundTrip ==
  ASSUME NEW image \in Image, NEW written \in ImageEncode(image)
  PROVE  ImageDecode(written) = {image}
<1>1. PICK w : w = image.workspace
  OBVIOUS
<1>2. PICK d : d = image.data
  OBVIOUS
<1>3. PICK lines : lines = image.lines
  OBVIOUS
<1>4. w \in Seq(Nat) /\ d \in Seq(Nat) /\ lines \in Nat
      /\ image = [workspace |-> w, data |-> d, lines |-> lines]
  BY <1>1, <1>2, <1>3 DEF Image
<1>5. PICK W : W = Len(w)
  OBVIOUS
<1>6. PICK D : D = Len(d)
  OBVIOUS
<1>7. PICK x : x = Checksum(w)
  OBVIOUS
<1>8. PICK y : y = Checksum(d)
  OBVIOUS
<1>9. W \in Nat /\ D \in Nat /\ x \in Nat /\ y \in Nat /\ Magic \in Nat /\ HeaderLen = 7
  BY <1>4, <1>5, <1>6, <1>7, <1>8, LenProperties, ChecksumType DEF Magic, HeaderLen
<1>10. PICK h : h = <<Magic, HeaderLen, W, D, lines, x, y>>
  OBVIOUS
<1>11. h \in Seq(Nat) /\ Len(h) = 7
       /\ h[1] = Magic /\ h[2] = HeaderLen /\ h[3] = W /\ h[4] = D /\ h[5] = lines /\ h[6] = x /\ h[7] = y
  BY <1>4, <1>9, <1>10, Seven
<1>12. ValidLengths(W, D) /\ written = (h \o w) \o d
  BY <1>1, <1>2, <1>3, <1>5, <1>6, <1>7, <1>8, <1>10, Zenon DEF ImageEncode
<1>13. /\ Len(written) = Len(h) + Len(w) + Len(d)
       /\ \A i \in 1 .. Len(h) : written[i] = h[i]
       /\ SubSeq(written, Len(h) + 1, Len(h) + Len(w)) = w
       /\ From(written, Len(h) + Len(w)) = d
  <2>1. h \in Seq(Nat) /\ w \in Seq(Nat) /\ d \in Seq(Nat)
    BY <1>4, <1>11
  <2>2. written = (h \o w) \o d
    BY <1>12
  <2>3. Joined(written, h, w, d)
    BY <2>1, <2>2 DEF Joined
  <2> QED
    BY ONLY <2>3, ThreeParts
<1>14. PICK end : end = HeaderLen + W
  OBVIOUS
<1>15. Len(written) = end + D /\ end \in Nat /\ ~(Len(written) < HeaderLen)
  BY <1>5, <1>6, <1>9, <1>11, <1>13, <1>14
<1>16. SubSeq(written, HeaderLen + 1, end) = w /\ From(written, end) = d
  BY <1>5, <1>9, <1>11, <1>13, <1>14
<1>17. /\ written[1] = Magic /\ written[2] = HeaderLen /\ written[3] = W /\ written[4] = D
       /\ written[5] = lines /\ written[6] = x /\ written[7] = y
  <2>1. 1 \in 1 .. 7 /\ 2 \in 1 .. 7 /\ 3 \in 1 .. 7 /\ 4 \in 1 .. 7 /\ 5 \in 1 .. 7 /\ 6 \in 1 .. 7 /\ 7 \in 1 .. 7
    OBVIOUS
  <2>2. \A i \in 1 .. 7 : written[i] = h[i]
    BY <1>11, <1>13
  <2> QED
    BY ONLY <1>11, <2>1, <2>2
<1>18. ImageDecode(written) = {[workspace |-> w, data |-> d, lines |-> lines]}
  BY <1>7, <1>8, <1>12, <1>14, <1>15, <1>16, <1>17, Zenon DEF ImageDecode
<1> QED
  BY <1>4, <1>18

\* And a file that is read is the one its image is written as: no second file
\* stands for the same image.
THEOREM ImageFileUnique ==
  ASSUME NEW read \in Seq(Nat), NEW image \in ImageDecode(read)
  PROVE  ImageEncode(image) = {read}
<1>1. PICK L : L = Len(read)
  OBVIOUS
<1>2. ~(L < HeaderLen) /\ read[1] = Magic /\ read[2] = HeaderLen
  BY <1>1 DEF ImageDecode
<1>3. L \in Nat /\ L >= 7 /\ HeaderLen = 7 /\ \A i \in 1 .. L : read[i] \in Nat
  BY <1>1, <1>2, LenProperties, ElementOfSeq DEF HeaderLen
<1>4. PICK W : W = read[3]
  OBVIOUS
<1>5. PICK D : D = read[4]
  OBVIOUS
<1>6. PICK end : end = HeaderLen + W
  OBVIOUS
<1>7. PICK w : w = SubSeq(read, HeaderLen + 1, end)
  OBVIOUS
<1>8. PICK d : d = From(read, end)
  OBVIOUS
<1>9. /\ image = [workspace |-> w, data |-> d, lines |-> read[5]]
      /\ ValidLengths(W, D) /\ L = end + D
      /\ Checksum(w) = read[6] /\ Checksum(d) = read[7]
  BY <1>1, <1>2, <1>4, <1>5, <1>6, <1>7, <1>8 DEF ImageDecode
<1>10. W \in Nat /\ D \in Nat /\ end \in Nat /\ 7 <= end /\ end <= L
  <2>1. W \in Nat /\ D \in Nat
    BY <1>3, <1>4, <1>5
  <2> QED
    BY ONLY <1>3, <1>6, <1>9, <2>1
<1>11. end <= Len(read) /\ 7 <= Len(read) /\ 7 \in Nat /\ L \in Nat /\ L <= Len(read) /\ 1 \in Nat \ {0}
  BY <1>1, <1>3, <1>10
<1>12. PICK h : h = SubSeq(read, 1, 7)
  OBVIOUS
<1>13. h \in Seq(Nat) /\ Len(h) = 7 /\ \A i \in 1 .. 7 : h[i] = read[i]
  <2>1. 7 \in 0 .. Len(read)
    BY <1>1, <1>3
  <2> QED
    BY <1>12, <2>1, PrefixOf DEF Prefix
<1>14. h = <<Magic, HeaderLen, W, D, read[5], read[6], read[7]>>
  <2>1. PICK t : t = <<Magic, HeaderLen, W, D, read[5], read[6], read[7]>>
    OBVIOUS
  <2>2. read[5] \in Nat /\ read[6] \in Nat /\ read[7] \in Nat /\ Magic \in Nat /\ HeaderLen \in Nat
    BY <1>3 DEF Magic
  <2>3. t \in Seq(Nat) /\ Len(t) = 7
    BY <1>10, <2>1, <2>2, Seven
  <2>4. t[1] = read[1] /\ t[2] = read[2] /\ t[3] = read[3] /\ t[4] = read[4] /\ t[5] = read[5]
        /\ t[6] = read[6] /\ t[7] = read[7]
    BY <1>2, <1>4, <1>5, <2>1
  <2>5. \A i \in 1 .. 7 : i = 1 \/ i = 2 \/ i = 3 \/ i = 4 \/ i = 5 \/ i = 6 \/ i = 7
    OBVIOUS
  <2>6. Len(h) = Len(t) /\ \A i \in 1 .. Len(h) : h[i] = t[i]
    BY ONLY <1>13, <2>3, <2>4, <2>5
  <2>7. h = t
    BY ONLY <1>13, <2>3, <2>6, SeqEqual
  <2> QED
    BY <2>1, <2>7
<1>15. w \in Seq(Nat) /\ Len(w) = W
  <2>1. 8 \in Nat \ {0} /\ HeaderLen + 1 = 8 /\ end = 7 + W
    BY <1>3, <1>6
  <2>2. w \in Seq(Nat) /\ Len(w) = IF 8 <= end THEN end - 8 + 1 ELSE 0
    BY ONLY read \in Seq(Nat), <1>7, <1>10, <1>11, <2>1, PartOf, SMTT(90)
  <2>3. Len(w) = W
    BY <1>10, <2>1, <2>2
  <2> QED
    BY <2>2, <2>3
<1>16. d \in Seq(Nat) /\ Len(d) = D
  <2>1. d \in Seq(Nat) /\ Len(d) = Len(read) - end
    BY <1>8, <1>10, <1>11, FromOf
  <2> QED
    <3>1. L = end + D /\ Len(d) = L - end
      BY <1>1, <1>9, <2>1
    <3>2. Len(d) = D
      <4>1. PICK n : n = Len(d)
        OBVIOUS
      <4>2. n = L - end
        BY <3>1, <4>1
      <4>3. n = D
        BY ONLY <1>3, <1>10, <3>1, <4>2
      <4> QED
        BY <4>1, <4>3
    <3> QED
      BY <2>1, <3>2
<1>17. read = (h \o w) \o d
  <2>1. h \o w = SubSeq(read, 1, end)
    <3>1. Apart(read, 0, 7, end)
      BY <1>10, <1>11 DEF Apart
    <3>2. Part(read, 0, 7) \o Part(read, 7, end) = Part(read, 0, end)
      BY ONLY <3>1, SplitAt
    <3>3. HeaderLen + 1 = 7 + 1 /\ 0 + 1 = 1
      BY <1>3
    <3> QED
      BY <1>7, <1>12, <3>2, <3>3 DEF Part
  <2>2. SubSeq(read, 1, end) \o SubSeq(read, end + 1, L) = SubSeq(read, 1, L)
    <3>1. Apart(read, 0, end, L)
      BY <1>10, <1>11 DEF Apart
    <3>2. Part(read, 0, end) \o Part(read, end, L) = Part(read, 0, L)
      BY ONLY <3>1, SplitAt
    <3>3. 0 + 1 = 1
      OBVIOUS
    <3> QED
      BY <3>2, <3>3 DEF Part
  <2>3. d = SubSeq(read, end + 1, L) /\ SubSeq(read, 1, L) = read
    BY <1>1, <1>8, AllOf DEF From
  <2> QED
    BY <2>1, <2>2, <2>3
<1>18. ImageEncode(image) = {<<Magic, HeaderLen, W, D, read[5], read[6], read[7]>> \o w \o d}
  BY <1>9, <1>15, <1>16 DEF ImageEncode
<1> QED
  BY <1>14, <1>17, <1>18

LEMMA PrefixNext ==
  ASSUME NEW S, NEW s \in Seq(S), NEW n \in 1 .. Len(s)
  PROVE  Append(Prefix(s, n - 1), s[n]) = Prefix(s, n)
<1>1. PICK L : L = Len(s)
  OBVIOUS
<1>2. L \in Nat /\ n \in 1 .. L /\ n - 1 \in 0 .. Len(s) /\ n \in 0 .. Len(s)
  BY <1>1, LenProperties
<1>3. PICK p : p = Prefix(s, n - 1)
  OBVIOUS
<1>4. p \in Seq(S) /\ Len(p) = n - 1 /\ \A i \in 1 .. n - 1 : p[i] = s[i]
  BY <1>2, <1>3, PrefixOf
<1>5. PICK z : z = Prefix(s, n)
  OBVIOUS
<1>6. z \in Seq(S) /\ Len(z) = n /\ \A i \in 1 .. n : z[i] = s[i]
  BY <1>2, <1>5, PrefixOf
<1>7. s[n] \in S
  BY ElementOfSeq
<1>8. PICK x : x = Append(p, s[n])
  OBVIOUS
<1>9. /\ x \in Seq(S) /\ Len(x) = Len(p) + 1
      /\ (\A i \in 1 .. Len(p) : x[i] = p[i]) /\ x[Len(p) + 1] = s[n]
  BY ONLY <1>4, <1>7, <1>8, AppendProperties
<1>10. Len(p) + 1 = n
  BY <1>2, <1>4
<1>11. ASSUME NEW i \in 1 .. n PROVE x[i] = z[i]
  <2>1. CASE i = n
    BY <1>6, <1>9, <1>10, <2>1
  <2>2. CASE i # n
    <3>1. i \in 1 .. n - 1
      BY <1>2, <2>2
    <3> QED
      BY <1>4, <1>6, <1>9, <3>1
  <2> QED
    BY <2>1, <2>2
<1>12. Len(x) = Len(z) /\ \A i \in 1 .. Len(x) : x[i] = z[i]
  BY <1>6, <1>9, <1>10, <1>11
<1>13. x = z
  BY ONLY <1>6, <1>9, <1>12, SeqEqual
<1> QED
  BY <1>3, <1>5, <1>8, <1>13

\* A symbol where the decoder stands is the one it reads.
SymbolAt(rest, p, a, name, t) ==
  /\ p \in Seq(Nat) /\ a \in Nat /\ name \in Seq(Nat) /\ t \in Seq(Nat)
  /\ rest = ((p \o <<a, Len(name)>>) \o name) \o t
Readable(rest, r, limits, p, symbols, a, name, t) ==
  /\ SymbolAt(rest, p, a, name, t) /\ Len(name) <= limits.name
  /\ r = [at |-> Len(p) + 1, symbols |-> symbols]
After(p, symbols, a, name) ==
  [at |-> Len(p) + 2 + Len(name) + 1, symbols |-> Append(symbols, [address |-> a, name |-> name])]
LEMMA SymbolReadBack ==
  ASSUME NEW rest, NEW r, NEW limits, NEW p, NEW symbols, NEW a, NEW name, NEW t,
         Readable(rest, r, limits, p, symbols, a, name, t)
  PROVE  SymbolFits(rest, r, limits) /\ SymbolRead(rest, r) = After(p, symbols, a, name)
<1> USE DEF Readable, After
<1>1. PICK P : P = Len(p)
  OBVIOUS
<1>2. PICK N : N = Len(name)
  OBVIOUS
<1>3. PICK T : T = Len(t)
  OBVIOUS
<1>4. p \in Seq(Nat) /\ a \in Nat /\ name \in Seq(Nat) /\ t \in Seq(Nat)
      /\ rest = ((p \o <<a, N>>) \o name) \o t
  BY <1>2 DEF SymbolAt
<1>5. P \in Nat /\ N \in Nat /\ T \in Nat /\ 0 \in Nat
  BY <1>1, <1>2, <1>3, <1>4, LenProperties
<1>6. <<a, N>> \in Seq(Nat) /\ Len(<<a, N>>) = 2 /\ <<a, N>>[1] = a /\ <<a, N>>[2] = N
  BY <1>4, <1>5
<1>7. PICK x : x = p \o <<a, N>>
  OBVIOUS
<1>8. PICK y : y = name \o t
  OBVIOUS
<1>9. x \in Seq(Nat) /\ Len(x) = P + 2 /\ x[P + 1] = a /\ x[P + 2] = N
  <2>1. x \in Seq(Nat) /\ Len(x) = P + 2
    BY <1>1, <1>4, <1>6, <1>7, ConcatProperties
  <2>2. 1 \in 1 .. Len(<<a, N>>) /\ 2 \in 1 .. Len(<<a, N>>)
    BY <1>6
  <2>3. x[P + 1] = <<a, N>>[1] /\ x[P + 2] = <<a, N>>[2]
    BY <1>1, <1>4, <1>6, <1>7, <2>2, ConcatAt
  <2> QED
    BY <1>6, <2>1, <2>3
<1>10. y \in Seq(Nat) /\ Len(y) = N + T
  BY <1>2, <1>3, <1>4, <1>8, ConcatProperties
<1>11. rest = x \o y
  BY <1>4, <1>7, <1>8, <1>9, Grouping
<1>12. Len(rest) = P + 2 + (N + T) /\ rest[P + 1] = a /\ rest[P + 2] = N
  <2>1. /\ Len(rest) = Len(x) + Len(y)
        /\ \A i \in 1 .. Len(x) + Len(y) : rest[i] = IF i <= Len(x) THEN x[i] ELSE y[i - Len(x)]
    <3>1. x \in Seq(Nat) /\ y \in Seq(Nat)
      BY <1>9, <1>10
    <3> QED
      BY ONLY <1>11, <3>1, ConcatProperties
  <2>2. Len(x) = P + 2 /\ Len(y) = N + T
    BY <1>9, <1>10
  <2>3. P + 1 \in 1 .. P + 2 + (N + T) /\ P + 2 \in 1 .. P + 2 + (N + T) /\ P + 1 <= P + 2
    BY <1>5
  <2> QED
    BY <1>9, <2>1, <2>2, <2>3
<1>13. PICK end : end = P + 1 + 1 + N
  OBVIOUS
<1>14. SubSeq(rest, P + 1 + 2, end) = name
  <2>1. N <= Len(y)
    BY <1>5, <1>10
  <2>2. SubSeq(x \o y, Len(x) + 0 + 1, Len(x) + N) = SubSeq(y, 0 + 1, N)
    <3>1. x \in Seq(Nat) /\ y \in Seq(Nat) /\ 0 \in Nat /\ N \in Nat
      BY <1>5, <1>9, <1>10
    <3> QED
      BY ONLY <2>1, <3>1, ConcatParts
  <2>3. SubSeq(y, 1, Len(name)) = name
    BY <1>4, <1>8, ConcatPrefix
  <2>4. Len(x) + 0 + 1 = P + 1 + 2 /\ Len(x) + N = end /\ 0 + 1 = 1
    BY <1>5, <1>9, <1>13
  <2> QED
    BY <1>2, <1>11, <2>2, <2>3, <2>4
<1>15. r.at = P + 1 /\ r.at + 1 = P + 2 /\ r.at + 1 + N = end /\ r.at + 2 = P + 1 + 2 /\ r.symbols = symbols
  BY <1>1, <1>5, <1>13
<1>16. rest[r.at] = a /\ rest[r.at + 1] = N
  BY <1>12, <1>15
<1>17. SymbolFits(rest, r, limits)
  <2>1. P + 1 < Len(rest) /\ end <= Len(rest)
    BY ONLY <1>5, <1>12, <1>13
  <2> QED
    BY <1>2, <1>15, <1>16, <2>1 DEF SymbolFits
<1>18. SymbolRead(rest, r) = [at |-> end + 1, symbols |-> Append(symbols, [address |-> a, name |-> name])]
  BY <1>14, <1>15, <1>16, Zenon DEF SymbolRead
<1>19. end + 1 = Len(p) + 2 + Len(name) + 1
  BY <1>1, <1>2, <1>5, <1>13
<1> QED
  BY <1>17, <1>18, <1>19

\* What is written symbol by symbol is there from the first on.
LEMMA SymbolsThere ==
  ASSUME NEW symbols \in Seq(Symbol)
  PROVE  \E f \in [0 .. Len(symbols) -> Seq(Nat)] :
           /\ SymbolFields(symbols) = f[Len(symbols)] /\ f[0] = <<>>
           /\ \A n \in 1 .. Len(symbols) :
                /\ f[n] = f[n - 1] \o <<symbols[n].address, Len(symbols[n].name)>> \o symbols[n].name
                /\ \E t : SymbolAt(SymbolFields(symbols), f[n - 1], symbols[n].address, symbols[n].name, t)
<1>1. PICK N : N = Len(symbols)
  OBVIOUS
<1>2. N \in Nat /\ \A n \in 1 .. N : symbols[n].address \in Nat /\ symbols[n].name \in Seq(Nat)
  <2>1. N \in Nat /\ \A n \in 1 .. N : symbols[n] \in Symbol
    BY <1>1, LenProperties, ElementOfSeq
  <2> QED
    BY <2>1 DEF Symbol
<1>3. PICK rest : rest = SymbolFields(symbols)
  OBVIOUS
<1>4. PICK f \in [0 .. N -> Seq(Nat)] :
        /\ rest = f[N] /\ f[0] = <<>>
        /\ \A n \in 1 .. N : f[n] = f[n - 1] \o <<symbols[n].address, Len(symbols[n].name)>> \o symbols[n].name
  BY <1>1, <1>3, SymbolsEncoded
<1>5. PICK next : next = [k \in 1 .. N |-> k + 1]
  OBVIOUS
<1>6. next \in [1 .. N -> 1 .. N + 1] /\ \A k \in 1 .. N : next[k] > k /\ next[k] = k + 1
  BY <1>2, <1>5
<1> DEFINE S == {k \in 1 .. N + 1 : \E t \in Seq(Nat) : rest = f[k - 1] \o t}
<1>7. N + 1 \in S
  <2>1. (N + 1) - 1 = N /\ N + 1 \in 1 .. N + 1 /\ f[N] \in Seq(Nat)
    BY <1>2
  <2>2. rest = f[N] \o <<>> /\ <<>> \in Seq(Nat)
    BY <1>4, <2>1, ConcatEmptySeq, EmptySeq
  <2> QED
    BY <2>1, <2>2
<1>8. ASSUME NEW k \in 1 .. N, NEW t \in Seq(Nat), rest = f[k] \o t
      PROVE  /\ SymbolAt(rest, f[k - 1], symbols[k].address, symbols[k].name, t)
             /\ \E u \in Seq(Nat) : rest = f[k - 1] \o u
  <2>1. PICK p : p = f[k - 1]
    OBVIOUS
  <2>2. k - 1 \in 0 .. N
    BY <1>2
  <2>3. p \in Seq(Nat)
    BY <2>1, <2>2
  <2>4. PICK a : a = symbols[k].address
    OBVIOUS
  <2>5. PICK name : name = symbols[k].name
    OBVIOUS
  <2>6. a \in Nat /\ name \in Seq(Nat) /\ Len(name) \in Nat
    BY <1>2, <2>4, <2>5, LenProperties
  <2>7. rest = ((p \o <<a, Len(name)>>) \o name) \o t
    BY <1>4, <1>8, <2>1, <2>4, <2>5
  <2>8. PICK c : c = <<a, Len(name)>>
    OBVIOUS
  <2>9. c \in Seq(Nat)
    BY <2>6, <2>8
  <2>10. PICK d : d = p \o c
    OBVIOUS
  <2>11. PICK e : e = name \o t
    OBVIOUS
  <2>12. d \in Seq(Nat) /\ e \in Seq(Nat) /\ c \o e \in Seq(Nat)
    BY <2>3, <2>6, <2>9, <2>10, <2>11, ConcatProperties
  <2>13. (d \o name) \o t = d \o e
    <3>1. d \in Seq(Nat) /\ name \in Seq(Nat)
      BY <2>6, <2>12
    <3> QED
      BY ONLY <2>11, <3>1, t \in Seq(Nat), Grouping
  <2>14. d \o e = p \o (c \o e)
    BY ONLY <2>3, <2>9, <2>10, <2>12, Grouping, ZenonT(60)
  <2>15. rest = p \o (c \o e)
    BY <2>7, <2>8, <2>10, <2>13, <2>14
  <2>16. SymbolAt(rest, p, a, name, t)
    BY <2>3, <2>6, <2>7 DEF SymbolAt
  <2> QED
    BY <2>1, <2>4, <2>5, <2>12, <2>15, <2>16
<1>9. ASSUME NEW k \in 1 .. N, next[k] \in S PROVE k \in S
  <2>1. (k + 1) - 1 = k /\ k \in 1 .. N + 1 /\ next[k] = k + 1
    BY <1>2, <1>6
  <2>2. \E t \in Seq(Nat) : rest = f[k] \o t
    BY <1>9, <2>1
  <2> QED
    BY <1>8, <2>1, <2>2
<1>10. 1 .. N + 1 \subseteq S
  <2>1. \A k \in 1 .. N : next[k] > k
    BY <1>6
  <2> HIDE DEF S
  <2> QED
    BY <1>2, <1>6, <1>7, <1>9, <2>1, BackwardInduction
<1>11. ASSUME NEW n \in 1 .. N
       PROVE  \E t : SymbolAt(rest, f[n - 1], symbols[n].address, symbols[n].name, t)
  <2>1. n + 1 \in 1 .. N + 1 /\ (n + 1) - 1 = n
    BY <1>2
  <2>2. \E t \in Seq(Nat) : rest = f[n] \o t
    BY <1>10, <2>1
  <2> QED
    BY <1>8, <2>2
<1> QED
  BY <1>1, <1>3, <1>4, <1>11

\* The symbols of a file are read back.
LEMMA SymbolsRoundTrip ==
  ASSUME NEW symbols \in Seq(Symbol), NEW limits, \A n \in DOMAIN symbols : Len(symbols[n].name) <= limits.name
  PROVE  SymbolsDecode(SymbolFields(symbols), Len(symbols), limits) = {symbols}
<1>1. PICK N : N = Len(symbols)
  OBVIOUS
<1>2. N \in Nat /\ DOMAIN symbols = 1 .. N /\ \A n \in 1 .. N : symbols[n] \in Symbol
  BY <1>1, LenProperties, ElementOfSeq
<1>3. PICK rest : rest = SymbolFields(symbols)
  OBVIOUS
<1>4. PICK f \in [0 .. N -> Seq(Nat)] :
        /\ rest = f[N] /\ f[0] = <<>>
        /\ \A n \in 1 .. N :
             /\ f[n] = f[n - 1] \o <<symbols[n].address, Len(symbols[n].name)>> \o symbols[n].name
             /\ \E t : SymbolAt(rest, f[n - 1], symbols[n].address, symbols[n].name, t)
  BY <1>1, <1>3, SymbolsThere
<1>5. rest \in Seq(Nat)
  BY <1>2, <1>4
<1>6. PICK g \in [0 .. N -> SUBSET Reading(limits)] :
        /\ SymbolsDecode(rest, N, limits) = {r.symbols : r \in {q \in g[N] : q.at = Len(rest) + 1}}
        /\ g[0] = {[at |-> 1, symbols |-> <<>>]}
        /\ \A n \in 1 .. N : g[n] = {SymbolRead(rest, r) : r \in {q \in g[n - 1] : SymbolFits(rest, q, limits)}}
  BY <1>2, <1>5, SymbolsReads, ZenonT(60)
<1> DEFINE here(n) == [at |-> Len(f[n]) + 1, symbols |-> Prefix(symbols, n)]
           S == {n \in 0 .. N : g[n] = {here(n)}}
<1>7. 0 \in S
  <2>1. Prefix(symbols, 0) = <<>>
    BY SubSeqEmpty DEF Prefix
  <2>2. Len(f[0]) = 0
    BY <1>4
  <2>3. here(0) = [at |-> 1, symbols |-> <<>>]
    BY <2>1, <2>2
  <2> QED
    BY <1>2, <1>6, <2>3
<1>8. ASSUME NEW n \in 1 .. N, n - 1 \in S PROVE n \in S
  <2>1. n \in 0 .. N /\ n - 1 \in 0 .. N
    BY <1>2
  <2>2. PICK p : p = f[n - 1]
    OBVIOUS
  <2>3. PICK a : a = symbols[n].address
    OBVIOUS
  <2>4. PICK name : name = symbols[n].name
    OBVIOUS
  <2>5. a \in Nat /\ name \in Seq(Nat) /\ symbols[n] = [address |-> a, name |-> name] /\ Len(name) <= limits.name
    BY <1>2, <2>3, <2>4 DEF Symbol
  <2>6. PICK t : SymbolAt(rest, p, a, name, t)
    BY <1>4, <2>2, <2>3, <2>4
  <2>7. PICK r : r = here(n - 1)
    OBVIOUS
  <2>8. r = [at |-> Len(p) + 1, symbols |-> Prefix(symbols, n - 1)]
    BY <2>2, <2>7
  <2>9. /\ SymbolFits(rest, r, limits)
        /\ SymbolRead(rest, r) = [at |-> Len(p) + 2 + Len(name) + 1,
                                  symbols |-> Append(Prefix(symbols, n - 1), [address |-> a, name |-> name])]
    <3>1. PICK done : done = Prefix(symbols, n - 1)
      OBVIOUS
    <3>2. Readable(rest, r, limits, p, done, a, name, t)
      BY <2>5, <2>6, <2>8, <3>1 DEF Readable
    <3>3. SymbolFits(rest, r, limits) /\ SymbolRead(rest, r) = After(p, done, a, name)
      BY ONLY <3>2, SymbolReadBack
    <3> QED
      BY <3>1, <3>3 DEF After
  <2>10. Append(Prefix(symbols, n - 1), [address |-> a, name |-> name]) = Prefix(symbols, n)
    BY <1>1, <2>5, PrefixNext
  <2>11. Len(f[n]) = Len(p) + 2 + Len(name)
    <3>1. f[n] = (p \o <<a, Len(name)>>) \o name
      BY <1>4, <2>2, <2>3, <2>4
    <3>2. <<a, Len(name)>> \in Seq(Nat) /\ Len(<<a, Len(name)>>) = 2
      BY <2>5, LenProperties
    <3>3. p \in Seq(Nat)
      BY <2>1, <2>2
    <3>4. PICK z : z = f[n]
      OBVIOUS
    <3>5. PICK c : c = <<a, Len(name)>>
      OBVIOUS
    <3>6. Joined(z, p, c, name)
      BY <2>5, <3>1, <3>2, <3>3, <3>4, <3>5 DEF Joined
    <3>7. Len(z) = Len(p) + Len(c) + Len(name)
      BY ONLY <3>6, ThreeParts
    <3> QED
      BY <3>2, <3>4, <3>5, <3>7
  <2>12. SymbolRead(rest, r) = here(n)
    BY <2>9, <2>10, <2>11
  <2>13. g[n - 1] = {r}
    BY <1>8, <2>7
  <2>14. g[n] = {SymbolRead(rest, r)}
    <3>1. {q \in {r} : SymbolFits(rest, q, limits)} = {r}
      BY <2>9
    <3>2. g[n] = {SymbolRead(rest, q) : q \in {r}}
      BY <1>6, <2>13, <3>1
    <3> QED
      BY <3>2
  <2> QED
    BY <2>1, <2>12, <2>14
<1>9. 0 .. N \subseteq S
  <2> HIDE DEF S
  <2> QED
    BY <1>2, <1>7, <1>8, CountingInduction
<1>10. g[N] = {here(N)}
  <2>1. N \in S
    <3> HIDE DEF S
    <3> QED
      BY <1>2, <1>9
  <2> QED
    BY <2>1
<1>11. here(N) = [at |-> Len(rest) + 1, symbols |-> symbols]
  <2>1. Prefix(symbols, N) = symbols
    BY <1>1, AllOf DEF Prefix
  <2> QED
    BY <1>4, <2>1
<1>12. SymbolsDecode(rest, N, limits) = {symbols}
  <2>1. PICK r : r = [at |-> Len(rest) + 1, symbols |-> symbols]
    OBVIOUS
  <2>2. r.at = Len(rest) + 1 /\ r.symbols = symbols
    BY <2>1
  <2>3. g[N] = {r}
    BY <1>10, <1>11, <2>1
  <2>4. {q \in {r} : q.at = Len(rest) + 1} = {r}
    BY <2>2
  <2>5. SymbolsDecode(rest, N, limits) = {q.symbols : q \in {r}}
    BY <1>6, <2>3, <2>4
  <2> QED
    BY <2>2, <2>5
<1> QED
  BY <1>1, <1>3, <1>12

\* The six fields a file of metadata starts with.
Header(h, a, b, c, d, e) ==
  /\ a \in Nat /\ b \in Nat /\ c \in Seq(Nat) /\ Len(c) = 2 /\ d \in Nat /\ e \in Nat
  /\ h = (<<a, b>> \o c) \o <<d, e>>
LEMMA SixFields ==
  ASSUME NEW h, NEW a, NEW b, NEW c, NEW d, NEW e, Header(h, a, b, c, d, e)
  PROVE  /\ h \in Seq(Nat) /\ Len(h) = 6
         /\ h[1] = a /\ h[2] = b /\ h[3] = c[1] /\ h[4] = c[2] /\ h[5] = d /\ h[6] = e
<1> USE DEF Header
<1>1. PICK x : x = <<a, b>>
  OBVIOUS
<1>2. PICK z : z = <<d, e>>
  OBVIOUS
<1>3. x \in Seq(Nat) /\ z \in Seq(Nat) /\ Len(x) = 2 /\ Len(z) = 2
      /\ x[1] = a /\ x[2] = b /\ z[1] = d /\ z[2] = e
  BY <1>1, <1>2
<1>4. PICK y : y = x \o c
  OBVIOUS
<1>5. y \in Seq(Nat) /\ Len(y) = 4 /\ \A i \in 1 .. 4 : y[i] = IF i <= 2 THEN x[i] ELSE c[i - 2]
  <2>1. /\ y \in Seq(Nat) /\ Len(y) = Len(x) + Len(c)
        /\ \A i \in 1 .. Len(x) + Len(c) : y[i] = IF i <= Len(x) THEN x[i] ELSE c[i - Len(x)]
    BY <1>3, <1>4, ConcatProperties
  <2>2. Len(x) + Len(c) = 4 /\ Len(x) = 2
    BY <1>3
  <2> QED
    BY <2>1, <2>2
<1>6. h = y \o z
  BY <1>1, <1>2, <1>4
<1>7. h \in Seq(Nat) /\ Len(h) = 6 /\ \A i \in 1 .. 6 : h[i] = IF i <= 4 THEN y[i] ELSE z[i - 4]
  <2>1. /\ h \in Seq(Nat) /\ Len(h) = Len(y) + Len(z)
        /\ \A i \in 1 .. Len(y) + Len(z) : h[i] = IF i <= Len(y) THEN y[i] ELSE z[i - Len(y)]
    <3>1. y \in Seq(Nat) /\ z \in Seq(Nat)
      BY <1>3, <1>5
    <3> QED
      BY ONLY <1>6, <3>1, ConcatProperties
  <2>2. Len(y) + Len(z) = 6 /\ Len(y) = 4
    BY <1>3, <1>5
  <2> QED
    BY <2>1, <2>2
<1>8. y[1] = a /\ y[2] = b /\ y[3] = c[1] /\ y[4] = c[2]
  BY ONLY <1>3, <1>5
<1>9. h[1] = a /\ h[2] = b /\ h[3] = c[1] /\ h[4] = c[2] /\ h[5] = d /\ h[6] = e
  BY ONLY <1>3, <1>7, <1>8
<1> QED
  BY <1>7, <1>9

\* RVMETA01: the context, the text and the symbols of a program within the
\* limits are read back as they were written, by the tool and by the guest.
THEOREM MetadataRoundTrip ==
  ASSUME NEW limits \in Limits, NEW m \in Metadata, Within(m, limits)
  PROVE  MetadataDecode(MetadataFields(m), limits) = {m}
<1>1. PICK c : c = m.context
  OBVIOUS
<1>2. PICK source : source = m.source
  OBVIOUS
<1>3. PICK symbols : symbols = m.symbols
  OBVIOUS
<1>4. /\ m = [context |-> c, source |-> source, symbols |-> symbols]
      /\ c \in [1 .. 2 -> Nat] /\ source \in Seq(Nat) /\ symbols \in Seq(Symbol)
  BY <1>1, <1>2, <1>3 DEF Metadata, ContextLen
<1>5. c \in Seq(Nat) /\ Len(c) = 2
  BY <1>4, FunctionIsSeq
<1>6. PICK L : L = Len(source)
  OBVIOUS
<1>7. PICK N : N = Len(symbols)
  OBVIOUS
<1>8. L \in Nat /\ N \in Nat /\ MetadataMagic \in Nat /\ Version \in Nat
  BY <1>4, <1>6, <1>7, LenProperties DEF MetadataMagic, Version
<1>9. L <= limits.source /\ N <= limits.symbols /\ \A n \in DOMAIN symbols : Len(symbols[n].name) <= limits.name
  BY <1>2, <1>3, <1>6, <1>7 DEF Within
<1>0. PICK h : h = (<<MetadataMagic, Version>> \o c) \o <<L, N>>
  OBVIOUS
<1>10. /\ h \in Seq(Nat) /\ Len(h) = 6
       /\ h[1] = MetadataMagic /\ h[2] = Version /\ h[3] = c[1] /\ h[4] = c[2] /\ h[5] = L /\ h[6] = N
  <2>1. Header(h, MetadataMagic, Version, c, L, N)
    BY <1>0, <1>5, <1>8 DEF Header
  <2> QED
    BY ONLY <2>1, SixFields
<1>11. PICK fields : fields = SymbolFields(symbols)
  OBVIOUS
<1>12. fields \in Seq(Nat)
  <2>1. PICK f \in [0 .. N -> Seq(Nat)] : SymbolFields(symbols) = f[N]
    BY <1>4, <1>7, SymbolsEncoded
  <2> QED
    BY <1>8, <1>11, <2>1
<1>13. PICK written : written = MetadataFields(m)
  OBVIOUS
<1>14. Joined(written, h, source, fields)
  <2>1. written = (h \o source) \o fields
    BY <1>0, <1>1, <1>2, <1>3, <1>6, <1>7, <1>11, <1>13 DEF MetadataFields
  <2> QED
    BY <1>4, <1>10, <1>12, <2>1 DEF Joined
<1>15. /\ written \in Seq(Nat) /\ Len(written) = Len(h) + Len(source) + Len(fields)
       /\ \A i \in 1 .. Len(h) : written[i] = h[i]
       /\ SubSeq(written, Len(h) + 1, Len(h) + Len(source)) = source
       /\ From(written, Len(h) + Len(source)) = fields
  BY ONLY <1>14, ThreeParts
<1> DEFINE fixed == 2 + ContextLen + 2
<1>16. fixed = 6 /\ fixed - 1 = 5 /\ 2 + ContextLen = 4
  BY DEF ContextLen
<1>17. /\ written[1] = MetadataMagic /\ written[2] = Version /\ written[3] = c[1] /\ written[4] = c[2]
       /\ written[5] = L /\ written[6] = N
  <2>1. \A i \in 1 .. 6 : written[i] = h[i]
    BY <1>10, <1>15
  <2> QED
    BY ONLY <1>10, <2>1
<1>18. ~(Len(written) < 6) /\ ~(Len(written) < 6 + L)
  <2>1. PICK F : F = Len(fields)
    OBVIOUS
  <2>2. F \in Nat
    BY <1>12, <2>1, LenProperties
  <2>3. Len(written) = 6 + L + F
    BY <1>6, <1>10, <1>15, <2>1
  <2> QED
    BY ONLY <1>8, <2>2, <2>3
<1>19. SubSeq(written, 3, 4) = c
  <2>1. PICK x : x = SubSeq(written, 3, 4)
    OBVIOUS
  <2>2. 3 \in Nat \ {0} /\ 4 \in Nat /\ 4 <= Len(written)
    <3>1. Len(written) \in Nat
      BY <1>15, LenProperties
    <3>2. PICK n : n = Len(written)
      OBVIOUS
    <3>3. n \in Nat /\ ~(n < 6)
      BY <1>18, <3>1, <3>2
    <3> QED
      BY <3>2, <3>3
  <2>3. /\ x \in Seq(Nat) /\ Len(x) = IF 3 <= 4 THEN 4 - 3 + 1 ELSE 0
        /\ \A i \in 1 .. 4 - 3 + 1 : x[i] = written[3 + i - 1]
    <3>1. written \in Seq(Nat)
      BY <1>15
    <3> QED
      BY ONLY <2>1, <2>2, <3>1, PartOf
  <2>4. Len(x) = 2 /\ x[1] = written[3] /\ x[2] = written[4]
    BY ONLY <2>3
  <2>5. Len(x) = Len(c) /\ \A i \in 1 .. Len(x) : x[i] = c[i]
    <3>1. \A i \in 1 .. 2 : i = 1 \/ i = 2
      OBVIOUS
    <3> QED
      BY ONLY <1>5, <1>17, <2>4, <3>1
  <2>6. x = c
    BY ONLY <1>5, <2>3, <2>5, SeqEqual
  <2> QED
    BY <2>1, <2>6
<1>20. SubSeq(written, 6 + 1, 6 + L) = source /\ From(written, 6 + L) = fields
  BY <1>6, <1>10, <1>15
<1>21. SymbolsDecode(fields, N, limits) = {symbols}
  BY <1>4, <1>7, <1>9, <1>11, SymbolsRoundTrip
<1>22. ~(L > limits.source \/ N > limits.symbols)
  <2>1. limits.source \in Nat /\ limits.symbols \in Nat
    BY DEF Limits
  <2> QED
    BY <1>8, <1>9, <2>1
<1>23. MetadataDecode(written, limits)
         = {[context |-> SubSeq(written, 3, 4), source |-> SubSeq(written, 6 + 1, 6 + L), symbols |-> y] :
              y \in SymbolsDecode(From(written, 6 + L), N, limits)}
  <2> HIDE DEF fixed
  <2>1. ~(Len(written) < fixed \/ written[1] # MetadataMagic \/ written[2] # Version)
    BY <1>16, <1>17, <1>18
  <2>2. written[fixed - 1] = L /\ written[fixed] = N
    BY <1>16, <1>17
  <2>3. ~(L > limits.source \/ N > limits.symbols \/ Len(written) < fixed + L)
    BY <1>16, <1>18, <1>22
  <2>4. MetadataDecode(written, limits)
          = {[context |-> SubSeq(written, 3, 2 + ContextLen),
              source |-> SubSeq(written, fixed + 1, fixed + L), symbols |-> y] :
               y \in SymbolsDecode(From(written, fixed + L), N, limits)}
    BY <2>1, <2>2, <2>3, Zenon DEF MetadataDecode, fixed
  <2> QED
    BY <1>16, <2>4
<1>24. MetadataDecode(written, limits) = {[context |-> c, source |-> source, symbols |-> symbols]}
  BY <1>19, <1>20, <1>21, <1>23
<1> QED
  BY <1>4, <1>13, <1>24

LEMMA Four ==
  ASSUME NEW a \in Nat, NEW b \in Nat, NEW c \in Nat, NEW d \in Nat
  PROVE  <<a, b, c, d>> \in Seq(Nat) /\ Len(<<a, b, c, d>>) = 4
OBVIOUS

\* RVPROJ01: a project holds its image and its metadata side by side, and each
\* decoder is given its own.
THEOREM ProjectRoundTrip ==
  ASSUME NEW project \in Project, NEW written \in ProjectEncode(project)
  PROVE  ProjectDecode(written) = {project}
<1>1. project.image \in Image /\ project.metadata \in Metadata
      /\ project = [image |-> project.image, metadata |-> project.metadata]
  BY DEF Project
<1>2. PICK i \in ImageEncode(project.image), m \in MetadataEncode(project.metadata) :
        written = (<<ProjectMagic, Version, Len(i), Len(m)>> \o i) \o m
  BY DEF ProjectEncode
<1>3. i \in Seq(Nat) /\ m \in Seq(Nat)
  BY <1>1, <1>2, ImageEncodeType, MetadataEncodeType
<1>4. ImageDecode(i) = {project.image}
  BY <1>1, ImageRoundTrip
<1>5. MetadataDecode(m, HostLimits) = {project.metadata}
  <2>1. HostLimits \in Limits
    BY FormatAssumption DEF Limits
  <2>2. Within(project.metadata, HostLimits) /\ m = MetadataFields(project.metadata)
    BY DEF MetadataEncode, Within
  <2> QED
    BY <1>1, <2>1, <2>2, MetadataRoundTrip
<1>6. PICK I : I = Len(i)
  OBVIOUS
<1>7. PICK M : M = Len(m)
  OBVIOUS
<1>8. I \in Nat /\ M \in Nat /\ ProjectMagic \in Nat /\ Version \in Nat /\ ProjectHeaderLen = 4
  BY <1>3, <1>6, <1>7, LenProperties DEF ProjectMagic, Version, ProjectHeaderLen
<1>9. PICK h : h = <<ProjectMagic, Version, I, M>>
  OBVIOUS
<1>10. h \in Seq(Nat) /\ Len(h) = 4 /\ h[1] = ProjectMagic /\ h[2] = Version /\ h[3] = I /\ h[4] = M
  BY <1>8, <1>9, Four
<1>11. Joined(written, h, i, m)
  BY <1>2, <1>3, <1>6, <1>7, <1>9, <1>10 DEF Joined
<1>12. /\ Len(written) = Len(h) + Len(i) + Len(m)
       /\ \A k \in 1 .. Len(h) : written[k] = h[k]
       /\ SubSeq(written, Len(h) + 1, Len(h) + Len(i)) = i
       /\ From(written, Len(h) + Len(i)) = m
  BY ONLY <1>11, ThreeParts
<1>13. PICK end : end = ProjectHeaderLen + I
  OBVIOUS
<1>14. SubSeq(written, ProjectHeaderLen + 1, end) = i /\ From(written, end) = m
  BY <1>6, <1>8, <1>10, <1>12, <1>13
<1>15. written[1] = ProjectMagic /\ written[2] = Version /\ written[3] = I /\ written[4] = M
  <2>1. \A k \in 1 .. 4 : written[k] = h[k]
    BY <1>10, <1>12
  <2> QED
    BY ONLY <1>10, <2>1
<1>16. Len(written) = ProjectHeaderLen + I + M /\ ~(Len(written) < ProjectHeaderLen)
  BY <1>6, <1>7, <1>8, <1>10, <1>12
<1>17. ~(\/ Len(written) < ProjectHeaderLen \/ written[1] # ProjectMagic \/ written[2] # Version
        \/ Len(written) # ProjectHeaderLen + written[3] + written[4])
  BY <1>15, <1>16
<1>18. ProjectHeaderLen + written[3] = end
  BY <1>13, <1>15
<1>19. \A p : p \in ProjectDecode(written)
              <=> \E x \in ImageDecode(SubSeq(written, ProjectHeaderLen + 1, end)) :
                    \E y \in MetadataDecode(From(written, end), HostLimits) :
                      p = [image |-> x, metadata |-> y]
  BY <1>17, <1>18 DEF ProjectDecode
<1>20. ImageDecode(SubSeq(written, ProjectHeaderLen + 1, end)) = {project.image}
       /\ MetadataDecode(From(written, end), HostLimits) = {project.metadata}
  BY <1>4, <1>5, <1>14
<1>21. \A p : p \in ProjectDecode(written) <=> p = project
  <2> TAKE p
  <2>1. p \in ProjectDecode(written)
        <=> \E x \in {project.image} : \E y \in {project.metadata} : p = [image |-> x, metadata |-> y]
    <3>1. PICK images : images = ImageDecode(SubSeq(written, ProjectHeaderLen + 1, end))
      OBVIOUS
    <3>2. PICK metadatas : metadatas = MetadataDecode(From(written, end), HostLimits)
      OBVIOUS
    <3>3. p \in ProjectDecode(written) <=> \E x \in images : \E y \in metadatas : p = [image |-> x, metadata |-> y]
      BY ONLY <1>19, <3>1, <3>2
    <3>4. images = {project.image} /\ metadatas = {project.metadata}
      BY <1>20, <3>1, <3>2
    <3> QED
      BY ONLY <3>3, <3>4
  <2> QED
    BY <1>1, <2>1
<1> QED
  BY <1>21

\* The text as lines, and the lines as one text again: nothing of it is lost.
Prepend(x, lines) == <<x>> \o lines
LEMMA FirstLineJoined ==
  ASSUME NEW x \in Seq(Nat), NEW lines \in Seq(Seq(Nat)), lines # <<>>
  PROVE  SourceOf(Prepend(x, lines)) = (x \o <<Newline>>) \o SourceOf(lines)
<1>1. PICK all : all = Prepend(x, lines)
  OBVIOUS
<1>2. PICK N : N = Len(lines)
  OBVIOUS
<1>3. N \in Nat /\ N # 0
  BY <1>2, LenProperties, EmptySeq
<1>4. PICK one : one = <<x>>
  OBVIOUS
<1>5. one \in Seq(Seq(Nat)) /\ Len(one) = 1 /\ one[1] = x
  BY <1>4
<1>6. all \in Seq(Seq(Nat)) /\ Len(all) = N + 1 /\ all[1] = x /\ \A n \in 1 .. N : all[n + 1] = lines[n]
  <2>1. all = one \o lines
    BY <1>1, <1>4 DEF Prepend
  <2>2. /\ all \in Seq(Seq(Nat)) /\ Len(all) = Len(one) + Len(lines)
        /\ \A i \in 1 .. Len(one) + Len(lines) : all[i] = IF i <= Len(one) THEN one[i] ELSE lines[i - Len(one)]
    BY ONLY <1>5, <2>1, lines \in Seq(Seq(Nat)), ConcatProperties
  <2>3. Len(one) + Len(lines) = N + 1 /\ Len(one) = 1
    BY <1>2, <1>3, <1>5
  <2>4. 1 \in 1 .. N + 1 /\ \A n \in 1 .. N : n + 1 \in 1 .. N + 1 /\ ~(n + 1 <= 1) /\ (n + 1) - 1 = n
    BY <1>3
  <2> QED
    BY <1>5, <2>2, <2>3, <2>4
<1>7. PICK f \in [0 .. N + 1 -> Seq(Nat)] :
        /\ SourceOf(all) = f[N + 1] /\ f[0] = <<>>
        /\ \A n \in 1 .. N + 1 : f[n] = f[n - 1] \o (IF n = 1 THEN <<>> ELSE <<Newline>>) \o all[n]
  <2>1. PICK M : M = Len(all)
    OBVIOUS
  <2>2. \E f \in [0 .. M -> Seq(Nat)] :
          /\ SourceOf(all) = f[M] /\ f[0] = <<>>
          /\ \A n \in 1 .. M : f[n] = f[n - 1] \o (IF n = 1 THEN <<>> ELSE <<Newline>>) \o all[n]
    BY <1>6, <2>1, LinesJoined
  <2>3. M = N + 1
    BY <1>6, <2>1
  <2> QED
    BY ONLY <2>2, <2>3
<1>8. PICK h \in [0 .. N -> Seq(Nat)] :
        /\ SourceOf(lines) = h[N] /\ h[0] = <<>>
        /\ \A n \in 1 .. N : h[n] = h[n - 1] \o (IF n = 1 THEN <<>> ELSE <<Newline>>) \o lines[n]
  BY <1>2, LinesJoined
<1>9. PICK nl : nl = <<Newline>>
  OBVIOUS
<1>10. nl \in Seq(Nat) /\ <<>> \in Seq(Nat)
  BY <1>9, EmptySeq DEF Newline
<1>11. PICK y : y = x \o nl
  OBVIOUS
<1>12. y \in Seq(Nat)
  BY <1>10, <1>11, ConcatProperties
<1>13. \A n \in 1 .. N : lines[n] \in Seq(Nat)
  BY <1>2, ElementOfSeq
<1>14. f[1] = x
  <2>1. 1 \in 1 .. N + 1 /\ 1 - 1 = 0
    BY <1>3
  <2>2. f[1] = (<<>> \o <<>>) \o x
    BY <1>6, <1>7, <2>1
  <2> QED
    BY <1>10, <2>2, ConcatEmptySeq
<1> DEFINE S == {n \in 1 .. N : f[n + 1] = y \o h[n]}
           T == {0} \cup S
<1>15. \A n \in 1 .. N : f[n + 1] = (f[n] \o nl) \o lines[n]
  <2> TAKE n \in 1 .. N
  <2>1. n + 1 \in 1 .. N + 1 /\ (n + 1) - 1 = n /\ n + 1 # 1
    BY <1>3
  <2> QED
    BY <1>6, <1>7, <1>9, <2>1
<1>16. 1 \in S
  <2>1. 1 \in 1 .. N /\ 1 - 1 = 0
    BY <1>3
  <2>2. f[1 + 1] = (x \o nl) \o lines[1]
    BY <1>14, <1>15, <2>1
  <2>3. h[1] = (<<>> \o <<>>) \o lines[1]
    BY <1>8, <2>1
  <2>4. h[1] = lines[1]
    BY <1>10, <1>13, <2>1, <2>3, ConcatEmptySeq
  <2> QED
    BY <1>11, <2>1, <2>2, <2>4
<1>17. ASSUME NEW n \in 1 .. N, n - 1 \in T PROVE n \in T
  <2>1. CASE n = 1
    BY <1>16, <2>1
  <2>2. CASE n # 1
    <3>1. PICK m : m = n - 1
      OBVIOUS
    <3>2. m \in 1 .. N /\ m + 1 = n /\ m \in S /\ m \in 0 .. N
      BY <1>3, <1>17, <2>2, <3>1, SMTT(90)
    <3>3. f[n] = y \o h[m]
      BY <3>2
    <3>4. PICK a : a = h[m]
      OBVIOUS
    <3>5. PICK b : b = lines[n]
      OBVIOUS
    <3>6. a \in Seq(Nat) /\ b \in Seq(Nat) /\ a \o nl \in Seq(Nat)
      BY <1>10, <1>13, <3>2, <3>4, <3>5, ConcatProperties
    <3>7. h[n] = (a \o nl) \o b
      BY <1>8, <1>9, <2>2, <3>1, <3>4, <3>5
    <3>8. f[n + 1] = ((y \o a) \o nl) \o b
      BY <1>15, <3>3, <3>4, <3>5
    <3>9. (y \o a) \o nl = y \o (a \o nl)
      BY ONLY <1>10, <1>12, <3>6, Grouping, ZenonT(60)
    <3>10. (y \o (a \o nl)) \o b = y \o ((a \o nl) \o b)
      BY ONLY <1>12, <3>6, Grouping
    <3>11. f[n + 1] = y \o h[n]
      BY <3>7, <3>8, <3>9, <3>10
    <3> QED
      BY <3>11
  <2> QED
    BY <2>1, <2>2
<1>18. 0 .. N \subseteq T
  <2>1. 0 \in T
    OBVIOUS
  <2> HIDE DEF T
  <2> QED
    BY <1>3, <1>17, <2>1, CountingInduction
<1>19. N \in S
  <2>1. N \in 0 .. N /\ N # 0
    BY <1>3
  <2> HIDE DEF S
  <2> QED
    BY <1>18, <2>1
<1>20. f[N + 1] = y \o h[N]
  BY <1>19
<1> QED
  BY <1>1, <1>7, <1>8, <1>9, <1>11, <1>20

LEMMA OneLineJoined == ASSUME NEW x \in Seq(Nat) PROVE SourceOf(<<x>>) = x
<1>1. PICK lines : lines = <<x>>
  OBVIOUS
<1>2. lines \in Seq(Seq(Nat)) /\ Len(lines) = 1 /\ lines[1] = x
  BY <1>1
<1>3. PICK M : M = Len(lines)
  OBVIOUS
<1>4. PICK f \in [0 .. M -> Seq(Nat)] :
        /\ SourceOf(lines) = f[M] /\ f[0] = <<>>
        /\ \A n \in 1 .. M : f[n] = f[n - 1] \o (IF n = 1 THEN <<>> ELSE <<Newline>>) \o lines[n]
  BY <1>2, <1>3, LinesJoined
<1>5. M = 1 /\ 1 \in 1 .. M /\ 1 - 1 = 0
  BY <1>2, <1>3
<1>6. f[1] = (<<>> \o <<>>) \o x
  BY <1>2, <1>4, <1>5
<1> QED
  BY <1>1, <1>4, <1>5, <1>6, ConcatEmptySeq, EmptySeq

LEMMA FirstNewline ==
  ASSUME NEW source \in Seq(Nat), NEW at \in Nat \ {0}, NEW i \in at .. Len(source), source[i] = Newline
  PROVE  \E end : Cut(source, at, end)
<1>1. PICK L : L = Len(source)
  OBVIOUS
<1>2. L \in Nat
  BY <1>1, LenProperties
<1> DEFINE N == {k \in at .. L : source[k] = Newline}
<1>3. N \subseteq Nat /\ N # {}
  BY <1>1, <1>2
<1>4. PICK end \in N : \A k \in N : end <= k
  <2> HIDE DEF N
  <2> QED
    BY <1>3, Least
<1>5. end \in at .. L /\ source[end] = Newline
  OBVIOUS
<1>6. \A k \in at .. end - 1 : source[k] # Newline
  BY <1>2, <1>4, <1>5
<1> QED
  BY <1>1, <1>5, <1>6 DEF Cut

\* decode_guest_metadata and build_snapshot_metadata: the text the guest keeps
\* as lines is the text it was sent, wherever its newlines are.
THEOREM TextRoundTrip ==
  ASSUME NEW source \in Seq(Nat), NEW lines \in LinesDecode(source)
  PROVE  SourceOf(lines) = source
<1>1. PICK L : L = Len(source)
  OBVIOUS
<1>2. L \in Nat
  BY <1>1, LenProperties
<1>3. CASE source = <<>>
  <2>1. lines = <<>>
    BY <1>3 DEF LinesDecode
  <2>2. <<>> \in Seq(Seq(Nat)) /\ Len(<<>>) = 0
    BY EmptySeq
  <2>3. SourceOf(<<>>) = <<>>
    BY <2>2, LinesJoined
  <2> QED
    BY <1>3, <2>1, <2>3
<1>4. CASE source # <<>>
  <2>1. lines = LinesOf(source)
    BY <1>4 DEF LinesDecode
  <2>2. PICK g \in [1 .. L + 1 -> Seq(Seq(Nat))] :
          /\ LinesOf(source) = g[1]
          /\ \A at \in 1 .. L + 1 :
               /\ (\A i \in at .. L : source[i] # Newline) => g[at] = <<From(source, at - 1)>>
               /\ \A end : Cut(source, at, end) => g[at] = <<SubSeq(source, at, end - 1)>> \o g[end + 1]
    BY <1>1, LinesSplit
  <2> DEFINE cut(at) == CHOOSE end : Cut(source, at, end)
  <2>3. PICK next : next = [at \in 1 .. L |-> IF \E end : Cut(source, at, end) THEN cut(at) + 1 ELSE L + 1]
    OBVIOUS
  <2>4. \A at \in 1 .. L + 1 : \A end : Cut(source, at, end) => end \in at .. L /\ source[end] = Newline
    BY <1>1 DEF Cut
  <2>5. \A at \in 1 .. L : (\E end : Cut(source, at, end)) => Cut(source, at, cut(at)) /\ next[at] = cut(at) + 1
    BY <2>3
  <2>6. \A at \in 1 .. L : ~(\E end : Cut(source, at, end)) => next[at] = L + 1
    BY <2>3
  <2> HIDE DEF cut
  <2>7. next \in [1 .. L -> 1 .. L + 1] /\ \A at \in 1 .. L : next[at] > at
    <3>1. \A at \in 1 .. L : next[at] \in 1 .. L + 1 /\ next[at] > at
      <4> TAKE at \in 1 .. L
      <4>1. CASE \E end : Cut(source, at, end)
        <5>1. cut(at) \in at .. L /\ next[at] = cut(at) + 1
          BY <1>2, <2>4, <2>5, <4>1
        <5> QED
          BY <1>2, <5>1
      <4>2. CASE ~(\E end : Cut(source, at, end))
        <5>1. next[at] = L + 1
          BY <2>6, <4>2
        <5> QED
          BY <1>2, <5>1
      <4> QED
        BY <4>1, <4>2
    <3> QED
      BY <2>3, <3>1
  <2> DEFINE S == {at \in 1 .. L + 1 : g[at] # <<>> /\ SourceOf(g[at]) = From(source, at - 1)}
  <2>8. ASSUME NEW at \in 1 .. L + 1, ~(\E end : Cut(source, at, end)) PROVE at \in S
    <3>1. \A i \in at .. L : source[i] # Newline
      BY <1>1, <1>2, <2>8, FirstNewline
    <3>2. PICK x : x = From(source, at - 1)
      OBVIOUS
    <3>3. x \in Seq(Nat) /\ g[at] = <<x>>
      <4>1. at - 1 \in Nat
        BY <1>2
      <4> QED
        BY <2>2, <3>1, <3>2, <4>1, FromOf
    <3>4. SourceOf(<<x>>) = x /\ <<x>> # <<>>
      BY <3>3, OneLineJoined
    <3> QED
      BY <3>2, <3>3, <3>4
  <2>9. L + 1 \in S
    <3>1. L + 1 \in 1 .. L + 1
      BY <1>2
    <3>2. ~(\E end : Cut(source, L + 1, end))
      BY <1>2, <2>4, <3>1
    <3> QED
      BY <2>8, <3>1, <3>2
  <2>10. ASSUME NEW at \in 1 .. L, next[at] \in S PROVE at \in S
    <3>1. CASE ~(\E end : Cut(source, at, end))
      BY <1>2, <2>8, <3>1
    <3>2. CASE \E end : Cut(source, at, end)
      <4>1. PICK end : end = cut(at)
        OBVIOUS
      <4>2. Cut(source, at, end) /\ next[at] = end + 1 /\ at \in 1 .. L + 1
        BY <1>2, <2>5, <3>2, <4>1
      <4>3. end \in at .. L /\ source[end] = Newline
        BY <2>4, <4>2
      <4>4. PICK a : a = at - 1
        OBVIOUS
      <4>5. PICK b : b = end - 1
        OBVIOUS
      <4>6. a \in Nat /\ b \in Nat /\ a <= b /\ a + 1 = at /\ b + 1 = end /\ b <= end /\ end \in Nat
            /\ end <= L /\ end + 1 \in 1 .. L + 1 /\ (end + 1) - 1 = end /\ b <= L /\ end - b = 1
        BY <1>2, <4>3, <4>4, <4>5
      <4>7. PICK rest : rest = g[end + 1]
        OBVIOUS
      <4>8. rest \in Seq(Seq(Nat)) /\ rest # <<>> /\ SourceOf(rest) = From(source, end)
        BY <2>10, <4>2, <4>6, <4>7
      <4>9. PICK x : x = SubSeq(source, a + 1, b)
        OBVIOUS
      <4>10. x \in Seq(Nat)
        <5>1. b <= Len(source)
          BY <1>1, <4>6
        <5> QED
          BY <4>6, <4>9, <5>1, PartAt DEF Part
      <4>11. g[at] = Prepend(x, rest)
        BY <2>2, <4>2, <4>5, <4>6, <4>7, <4>9 DEF Prepend
      <4>12. SourceOf(g[at]) = (x \o <<Newline>>) \o From(source, end)
        BY <4>8, <4>10, <4>11, FirstLineJoined
      <4>13. SubSeq(source, b + 1, end) = <<Newline>>
        <5>1. PICK y : y = Part(source, b, end)
          OBVIOUS
        <5>2. end <= Len(source)
          BY <1>1, <4>6
        <5>3. y \in Seq(Nat) /\ Len(y) = end - b /\ \A i \in 1 .. end - b : y[i] = source[b + i]
          BY ONLY source \in Seq(Nat), <4>6, <5>1, <5>2, PartAt
        <5>4. PICK z : z = <<Newline>>
          OBVIOUS
        <5>5. z \in Seq(Nat) /\ Len(z) = 1 /\ z[1] = Newline
          BY <5>4 DEF Newline
        <5>6. Len(y) = Len(z) /\ \A i \in 1 .. Len(y) : y[i] = z[i]
          BY <4>3, <4>6, <5>3, <5>5
        <5>7. y = z
          BY ONLY <5>3, <5>5, <5>6, SeqEqual
        <5> QED
          BY <5>1, <5>4, <5>7 DEF Part
      <4>14. SubSeq(source, a + 1, b) \o SubSeq(source, b + 1, end) = SubSeq(source, a + 1, end)
        <5>1. Apart(source, a, b, end)
          BY <1>1, <4>6 DEF Apart
        <5>2. Part(source, a, b) \o Part(source, b, end) = Part(source, a, end)
          BY ONLY <5>1, SplitAt
        <5> QED
          BY <5>2 DEF Part
      <4>15. SubSeq(source, a + 1, end) \o SubSeq(source, end + 1, L) = SubSeq(source, a + 1, L)
        <5>1. Apart(source, a, end, L)
          BY <1>1, <1>2, <4>6 DEF Apart
        <5>2. Part(source, a, end) \o Part(source, end, L) = Part(source, a, L)
          BY ONLY <5>1, SplitAt
        <5> QED
          BY <5>2 DEF Part
      <4>16. From(source, end) = SubSeq(source, end + 1, L) /\ From(source, a) = SubSeq(source, a + 1, L)
        BY <1>1 DEF From
      <4>17. SourceOf(g[at]) = From(source, at - 1)
        BY <4>4, <4>9, <4>12, <4>13, <4>14, <4>15, <4>16
      <4>18. g[at] # <<>>
        <5>1. PICK one : one = <<x>>
          OBVIOUS
        <5>2. one \in Seq(Seq(Nat)) /\ one # <<>>
          BY <4>10, <5>1
        <5>3. one \o rest # <<>>
          BY ONLY <4>8, <5>2, ConcatEqualIffEmpty
        <5> QED
          BY <4>11, <5>1, <5>3 DEF Prepend
      <4> QED
        BY <4>2, <4>17, <4>18
    <3> QED
      BY <3>1, <3>2
  <2>11. 1 .. L + 1 \subseteq S
    <3> HIDE DEF S
    <3> QED
      BY <1>2, <2>7, <2>9, <2>10, BackwardInduction
  <2>12. 1 \in S
    <3> HIDE DEF S
    <3> QED
      BY <1>2, <2>11
  <2>13. From(source, 1 - 1) = source
    BY AllOf DEF From
  <2> QED
    BY <2>1, <2>2, <2>12, <2>13
<1> QED
  BY <1>3, <1>4

\* And so what the guest sends back of a program is what it was sent: the same
\* file, if it fits the bytes one answer may have.
THEOREM GuestKeepsMetadata ==
  ASSUME NEW m \in Metadata, Within(m, GuestLimits), NEW kept \in GuestDecode(MetadataFields(m))
  PROVE  /\ kept.context = m.context /\ kept.symbols = m.symbols /\ SourceOf(kept.source) = m.source
         /\ GuestMetadata(kept) \subseteq {MetadataFields(m)}
<1>1. GuestLimits \in Limits
  BY FormatAssumption DEF Limits
<1>2. MetadataDecode(MetadataFields(m), GuestLimits) = {m}
  BY <1>1, MetadataRoundTrip
<1>3. \E lines \in LinesDecode(m.source) :
        kept = [context |-> m.context, source |-> lines, symbols |-> m.symbols]
  BY <1>2 DEF GuestDecode
<1>4. PICK lines \in LinesDecode(m.source) :
        kept = [context |-> m.context, source |-> lines, symbols |-> m.symbols]
  BY <1>3
<1>5. m.source \in Seq(Nat)
      /\ m = [context |-> m.context, source |-> m.source, symbols |-> m.symbols]
  BY DEF Metadata
<1>6. SourceOf(lines) = m.source
  BY <1>5, TextRoundTrip
<1>7. kept.context = m.context /\ kept.symbols = m.symbols /\ SourceOf(kept.source) = m.source
  BY <1>4, <1>6
<1>8. [context |-> kept.context, source |-> SourceOf(kept.source), symbols |-> kept.symbols] = m
  BY <1>5, <1>7
<1>9. GuestMetadata(kept) \subseteq {MetadataFields(m)}
  BY <1>8 DEF GuestMetadata
<1> QED
  BY <1>7, <1>9

\* The fields of one symbol more.
Fields(y) == <<y.address, Len(y.name)>> \o y.name
LEMMA OneMoreSymbol ==
  ASSUME NEW symbols \in Seq(Symbol), NEW y \in Symbol
  PROVE  SymbolFields(Append(symbols, y)) = SymbolFields(symbols) \o Fields(y)
<1>1. PICK N : N = Len(symbols)
  OBVIOUS
<1>2. PICK all : all = Append(symbols, y)
  OBVIOUS
<1>3. N \in Nat /\ \A n \in 1 .. N : symbols[n] \in Symbol
  BY <1>1, LenProperties, ElementOfSeq
<1>4. all \in Seq(Symbol) /\ Len(all) = N + 1 /\ all[N + 1] = y /\ \A n \in 1 .. N : all[n] = symbols[n]
  BY <1>1, <1>2, AppendProperties
<1>5. PICK M : M = Len(all)
  OBVIOUS
<1>6. M = N + 1
  BY <1>4, <1>5
<1>7. PICK f \in [0 .. M -> Seq(Nat)] :
        /\ SymbolFields(all) = f[M] /\ f[0] = <<>>
        /\ \A n \in 1 .. M : f[n] = f[n - 1] \o <<all[n].address, Len(all[n].name)>> \o all[n].name
  BY <1>4, <1>5, SymbolsEncoded
<1>8. PICK h \in [0 .. N -> Seq(Nat)] :
        /\ SymbolFields(symbols) = h[N] /\ h[0] = <<>>
        /\ \A n \in 1 .. N : h[n] = h[n - 1] \o <<symbols[n].address, Len(symbols[n].name)>> \o symbols[n].name
  BY <1>1, SymbolsEncoded
<1> DEFINE S == {n \in 0 .. N : f[n] = h[n]}
<1>9. 0 \in S
  BY <1>3, <1>7, <1>8
<1>10. ASSUME NEW n \in 1 .. N, n - 1 \in S PROVE n \in S
  <2>1. n \in 1 .. M /\ n \in 0 .. N /\ all[n] = symbols[n] /\ f[n - 1] = h[n - 1]
    BY <1>3, <1>4, <1>6, <1>10
  <2>2. f[n] = h[n]
    BY <1>7, <1>8, <2>1
  <2> QED
    BY <2>1, <2>2
<1>11. 0 .. N \subseteq S
  <2> HIDE DEF S
  <2> QED
    BY <1>3, <1>9, <1>10, CountingInduction
<1>12. N \in S
  <2> HIDE DEF S
  <2> QED
    BY <1>3, <1>11
<1>13. f[N] = h[N] /\ h[N] \in Seq(Nat)
  BY <1>3, <1>12
<1>14. f[N + 1] = (f[N] \o <<y.address, Len(y.name)>>) \o y.name
  <2>1. N + 1 \in 1 .. M /\ (N + 1) - 1 = N
    BY <1>3, <1>6
  <2> QED
    BY <1>4, <1>7, <2>1
<1>15. PICK c : c = <<y.address, Len(y.name)>>
  OBVIOUS
<1>16. c \in Seq(Nat) /\ y.name \in Seq(Nat)
  <2>1. y.address \in Nat /\ y.name \in Seq(Nat)
    BY DEF Symbol
  <2>2. Len(y.name) \in Nat
    BY <2>1, LenProperties
  <2> QED
    BY <1>15, <2>1, <2>2
<1>17. (h[N] \o c) \o y.name = h[N] \o (c \o y.name)
  <2>1. PICK a : a = h[N]
    OBVIOUS
  <2>2. PICK b : b = y.name
    OBVIOUS
  <2>3. a \in Seq(Nat) /\ b \in Seq(Nat) /\ c \in Seq(Nat)
    BY <1>13, <1>16, <2>1, <2>2
  <2>4. (a \o c) \o b = a \o (c \o b)
    BY ONLY <2>3, Grouping
  <2> QED
    BY <2>1, <2>2, <2>4
<1> QED
  BY <1>2, <1>6, <1>7, <1>8, <1>13, <1>14, <1>15, <1>17 DEF Fields

\* Where the decoder stands, what it has read is all there was before.
Stands(rest, limits, r) ==
  /\ rest \in Seq(Nat) /\ r \in Reading(limits)
  /\ r.at - 1 <= Len(rest) /\ SymbolFields(r.symbols) = Part(rest, 0, r.at - 1)
LEMMA StandsNext ==
  ASSUME NEW rest, NEW limits, NEW r, Stands(rest, limits, r), SymbolFits(rest, r, limits)
  PROVE  Stands(rest, limits, SymbolRead(rest, r))
<1> USE DEF Stands
<1>1. PICK L : L = Len(rest)
  OBVIOUS
<1>2. PICK at : at = r.at
  OBVIOUS
<1>3. L \in Nat /\ (\A i \in 1 .. L : rest[i] \in Nat) /\ at \in Nat \ {0}
  BY <1>1, <1>2, LenProperties, ElementOfSeq DEF Reading
<1>4. PICK length : length = rest[at + 1]
  OBVIOUS
<1>5. PICK end : end = at + 1 + length
  OBVIOUS
<1>6. at < L /\ end <= L
  BY <1>1, <1>2, <1>4, <1>5 DEF SymbolFits
<1>7. length \in Nat /\ rest[at] \in Nat
  BY <1>3, <1>4, <1>6
<1>8. PICK b : b = at - 1
  OBVIOUS
<1>9. /\ b \in Nat /\ end \in Nat /\ at + 1 \in Nat /\ b <= at + 1 /\ at + 1 <= end /\ end <= Len(rest)
      /\ 0 <= b /\ b <= end /\ at + 1 <= Len(rest) /\ (at + 1) - b = 2 /\ end - (at + 1) = length
      /\ b + 1 = at /\ b + 2 = at + 1 /\ (end + 1) - 1 = end /\ at + 2 = (at + 1) + 1
  BY <1>1, <1>3, <1>5, <1>6, <1>7, <1>8
<1>10. PICK name : name = Part(rest, at + 1, end)
  OBVIOUS
<1>11. name \in Seq(Nat) /\ Len(name) = length
  BY <1>9, <1>10, PartAt
<1>12. PICK y : y = [address |-> rest[at], name |-> name]
  OBVIOUS
<1>13. y \in Symbol /\ y.address = rest[at] /\ y.name = name
  BY <1>7, <1>11, <1>12 DEF Symbol
<1>14. SymbolRead(rest, r) = [at |-> end + 1, symbols |-> Append(r.symbols, y)]
  BY <1>2, <1>4, <1>5, <1>9, <1>10, <1>12 DEF SymbolRead, Part
<1>15. r.symbols \in Seq(Symbol)
  <2>1. r.symbols \in Seq({z \in Symbol : Len(z.name) <= limits.name})
    BY DEF Reading, SymbolsWithin
  <2> QED
    BY <2>1
<1>16. SymbolFields(Append(r.symbols, y)) = Part(rest, 0, b) \o Fields(y)
  BY <1>2, <1>8, <1>13, <1>15, OneMoreSymbol
<1>17. <<rest[at], length>> = Part(rest, b, at + 1)
  <2>1. PICK c : c = <<rest[at], length>>
    OBVIOUS
  <2>2. c \in Seq(Nat) /\ Len(c) = 2 /\ c[1] = rest[at] /\ c[2] = length
    BY <1>7, <2>1
  <2>3. PICK d : d = Part(rest, b, at + 1)
    OBVIOUS
  <2>4. d \in Seq(Nat) /\ Len(d) = (at + 1) - b /\ \A i \in 1 .. (at + 1) - b : d[i] = rest[b + i]
    BY <1>9, <2>3, PartAt
  <2>5. Len(d) = 2 /\ d[1] = rest[b + 1] /\ d[2] = rest[b + 2]
    <3>1. (at + 1) - b = 2
      BY <1>9
    <3>2. Len(d) = 2 /\ \A i \in 1 .. 2 : d[i] = rest[b + i]
      BY ONLY <2>4, <3>1
    <3> QED
      BY ONLY <3>2
  <2>6. d[1] = c[1] /\ d[2] = c[2]
    BY <1>4, <1>9, <2>2, <2>5
  <2>7. \A i \in 1 .. 2 : i = 1 \/ i = 2
    OBVIOUS
  <2>8. Len(c) = Len(d) /\ \A i \in 1 .. Len(c) : c[i] = d[i]
    BY <2>2, <2>5, <2>6, <2>7
  <2>9. c = d
    BY ONLY <2>2, <2>4, <2>8, SeqEqual
  <2> QED
    BY <2>1, <2>3, <2>9
<1>18. Fields(y) = Part(rest, b, at + 1) \o Part(rest, at + 1, end)
  BY <1>10, <1>11, <1>13, <1>17 DEF Fields
<1>19. Part(rest, b, at + 1) \o Part(rest, at + 1, end) = Part(rest, b, end)
  <2>1. PICK a : a = at + 1
    OBVIOUS
  <2>2. Apart(rest, b, a, end)
    BY <1>9, <2>1 DEF Apart
  <2>3. Part(rest, b, a) \o Part(rest, a, end) = Part(rest, b, end)
    BY ONLY <2>2, SplitAt
  <2> QED
    BY <2>1, <2>3
<1>20. Part(rest, 0, b) \o Part(rest, b, end) = Part(rest, 0, end)
  <2>1. Apart(rest, 0, b, end)
    BY <1>9 DEF Apart
  <2> QED
    BY ONLY <2>1, SplitAt
<1>21. SymbolFields(Append(r.symbols, y)) = Part(rest, 0, end)
  BY <1>16, <1>18, <1>19, <1>20
<1>22. SymbolRead(rest, r) \in Reading(limits)
  BY SymbolReads
<1> QED
  BY <1>9, <1>14, <1>21, <1>22

LEMMA SymbolsUnique ==
  ASSUME NEW rest \in Seq(Nat), NEW count \in Nat, NEW limits, NEW symbols \in SymbolsDecode(rest, count, limits)
  PROVE  SymbolFields(symbols) = rest
<1>1. PICK g \in [0 .. count -> SUBSET Reading(limits)] :
        /\ SymbolsDecode(rest, count, limits) = {r.symbols : r \in {q \in g[count] : q.at = Len(rest) + 1}}
        /\ g[0] = {[at |-> 1, symbols |-> <<>>]}
        /\ \A n \in 1 .. count : g[n] = {SymbolRead(rest, r) : r \in {q \in g[n - 1] : SymbolFits(rest, q, limits)}}
  BY SymbolsReads, SMTT(30)
<1> DEFINE S == {n \in 0 .. count : \A r \in g[n] : Stands(rest, limits, r)}
<1>2. 0 \in S
  <2>1. PICK r : r = [at |-> 1, symbols |-> <<>>]
    OBVIOUS
  <2>2. 0 \in 0 .. count
    OBVIOUS
  <2>3. r \in g[0] /\ r \in Reading(limits)
    <3>1. r \in g[0]
      BY <1>1, <2>1
    <3> QED
      BY <2>2, <3>1
  <2>4. r.at - 1 = 0 /\ r.symbols = <<>>
    BY <2>1
  <2>5. SymbolFields(<<>>) = <<>>
    <3>1. <<>> \in Seq(Symbol) /\ Len(<<>>) = 0
      BY EmptySeq
    <3> QED
      BY <3>1, SymbolsEncoded
  <2>6. Part(rest, 0, 0) = <<>>
    BY SubSeqEmpty DEF Part
  <2>7. 0 <= Len(rest)
    BY LenProperties
  <2>8. Stands(rest, limits, r)
    BY <2>3, <2>4, <2>5, <2>6, <2>7 DEF Stands
  <2> QED
    BY <1>1, <2>1, <2>2, <2>8
<1>3. ASSUME NEW n \in 1 .. count, n - 1 \in S PROVE n \in S
  <2>1. n \in 0 .. count
    OBVIOUS
  <2>2. ASSUME NEW r \in g[n] PROVE Stands(rest, limits, r)
    <3>1. PICK q \in g[n - 1] : SymbolFits(rest, q, limits) /\ r = SymbolRead(rest, q)
      BY <1>1
    <3>2. Stands(rest, limits, q)
      BY <1>3, <3>1
    <3>3. Stands(rest, limits, SymbolRead(rest, q))
      BY <3>1, <3>2, StandsNext
    <3> QED
      BY <3>1, <3>3
  <2> QED
    BY <2>1, <2>2
<1>4. 0 .. count \subseteq S
  <2> HIDE DEF S
  <2> QED
    BY <1>2, <1>3, CountingInduction
<1>5. PICK r \in g[count] : r.at = Len(rest) + 1 /\ symbols = r.symbols
  BY <1>1
<1>6. Stands(rest, limits, r)
  <2>1. count \in S
    <3> HIDE DEF S
    <3> QED
      BY <1>4
  <2> QED
    BY <2>1, <1>5
<1>7. r.at - 1 = Len(rest)
  <2>1. Len(rest) \in Nat
    BY LenProperties
  <2> QED
    BY <1>5, <2>1
<1>8. Part(rest, 0, Len(rest)) = rest
  BY AllOf DEF Part
<1> QED
  BY <1>5, <1>6, <1>7, <1>8 DEF Stands

\* A file of metadata that is read is the one its contents are written as.
THEOREM MetadataFileUnique ==
  ASSUME NEW limits \in Limits, NEW read \in Seq(Nat), NEW m \in MetadataDecode(read, limits)
  PROVE  MetadataFields(m) = read
<1>1. PICK K : K = Len(read)
  OBVIOUS
<1> DEFINE fixed == 2 + ContextLen + 2
<1>2. fixed = 6 /\ fixed - 1 = 5 /\ 2 + ContextLen = 4
  BY DEF ContextLen
<1>3. ~(K < fixed \/ read[1] # MetadataMagic \/ read[2] # Version)
  BY <1>1 DEF MetadataDecode
<1>4. K \in Nat /\ K >= 6 /\ \A i \in 1 .. K : read[i] \in Nat
  BY <1>1, <1>2, <1>3, LenProperties, ElementOfSeq
<1>5. PICK L : L = read[5]
  OBVIOUS
<1>6. PICK N : N = read[6]
  OBVIOUS
<1>7. L \in Nat /\ N \in Nat
  BY <1>4, <1>5, <1>6
<1>8. /\ ~(L > limits.source \/ N > limits.symbols \/ K < fixed + L)
      /\ \E symbols \in SymbolsDecode(From(read, fixed + L), N, limits) :
           m = [context |-> SubSeq(read, 3, 2 + ContextLen),
                source |-> SubSeq(read, fixed + 1, fixed + L), symbols |-> symbols]
  <2>1. read[fixed - 1] = L /\ read[fixed] = N
    BY <1>2, <1>5, <1>6
  <2> QED
    BY <1>1, <1>3, <2>1 DEF MetadataDecode
<1>9. PICK end : end = 6 + L
  OBVIOUS
<1>10. /\ end \in Nat /\ 6 <= end /\ end <= Len(read) /\ end - 6 = L /\ fixed + L = end /\ K <= Len(read)
       /\ 6 \in Nat /\ 0 \in Nat /\ 0 <= 6 /\ 0 <= end /\ K \in Nat /\ end <= K /\ 6 <= Len(read) /\ 2 <= 4 /\ 4 <= Len(read)
  BY <1>1, <1>2, <1>4, <1>7, <1>8, <1>9, SMTT(30)
<1>11. PICK c : c = Part(read, 2, 4)
  OBVIOUS
<1>12. PICK source : source = Part(read, 6, end)
  OBVIOUS
<1>13. PICK rest : rest = From(read, end)
  OBVIOUS
<1>14. PICK symbols \in SymbolsDecode(rest, N, limits) :
         m = [context |-> c, source |-> source, symbols |-> symbols]
  <2>1. c = SubSeq(read, 3, 2 + ContextLen) /\ source = SubSeq(read, fixed + 1, fixed + L)
    <3>1. 2 + 1 = 3 /\ fixed + 1 = 6 + 1
      BY <1>2
    <3>2. c = SubSeq(read, 2 + 1, 4)
      BY <1>11 DEF Part
    <3>3. source = SubSeq(read, 6 + 1, end)
      BY <1>12 DEF Part
    <3> HIDE DEF fixed
    <3> QED
      BY <1>2, <1>10, <3>1, <3>2, <3>3
  <2>2. rest = From(read, fixed + L)
    BY <1>10, <1>13
  <2> HIDE DEF fixed
  <2>3. \E x \in SymbolsDecode(rest, N, limits) : m = [context |-> c, source |-> source, symbols |-> x]
    BY <1>8, <2>1, <2>2
  <2> QED
    BY <2>3
<1>15. c \in Seq(Nat) /\ Len(c) = 2 /\ c[1] = read[3] /\ c[2] = read[4]
  <2>1. c \in Seq(Nat) /\ Len(c) = 4 - 2 /\ \A i \in 1 .. 4 - 2 : c[i] = read[2 + i]
    <3>1. read \in Seq(Nat) /\ 2 \in Nat /\ 4 \in Nat /\ 2 <= 4 /\ 4 <= Len(read)
      BY <1>10
    <3>2. PICK a : a = 2
      OBVIOUS
    <3>3. PICK b : b = 4
      OBVIOUS
    <3>4. a \in Nat /\ b \in Nat /\ a <= b /\ b <= Len(read) /\ c = Part(read, a, b)
      BY <1>11, <3>1, <3>2, <3>3
    <3>5. c \in Seq(Nat) /\ Len(c) = b - a /\ \A i \in 1 .. b - a : c[i] = read[a + i]
      BY ONLY <3>1, <3>4, PartAt
    <3> QED
      BY <3>2, <3>3, <3>5
  <2> QED
    BY ONLY <2>1
<1>16. source \in Seq(Nat) /\ Len(source) = L
  BY <1>10, <1>12, PartAt
<1>17. rest \in Seq(Nat)
  BY <1>10, <1>13, FromOf
<1>18. SymbolFields(symbols) = rest
  BY <1>7, <1>14, <1>17, SymbolsUnique
<1>19. Len(symbols) = N
  <2>1. \A y \in SymbolsDecode(rest, N, limits) : Len(y) = N
    BY <1>7, <1>17, SymbolsDecoded
  <2> QED
    BY <1>14, <2>1
<1>20. PICK h : h = (<<MetadataMagic, Version>> \o c) \o <<L, N>>
  OBVIOUS
<1>21. /\ h \in Seq(Nat) /\ Len(h) = 6
       /\ h[1] = MetadataMagic /\ h[2] = Version /\ h[3] = c[1] /\ h[4] = c[2] /\ h[5] = L /\ h[6] = N
  <2>1. MetadataMagic \in Nat /\ Version \in Nat
    BY DEF MetadataMagic, Version
  <2>2. Header(h, MetadataMagic, Version, c, L, N)
    BY <1>7, <1>15, <1>20, <2>1 DEF Header
  <2> QED
    BY ONLY <2>2, SixFields
<1>22. h = Part(read, 0, 6)
  <2>1. PICK t : t = Part(read, 0, 6)
    OBVIOUS
  <2>2. t \in Seq(Nat) /\ Len(t) = 6 - 0 /\ \A i \in 1 .. 6 - 0 : t[i] = read[0 + i]
    BY <1>10, <2>1, PartAt
  <2>3. /\ Len(t) = 6 /\ t[1] = read[1] /\ t[2] = read[2] /\ t[3] = read[3] /\ t[4] = read[4]
        /\ t[5] = read[5] /\ t[6] = read[6]
    BY ONLY <2>2
  <2>4. read[1] = MetadataMagic /\ read[2] = Version
    BY <1>3
  <2>5. \A i \in 1 .. 6 : i = 1 \/ i = 2 \/ i = 3 \/ i = 4 \/ i = 5 \/ i = 6
    OBVIOUS
  <2>6. Len(h) = Len(t) /\ \A i \in 1 .. Len(h) : h[i] = t[i]
    BY ONLY <1>5, <1>6, <1>15, <1>21, <2>3, <2>4, <2>5
  <2>7. h = t
    BY ONLY <1>21, <2>2, <2>6, SeqEqual
  <2> QED
    BY <2>1, <2>7
<1>23. MetadataFields(m) = (h \o source) \o rest
  <2>1. m.context = c /\ m.source = source /\ m.symbols = symbols
    BY <1>14
  <2> QED
    BY <1>16, <1>18, <1>19, <1>20, <2>1 DEF MetadataFields
<1>24. h \o source = Part(read, 0, end)
  <2>1. Apart(read, 0, 6, end)
    BY <1>10 DEF Apart
  <2>2. Part(read, 0, 6) \o Part(read, 6, end) = Part(read, 0, end)
    BY ONLY <2>1, SplitAt
  <2> QED
    BY <1>12, <1>22, <2>2
<1>25. Part(read, 0, end) \o Part(read, end, K) = Part(read, 0, K)
  <2>1. Apart(read, 0, end, K)
    BY <1>10 DEF Apart
  <2> QED
    BY ONLY <2>1, SplitAt
<1>26. rest = Part(read, end, K) /\ Part(read, 0, K) = read
  BY <1>1, <1>13, AllOf DEF From, Part
<1> QED
  BY <1>23, <1>24, <1>25, <1>26

\* And so the guest sends back every file of metadata it accepts as it came.
THEOREM GuestReturnsTheFile ==
  ASSUME NEW read \in Seq(Nat), NEW kept \in GuestDecode(read)
  PROVE  GuestMetadata(kept) \subseteq {read}
<1>1. GuestLimits \in Limits
  BY FormatAssumption DEF Limits
<1>2. PICK m \in MetadataDecode(read, GuestLimits) : TRUE
  BY DEF GuestDecode
<1>3. m \in Metadata /\ Within(m, GuestLimits) /\ MetadataFields(m) = read
  BY <1>1, MetadataDecodeType, MetadataFileUnique
<1>4. kept \in GuestDecode(MetadataFields(m))
  BY <1>3
<1> QED
  BY <1>3, <1>4, GuestKeepsMetadata

-----------------------------------------------------------------------------
(* Chunks: one after the other they make up both regions.                  *)

LEMMA Division ==
  ASSUME NEW n \in Nat, NEW d \in Nat \ {0}
  PROVE  n \div d \in Nat /\ (n \div d) * d <= n /\ n < (n \div d) * d + d
  OBVIOUS

LEMMA Product ==
  ASSUME NEW a \in Nat, NEW b \in Nat, NEW c \in Nat
  PROVE  a * c \in Nat /\ (a <= b => a * c <= b * c) /\ (a + 1) * c = a * c + c
  OBVIOUS

Chunk == [region : {"workspace", "data"}, offset : Nat, length : Nat \ {0}]

\* A chunk that is not the last ends where the next one starts.
InRow(s, n, name, size) ==
  /\ s \in [1 .. n -> Chunk] /\ (n = 0 <=> size = 0)
  /\ \A i \in 1 .. n :
       /\ s[i].region = name /\ s[i].offset + s[i].length <= size
       /\ i = 1 => s[i].offset = 0
       /\ i < n => s[i + 1].offset = s[i].offset + s[i].length
       /\ i = n => s[i].offset + s[i].length = size
LEMMA ChunksOfRegion ==
  ASSUME NEW name \in {"workspace", "data"}, NEW size \in Nat, NEW step \in Nat \ {0}
  PROVE  \E n \in Nat : InRow(ChunksOf(name, size, step), n, name, size)
<1>1. PICK n : n = (size + step - 1) \div step
  OBVIOUS
<1>2. n \in Nat /\ n * step <= size + step - 1 /\ size + step - 1 < n * step + step
  <2>1. size + step - 1 \in Nat
    OBVIOUS
  <2> QED
    BY <1>1, <2>1, Division
<1>3. n * step \in Nat /\ size <= n * step /\ (n # 0 => (n - 1) * step < size)
  <2>1. n * step \in Nat
    BY <1>2, Product
  <2>2. ASSUME n # 0 PROVE (n - 1) * step = n * step - step
    BY <1>2, <2>1, <2>2
  <2> QED
    BY <1>2, <2>1, <2>2
<1>4. ASSUME NEW i \in 1 .. n
      PROVE  /\ (i - 1) * step \in Nat /\ i * step \in Nat /\ i * step = (i - 1) * step + step
             /\ (i - 1) * step < size
             /\ (i < n => i * step < size)
  <2>1. i \in Nat /\ i - 1 \in Nat /\ n - 1 \in Nat /\ n # 0 /\ i - 1 <= n - 1 /\ (i < n => i <= n - 1)
    BY <1>2
  <2>2. (i - 1) * step \in Nat /\ i * step \in Nat /\ (n - 1) * step \in Nat
    BY <2>1
  <2>3. (i - 1) * step <= (n - 1) * step /\ (i < n => i * step <= (n - 1) * step)
    BY <2>1, Product
  <2>4. i * step = (i - 1) * step + step
    BY <2>1
  <2> QED
    BY <1>3, <2>1, <2>2, <2>3, <2>4
<1> DEFINE s == ChunksOf(name, size, step)
           off(i) == (i - 1) * step
           len(i) == IF i * step <= size THEN step ELSE size - (i - 1) * step
<1>5. s = [i \in 1 .. n |-> [region |-> name, offset |-> off(i), length |-> len(i)]]
  BY <1>1 DEF ChunksOf
<1>6. ASSUME NEW i \in 1 .. n
      PROVE  /\ off(i) \in Nat /\ len(i) \in Nat \ {0} /\ off(i) + len(i) <= size
             /\ i = 1 => off(i) = 0
             /\ i < n => off(i) + len(i) = i * step
             /\ i = n => off(i) + len(i) = size
  <2>1. PICK a, b : a = (i - 1) * step /\ b = i * step
    OBVIOUS
  <2>2. a \in Nat /\ b = a + step /\ a < size /\ (i < n => b < size) /\ (i = n => size <= b)
    BY <1>3, <1>4, <2>1
  <2>3. i = 1 => a = 0
    BY <2>1
  <2>4. off(i) = a /\ len(i) = IF b <= size THEN step ELSE size - a
    BY <2>1
  <2> HIDE DEF off, len
  <2> QED
    BY <1>2, <2>1, <2>2, <2>3, <2>4
<1>7. ASSUME NEW i \in 1 .. n, i < n PROVE i + 1 \in 1 .. n /\ off(i + 1) = i * step
  <2>1. i + 1 \in 1 .. n /\ i + 1 - 1 = i
    BY <1>2, <1>7
  <2> QED
    BY <2>1
<1> HIDE DEF off, len
<1>8. s \in [1 .. n -> Chunk]
  BY <1>5, <1>6 DEF Chunk
<1>9. \A i \in 1 .. n : s[i].region = name /\ s[i].offset = off(i) /\ s[i].length = len(i)
  BY <1>5
<1>10. n = 0 <=> size = 0
  BY <1>2, <1>3
<1> HIDE DEF s
<1>11. ASSUME NEW i \in 1 .. n
       PROVE  /\ s[i].region = name /\ s[i].offset + s[i].length <= size
              /\ i = 1 => s[i].offset = 0
              /\ i < n => s[i + 1].offset = s[i].offset + s[i].length
              /\ i = n => s[i].offset + s[i].length = size
  BY <1>6, <1>7, <1>9
<1> QED
  BY <1>2, <1>8, <1>10, <1>11 DEF s, InRow

\* Where in both regions, one after the other, a chunk starts.
PlaceOf(k, w) == (IF k.region = "workspace" THEN 0 ELSE w) + k.offset
InOrder(s, w, d) ==
  /\ s \in Seq(Chunk) /\ (w # 0 => Len(s) # 0)
  /\ \A i \in 1 .. Len(s) :
       /\ s[i].offset + s[i].length <= IF s[i].region = "workspace" THEN w ELSE d
       /\ i = 1 => PlaceOf(s[i], w) = 0
       /\ i < Len(s) => PlaceOf(s[i + 1], w) = PlaceOf(s[i], w) + s[i].length
       /\ i = Len(s) => PlaceOf(s[i], w) + s[i].length = w + d
LEMMA ChunksInOrder ==
  ASSUME NEW w \in Nat, NEW d \in Nat, NEW step \in Nat \ {0}
  PROVE  InOrder(Chunks(w, d, step), w, d)
<1> DEFINE a == ChunksOf("workspace", w, step)
           b == ChunksOf("data", d, step)
           s == a \o b
<1>1. PICK n \in Nat : InRow(a, n, "workspace", w)
  BY ChunksOfRegion
<1>2. PICK m \in Nat : InRow(b, m, "data", d)
  BY ChunksOfRegion
<1> HIDE DEF a, b
<1> USE DEF InRow
<1>3. a \in Seq(Chunk) /\ Len(a) = n /\ b \in Seq(Chunk) /\ Len(b) = m
  BY <1>1, <1>2, FunctionIsSeq
<1>4. /\ s \in Seq(Chunk) /\ Len(s) = n + m
      /\ \A i \in 1 .. n : s[i] = a[i]
      /\ \A i \in 1 .. n + m : i > n => s[i] = b[i - n]
  <2>1. /\ s \in Seq(Chunk) /\ Len(s) = n + m
        /\ \A i \in 1 .. n + m : s[i] = IF i <= n THEN a[i] ELSE b[i - n]
    BY ONLY <1>3, ConcatProperties, Zenon
  <2> HIDE DEF s
  <2> QED
    BY <2>1
<1>5. Chunks(w, d, step) = s
  BY DEF Chunks, a, b
<1> HIDE DEF s
<1>6. ASSUME NEW i \in 1 .. n
      PROVE  /\ s[i].offset + s[i].length <= IF s[i].region = "workspace" THEN w ELSE d
             /\ i = 1 => PlaceOf(s[i], w) = 0
             /\ i < n + m => PlaceOf(s[i + 1], w) = PlaceOf(s[i], w) + s[i].length
             /\ i = n + m => PlaceOf(s[i], w) + s[i].length = w + d
  <2>1. s[i] = a[i] /\ s[i].region = "workspace" /\ s[i].offset \in Nat /\ s[i].length \in Nat
    BY <1>1, <1>4 DEF Chunk
  <2>2. PlaceOf(s[i], w) = s[i].offset
    BY <2>1 DEF PlaceOf
  <2>3. CASE i < n
    <3>1. i + 1 \in 1 .. n /\ i < n + m /\ s[i + 1] = a[i + 1]
      BY <1>4, <2>3
    <3>2. s[i + 1].region = "workspace" /\ s[i + 1].offset = s[i].offset + s[i].length
      BY <1>1, <2>1, <2>3, <3>1
    <3>3. PlaceOf(s[i + 1], w) = s[i].offset + s[i].length
      BY <2>1, <3>2 DEF PlaceOf
    <3> QED
      BY <1>1, <2>1, <2>2, <3>1, <3>3
  <2>4. CASE i = n
    <3>1. s[i].offset + s[i].length = w
      BY <1>1, <2>1, <2>4
    <3>2. ASSUME i < n + m PROVE PlaceOf(s[i + 1], w) = w
      <4>1. i + 1 \in 1 .. n + m /\ i + 1 > n /\ i + 1 - n = 1 /\ 1 \in 1 .. m
        BY <2>4, <3>2
      <4>2. s[i + 1] = b[1] /\ b[1].region = "data" /\ b[1].offset = 0
        BY <1>2, <1>4, <4>1
      <4> QED
        BY <4>2 DEF PlaceOf
    <3>3. i = n + m => d = 0
      BY <1>2, <2>4
    <3>4. s[i].offset + s[i].length <= w /\ (i = 1 => s[i].offset = 0)
      BY <1>1, <2>1, <3>1
    <3>5. i < n + m => PlaceOf(s[i + 1], w) = s[i].offset + s[i].length
      BY <3>1, <3>2
    <3>6. w \in Nat /\ d \in Nat /\ (i = n + m => s[i].offset + s[i].length = w + d)
      BY <3>1, <3>3
    <3> QED
      BY ONLY <2>1, <2>2, <3>4, <3>5, <3>6
  <2> QED
    BY <2>3, <2>4
<1>7. ASSUME NEW i \in 1 .. n + m, i > n
      PROVE  /\ s[i].offset + s[i].length <= IF s[i].region = "workspace" THEN w ELSE d
             /\ i = 1 => PlaceOf(s[i], w) = 0
             /\ i < n + m => PlaceOf(s[i + 1], w) = PlaceOf(s[i], w) + s[i].length
             /\ i = n + m => PlaceOf(s[i], w) + s[i].length = w + d
  <2>1. PICK j : j = i - n
    OBVIOUS
  <2>2. j \in 1 .. m /\ i = n + j /\ (i < n + m <=> j < m) /\ (i = n + m <=> j = m)
    BY <1>7, <2>1
  <2>3. s[i] = b[j] /\ s[i].region = "data" /\ s[i].offset \in Nat /\ s[i].length \in Nat
    BY <1>2, <1>4, <1>7, <2>1, <2>2 DEF Chunk
  <2>4. PlaceOf(s[i], w) = w + s[i].offset
    BY <2>3 DEF PlaceOf
  <2>5. i = 1 => w = 0 /\ j = 1
    BY <1>1, <1>7, <2>2
  <2>6. ASSUME j < m PROVE PlaceOf(s[i + 1], w) = w + s[i].offset + s[i].length
    <3>1. i + 1 \in 1 .. n + m /\ i + 1 > n /\ i + 1 - n = j + 1 /\ j + 1 \in 1 .. m
      BY <2>2, <2>6
    <3>2. s[i + 1] = b[j + 1]
      BY <1>4, <3>1
    <3>3. s[i + 1].region = "data" /\ s[i + 1].offset = s[i].offset + s[i].length
      BY <1>2, <2>2, <2>3, <2>6, <3>1, <3>2
    <3> QED
      BY <2>3, <3>3 DEF PlaceOf
  <2>7. b[j].offset + b[j].length <= d /\ (j = 1 => b[j].offset = 0)
        /\ (j = m => b[j].offset + b[j].length = d)
    BY <1>2, <2>2
  <2>8. PICK o, l : o = s[i].offset /\ l = s[i].length
    OBVIOUS
  <2>9. i < n + m => PlaceOf(s[i + 1], w) = PlaceOf(s[i], w) + s[i].length
    BY <2>2, <2>3, <2>4, <2>6
  <2>10. i = n + m => w + o + l = w + d
    BY <2>2, <2>3, <2>7, <2>8
  <2> QED
    BY <2>2, <2>3, <2>4, <2>5, <2>7, <2>8, <2>9, <2>10
<1>8. \A i \in 1 .. n + m : i \in 1 .. n \/ i > n
  OBVIOUS
<1>9. w # 0 => n + m # 0
  BY <1>1
<1> QED
  BY <1>4, <1>5, <1>6, <1>7, <1>8, <1>9 DEF InOrder

-----------------------------------------------------------------------------
(* What the guest does with a line.  An answer holds the fields of its     *)
(* kind; while the guest reads a payload, the command that announced it    *)
(* was accepted and more of it is to come.                                 *)

Answers ==
  {a \in GuestAnswer : /\ a.kind = "manifest" => Len(a.cells) = 6 /\ a.cells[1] # 0
                       /\ a.kind = "metadata" => Len(a.cells) = 2}
Reads(g) ==
  /\ Len(g.buffer) < Payload(g.command)
  /\ \/ g.command.kind \in {"patchbin", "patchrle"} /\ ValidChunk(g.command)
     \/ g.command.kind = "metaapply"
GuestState ==
  {g \in GuestLoop : (g.mode = "prompt" => g.buffer = <<>>) /\ (g.mode = "payload" => Reads(g))}

LEMMA Constants ==
  /\ MaxWorkspace \in Nat \ {0} /\ MaxData \in Nat /\ WorkspaceSize = MaxWorkspace /\ DataSize = MaxData
  /\ MetadataMax \in Nat /\ ChunkMax \in Nat \ {0} /\ MetaChunk \in Nat \ {0} /\ BufferSize \in Nat
  /\ Programs \subseteq Program /\ Files \subseteq Seq(Nat) /\ Typed \subseteq GuestLine
  /\ HostLimits \in Limits /\ GuestLimits \in Limits
  BY FormatAssumption, TransferAssumption DEF WorkspaceSize, DataSize, Limits

LEMMA SayType ==
  ASSUME NEW kind \in {"prompt", "ready", "error", "unknown", "saved", "restored", "done", "patched",
                       "applied"}
  PROVE  Say(kind) \in Answers
<1>1. <<>> \in Seq(Nat)
  BY EmptySeq
<1> QED
  BY <1>1 DEF Say, Answer, Answers, GuestAnswer

LEMMA RegionType ==
  ASSUME NEW s \in Slot, NEW name
  PROVE  /\ Capacity(name) \in Nat /\ Region(s, name) \in [1 .. Capacity(name) -> Nat]
         /\ Region(s, name) \in Seq(Nat) /\ Len(Region(s, name)) = Capacity(name)
<1>1. Capacity(name) \in Nat /\ Region(s, name) \in [1 .. Capacity(name) -> Nat]
  BY Constants DEF Capacity, Region, Slot
<1> QED
  BY <1>1, FunctionIsSeq

\* The answers of the commands that leave the slot alone.
LEMMA ManifestAnswerType == ASSUME slot \in Slot PROVE ManifestAnswer \in Answers
<1>1. slot.workspace \in Seq(Nat) /\ slot.data \in Seq(Nat) /\ slot.source \in Seq(Seq(Nat))
  BY Constants, FunctionIsSeq DEF Slot
<1>2. /\ WorkspaceSize \in Nat \ {0} /\ DataSize \in Nat /\ ChunkMax \in Nat
      /\ Checksum(slot.workspace) \in Nat /\ Checksum(slot.data) \in Nat
  BY <1>1, Constants, ChecksumType
<1>3. Len(slot.source) \in Nat
  BY <1>1, LenProperties
<1> DEFINE cells == <<WorkspaceSize, DataSize, Len(slot.source), Checksum(slot.workspace),
                      Checksum(slot.data), ChunkMax>>
<1>4. cells \in Seq(Nat) /\ Len(cells) = 6 /\ cells[1] # 0
  BY <1>2, <1>3
<1> HIDE DEF cells
<1>5. Answer("manifest", "", 0, cells) \in Answers
  BY <1>4 DEF Answer, Answers, GuestAnswer
<1> QED
  BY <1>5, SayType DEF ManifestAnswer, cells

LEMMA DumpAnswerType ==
  ASSUME slot \in Slot, NEW c \in GuestLine PROVE DumpAnswer(c) \in Answers
<1>1. c.offset \in Nat /\ c.length \in Nat /\ c.region \in {"", "workspace", "data"}
  BY DEF GuestLine
<1>2. ASSUME ValidChunk(c)
      PROVE  SubSeq(Region(slot, c.region), c.offset + 1, c.offset + c.length) \in Seq(Nat)
  <2>1. PICK o, l : o = c.offset + 1 /\ l = c.offset + c.length
    OBVIOUS
  <2>2. PICK cells : cells = Region(slot, c.region)
    OBVIOUS
  <2>3. o \in Nat \ {0} /\ l \in Nat
    <3>1. PICK a, b : a = c.offset /\ b = c.length
      OBVIOUS
    <3>2. a \in Nat /\ b \in Nat /\ o = a + 1 /\ l = a + b
      BY <1>1, <2>1, <3>1
    <3> QED
      BY ONLY <3>2
  <2>4. cells \in Seq(Nat) /\ l <= Len(cells)
    <3>1. cells \in Seq(Nat) /\ Len(cells) = Capacity(c.region)
      BY <2>2, RegionType
    <3>2. l <= Capacity(c.region)
      BY <1>2, <2>1 DEF ValidChunk
    <3> QED
      BY <3>1, <3>2
  <2> QED
    BY <2>1, <2>2, <2>3, <2>4, PartOf
<1> QED
  BY <1>1, <1>2, SayType DEF DumpAnswer, Answer, Answers, GuestAnswer

LEMMA MetadataAnswerType == ASSUME slot \in Slot PROVE MetadataAnswer \in Answers
<1>1. ASSUME GuestMetadata(slot) # {} PROVE Len(CHOOSE m \in GuestMetadata(slot) : TRUE) \in Nat
  BY <1>1, GuestMetadataType, LenProperties
<1>2. PICK n : n = Len(CHOOSE m \in GuestMetadata(slot) : TRUE)
  OBVIOUS
<1>3. ASSUME n \in Nat PROVE <<n, MetaChunk>> \in Seq(Nat) /\ Len(<<n, MetaChunk>>) = 2
  BY <1>3, Constants
<1>4. ASSUME GuestMetadata(slot) # {} PROVE Answer("metadata", "", 0, <<n, MetaChunk>>) \in Answers
  BY <1>1, <1>2, <1>3, <1>4 DEF Answer, Answers, GuestAnswer
<1> QED
  BY <1>2, <1>4, SayType DEF MetadataAnswer

LEMMA MetadataDumpAnswerType ==
  ASSUME slot \in Slot, NEW c \in GuestLine PROVE MetadataDumpAnswer(c) \in Answers
<1>1. c.offset \in Nat /\ c.length \in Nat
  BY DEF GuestLine
<1>2. PICK m : m = CHOOSE b \in GuestMetadata(slot) : TRUE
  OBVIOUS
<1>3. ASSUME GuestMetadata(slot) # {}, \A b \in GuestMetadata(slot) : c.offset + c.length <= Len(b)
      PROVE  SubSeq(m, c.offset + 1, c.offset + c.length) \in Seq(Nat)
  <2>1. PICK o, l : o = c.offset + 1 /\ l = c.offset + c.length
    OBVIOUS
  <2>2. m \in Seq(Nat) /\ l <= Len(m)
    BY <1>2, <1>3, <2>1, GuestMetadataType
  <2>3. o \in Nat \ {0} /\ l \in Nat
    BY <1>1, <2>1
  <2> QED
    BY <2>1, <2>2, <2>3, PartOf
<1> QED
  BY <1>1, <1>2, <1>3, SayType, ZenonT(60) DEF MetadataDumpAnswer, Answer, Answers, GuestAnswer

LEMMA InfoAnswerType ==
  ASSUME slot \in Slot, NEW c \in GuestLine PROVE InfoAnswer(c) \in Answers
<1>1. Say("unknown") \in Answers
  BY SayType
<1> QED
  BY <1>1, ManifestAnswerType, DumpAnswerType, MetadataAnswerType, MetadataDumpAnswerType DEF InfoAnswer

LEMMA HeardType ==
  ASSUME toHost \in Seq(Answers), NEW said \in Seq(Answers) PROVE Heard(said) \in Seq(Answers)
  BY ConcatProperties DEF Heard

LEMMA WaitingType == Waiting \in GuestState /\ Plain("none") \in GuestLine
<1>1. Plain("none") \in GuestLine
  BY DEF Plain, Command, GuestLine
<1> QED
  BY <1>1, EmptySeq DEF Waiting, GuestState, GuestLoop

\* The end of a command.
LEMMA DoneTypes ==
  ASSUME toHost \in Seq(Answers), NEW said \in Seq(Answers), Done(said)
  PROVE  guest' \in GuestState /\ toHost' \in Seq(Answers)
<1>1. Prompt \in Answers
  BY SayType DEF Prompt
<1>2. said \o <<Prompt>> \in Seq(Answers)
  BY <1>1, ConcatProperties
<1> QED
  BY <1>2, HeardType, WaitingType DEF Done

LEMMA DoneSaying ==
  ASSUME toHost \in Seq(Answers), NEW a \in Answers, Done(<<a>>)
  PROVE  guest' \in GuestState /\ toHost' \in Seq(Answers)
<1>1. <<a>> \in Seq(Answers)
  OBVIOUS
<1> QED
  BY <1>1, DoneTypes

LEMMA SlotOfProgram ==
  /\ \A p \in Program : AsSlot(p) \in Slot
  /\ \A s \in Slot : AsProgram(s) \in Program
  BY DEF AsSlot, AsProgram, Program, Slot

LEMMA EmptySlotType == EmptySlot \in Slot
<1>1. /\ Repeat(0, WorkspaceSize) \in [1 .. WorkspaceSize -> Nat]
      /\ Repeat(0, DataSize) \in [1 .. DataSize -> Nat]
      /\ Repeat(0, ContextLen) \in [1 .. ContextLen -> Nat]
  BY DEF Repeat
<1> QED
  BY <1>1, EmptySeq DEF EmptySlot, Slot

\* The guest and what it shares with the tool.
GuestInv ==
  /\ live \in Program /\ slot \in Slot /\ guest \in GuestState
  /\ toGuest \in Seq(GuestLine) /\ toHost \in Seq(Answers)

LEMMA GuestStateType ==
  ASSUME NEW g \in GuestState
  PROVE  /\ g \in GuestLoop /\ g.mode \in {"prompt", "payload", "panic"} /\ g.partial \in BOOLEAN
         /\ g.command \in GuestLine /\ g.buffer \in Seq(Nat)
         /\ g.mode = "prompt" => g.buffer = <<>>
         /\ g.mode = "payload" => Reads(g)
  BY DEF GuestState, GuestLoop

\* Part of a line stays at the prompt.
LEMMA PartialLines ==
  ASSUME NEW g \in GuestState, NEW n, n = [g EXCEPT !.partial = TRUE] PROVE n \in GuestState
<1>1. n = [mode |-> g.mode, partial |-> TRUE, command |-> g.command, buffer |-> g.buffer]
  BY DEF GuestState, GuestLoop
<1>2. n.mode = g.mode /\ n.command = g.command /\ n.buffer = g.buffer
  BY <1>1
<1> QED
  BY <1>1, <1>2, GuestStateType DEF GuestState, GuestLoop, Reads

\* The guest is ready for a payload of at least one cell.
LEMMA PayloadAccepted ==
  ASSUME NEW g \in GuestState, g.mode = "prompt", NEW c \in GuestLine, AcceptsPayload(c),
         c.kind \in {"patchbin", "patchrle", "metaapply"},
         NEW n, n = [g EXCEPT !.mode = "payload", !.command = c]
  PROVE  n \in GuestState
<1>1. n = [mode |-> "payload", partial |-> g.partial, command |-> c, buffer |-> g.buffer]
  BY DEF GuestState, GuestLoop
<1>2. n.mode = "payload" /\ n.command = c /\ n.buffer = <<>> /\ n \in GuestLoop
  BY <1>1, GuestStateType DEF GuestLoop
<1>3. c.length \in Nat /\ c.encoded \in Nat
  BY DEF GuestLine
<1>4. Payload(c) \in Nat /\ Payload(c) >= 1
  BY <1>3 DEF Payload, AcceptsPayload, ValidChunk
<1>5. c.kind \in {"patchbin", "patchrle"} => ValidChunk(c)
  BY DEF AcceptsPayload
<1>6. Len(n.buffer) = 0
  BY <1>2, EmptySeq
<1> QED
  <2>1. Len(n.buffer) < Payload(n.command)
    <3>1. PICK p : p = Payload(c)
      OBVIOUS
    <3> QED
      BY <1>2, <1>4, <1>6, <3>1
  <2>2. Reads(n)
    BY <1>2, <1>5, <2>1 DEF Reads
  <2> QED
    BY <1>2, <2>2 DEF GuestState

\* `snapshot patch' changes one cell.
LEMMA OneCellPatched ==
  ASSUME NEW s \in Slot, NEW value \in Nat, NEW n, n = [s EXCEPT !.data[1] = value]
  PROVE  n \in Slot
<1>1. [s.data EXCEPT ![1] = value] \in [1 .. DataSize -> Nat]
  BY DEF Slot
<1>2. n = [s EXCEPT !.data = [s.data EXCEPT ![1] = value]]
  OBVIOUS
<1>3. PICK d : d = [s.data EXCEPT ![1] = value]
  OBVIOUS
<1>4. n = [s EXCEPT !.data = d] /\ d \in [1 .. DataSize -> Nat]
  BY <1>1, <1>2, <1>3
<1> QED
  BY <1>4 DEF Slot

LEMMA FirstLine ==
  ASSUME toGuest \in Seq(GuestLine), toGuest # <<>>
  PROVE  Head(toGuest) \in GuestLine /\ Tail(toGuest) \in Seq(GuestLine)
  OBVIOUS

\* A command line and its answer.
LEMMA GuestCommandTypes == ASSUME GuestInv, GuestCommand PROVE GuestInv'
<1>1. PICK c : c = Head(toGuest)
  OBVIOUS
<1>2. /\ guest.mode = "prompt" /\ toGuest' = Tail(toGuest) /\ c \in GuestLine
      /\ toGuest' \in Seq(GuestLine)
  BY <1>1, FirstLine DEF GuestCommand, GuestInv
<1>3. c.kind \in Commands \cup {"none", "junk", "partial", "byte"} /\ c.offset \in Nat
  BY <1>2 DEF GuestLine
<1>4. guest.partial \in BOOLEAN
  BY GuestStateType DEF GuestInv
<1> DEFINE Good == live' \in Program /\ slot' \in Slot /\ guest' \in GuestState /\ toHost' \in Seq(Answers)
<1>5. CASE c.kind = "partial"
  <2>1. guest' = [guest EXCEPT !.partial = TRUE] /\ toHost' = toHost /\ live' = live /\ slot' = slot
    BY <1>1, <1>5 DEF GuestCommand
  <2>2. guest' \in GuestState
    BY <2>1, PartialLines DEF GuestInv
  <2> QED
    BY <1>2, <2>1, <2>2 DEF GuestInv
<1>6. CASE c.kind = "byte"
  <2>1. guest' = guest /\ toHost' = toHost /\ live' = live /\ slot' = slot
    BY <1>1, <1>6 DEF GuestCommand
  <2> QED
    BY <1>2, <2>1 DEF GuestInv
<1>7. CASE c.kind \notin {"partial", "byte"} /\ guest.partial
  <2>1. Done(<<Say("unknown")>>) /\ live' = live /\ slot' = slot
    BY <1>1, <1>7 DEF GuestCommand
  <2> QED
    BY <1>2, <2>1, SayType, DoneSaying DEF GuestInv
<1>8. CASE c.kind = "save" /\ ~guest.partial
  <2>1. \/ Done(<<Say("saved")>>) /\ slot' = AsSlot(live) /\ live' = live
        \/ Done(<<Say("error")>>) /\ live' = live /\ slot' = slot
    BY <1>1, <1>8 DEF GuestCommand
  <2> QED
    BY <1>2, <2>1, SayType, DoneSaying, SlotOfProgram DEF GuestInv
<1>9. CASE c.kind = "restore" /\ ~guest.partial
  <2>1. \/ Done(<<Say("restored")>>) /\ live' = AsProgram(slot) /\ slot' = slot
        \/ Done(<<Say("error")>>) /\ live' = live /\ slot' = slot
    BY <1>1, <1>9 DEF GuestCommand
  <2> QED
    BY <1>2, <2>1, SayType, DoneSaying, SlotOfProgram DEF GuestInv
<1>10. CASE c.kind = "debug" /\ ~guest.partial
  <2>1. Done(<<>>) /\ live' \in Programs /\ slot' = slot
    BY <1>1, <1>10 DEF GuestCommand
  <2>2. <<>> \in Seq(Answers)
    BY EmptySeq
  <2> QED
    BY <1>2, <2>1, <2>2, DoneTypes, Constants DEF GuestInv
<1>11. CASE c.kind = "patch" /\ ~guest.partial
  <2>1. \/ Done(<<Say("done")>>) /\ slot' = [slot EXCEPT !.data[1] = c.offset] /\ live' = live
        \/ Done(<<Say("error")>>) /\ live' = live /\ slot' = slot
    BY <1>1, <1>11 DEF GuestCommand
  <2>2. slot' \in Slot /\ live' = live
    BY <1>3, <2>1, OneCellPatched DEF GuestInv
  <2> QED
    BY <1>2, <2>1, <2>2, SayType, DoneSaying DEF GuestInv
<1>12. CASE c.kind \in {"patchbin", "patchrle", "metaapply"} /\ ~guest.partial
  <2>1. /\ live' = live /\ slot' = slot
        /\ IF AcceptsPayload(c)
           THEN guest' = [guest EXCEPT !.mode = "payload", !.command = c] /\ toHost' = Heard(<<Ready>>)
           ELSE Done(<<Say("error")>>)
    BY <1>1, <1>12 DEF GuestCommand
  <2>2. <<Ready>> \in Seq(Answers)
    BY SayType DEF Ready
  <2>3. CASE AcceptsPayload(c)
    <3>1. guest' \in GuestState
      BY <1>2, <1>12, <2>1, <2>3, PayloadAccepted DEF GuestInv
    <3> QED
      BY <1>2, <2>1, <2>2, <2>3, <3>1, HeardType DEF GuestInv
  <2>4. CASE ~AcceptsPayload(c)
    BY <1>2, <2>1, <2>4, SayType, DoneSaying DEF GuestInv
  <2> QED
    BY <2>3, <2>4
<1>13. CASE c.kind \in {"manifest", "dump", "metadata", "metadump", "none", "junk"} /\ ~guest.partial
  <2>1. Done(<<InfoAnswer(c)>>) /\ live' = live /\ slot' = slot
    BY <1>1, <1>13 DEF GuestCommand
  <2> QED
    BY <1>2, <2>1, InfoAnswerType, DoneSaying DEF GuestInv
<1> QED
  BY <1>3, <1>4, <1>5, <1>6, <1>7, <1>8, <1>9, <1>10, <1>11, <1>12, <1>13 DEF Commands

\* patchbin and patchrle replace cells of a region, and leave it its size.
LEMMA StoredInRegion ==
  ASSUME slot \in Slot, NEW name, NEW offset \in Nat, NEW cells \in Seq(Nat),
         offset + Len(cells) <= Capacity(name)
  PROVE  StoreRegion(name, offset, cells) \in Slot
<1> DEFINE stored(old) == Prefix(old, offset) \o cells \o From(old, offset + Len(cells))
<1>1. ASSUME NEW size \in Nat, NEW old \in [1 .. size -> Nat], offset + Len(cells) <= size
      PROVE  stored(old) \in [1 .. size -> Nat]
  <2>1. old \in Seq(Nat) /\ Len(old) = size
    BY FunctionIsSeq
  <2>2. PICK n : n = Len(cells)
    OBVIOUS
  <2>3. n \in Nat /\ offset + n <= size /\ offset \in 0 .. size /\ offset + n \in Nat
    BY <1>1, <2>2, LenProperties
  <2>4. PICK a, b : a = Prefix(old, offset) /\ b = From(old, offset + n)
    OBVIOUS
  <2>5. a \in Seq(Nat) /\ Len(a) = offset
    BY <2>1, <2>3, <2>4, PrefixOf
  <2>6. b \in Seq(Nat) /\ Len(b) = size - (offset + n)
    BY <2>1, <2>3, <2>4, FromOf
  <2>7. (a \o cells) \o b \in Seq(Nat) /\ Len((a \o cells) \o b) = (offset + n) + (size - (offset + n))
    <3>1. a \o cells \in Seq(Nat) /\ Len(a \o cells) = offset + n
      BY <2>2, <2>5, ConcatProperties
    <3> QED
      <4>1. PICK u : u = a \o cells
        OBVIOUS
      <4>2. u \in Seq(Nat) /\ Len(u) = offset + n
        BY ONLY <3>1, <4>1
      <4>3. u \o b \in Seq(Nat) /\ Len(u \o b) = Len(u) + Len(b)
        BY ONLY <2>6, <4>2, ConcatProperties
      <4> QED
        BY ONLY <2>6, <4>1, <4>2, <4>3
  <2>8. Len((a \o cells) \o b) = size
    <3>1. (offset + n) + (size - (offset + n)) = size
      BY <2>3
    <3> QED
      BY <2>7, <3>1
  <2>9. (a \o cells) \o b \in [1 .. size -> Nat]
    BY <2>7, <2>8, LenProperties
  <2> QED
    BY <2>2, <2>4, <2>9
<1>2. slot.workspace \in [1 .. WorkspaceSize -> Nat] /\ slot.data \in [1 .. DataSize -> Nat]
      /\ WorkspaceSize \in Nat /\ DataSize \in Nat
  BY Constants DEF Slot
<1>3. CASE name = "workspace"
  <2>1. PICK v : v = stored(slot.workspace)
    OBVIOUS
  <2>2. v \in [1 .. WorkspaceSize -> Nat]
    BY <1>1, <1>2, <1>3, <2>1 DEF Capacity
  <2>3. StoreRegion(name, offset, cells) = [slot EXCEPT !.workspace = v]
    BY <1>3, <2>1 DEF StoreRegion
  <2> QED
    BY <2>2, <2>3 DEF Slot
<1>4. CASE name # "workspace"
  <2>1. PICK v : v = stored(slot.data)
    OBVIOUS
  <2>2. v \in [1 .. DataSize -> Nat]
    BY <1>1, <1>2, <1>4, <2>1 DEF Capacity
  <2>3. StoreRegion(name, offset, cells) = [slot EXCEPT !.data = v]
    BY <1>4, <2>1 DEF StoreRegion
  <2> QED
    BY <2>2, <2>3 DEF Slot
<1> QED
  BY <1>3, <1>4

\* A whole payload.
LEMMA AppliedTypes ==
  ASSUME slot \in Slot, NEW c \in GuestLine, NEW bytes \in Seq(Nat), Len(bytes) = Payload(c),
         \/ c.kind \in {"patchbin", "patchrle"} /\ ValidChunk(c)
         \/ c.kind = "metaapply"
  PROVE  Applied(c, bytes) \subseteq Slot
<1>1. c.offset \in Nat /\ c.length \in Nat
  BY DEF GuestLine
<1>2. CASE c.kind = "patchbin" /\ ValidChunk(c)
  <2>1. c.offset + Len(bytes) <= Capacity(c.region)
    BY <1>2 DEF Payload, ValidChunk
  <2>2. StoreRegion(c.region, c.offset, bytes) \in Slot
    BY <1>1, <2>1, StoredInRegion
  <2> QED
    BY <1>2, <2>2 DEF Applied
<1>3. CASE c.kind = "patchrle" /\ ValidChunk(c)
  <2>1. ASSUME NEW cells \in RleDecode(bytes, c.length) PROVE StoreRegion(c.region, c.offset, cells) \in Slot
    <3>1. cells \in Seq(Nat) /\ Len(cells) = c.length
      BY Types
    <3>2. c.offset + Len(cells) <= Capacity(c.region)
      BY <1>3, <3>1 DEF ValidChunk
    <3> QED
      BY <1>1, <3>1, <3>2, StoredInRegion
  <2> QED
    BY <1>3, <2>1 DEF Applied
<1>4. CASE c.kind = "metaapply"
  <2>1. ASSUME NEW m \in GuestDecode(bytes), NEW n,
               n = [slot EXCEPT !.context = m.context, !.source = m.source, !.symbols = m.symbols]
        PROVE  n \in Slot
    <3>1. /\ m.context \in [1 .. ContextLen -> Nat] /\ m.source \in Seq(Seq(Nat))
          /\ m.symbols \in Seq(Symbol)
      BY GuestDecodeType
    <3>2. n = [valid |-> slot.valid, workspace |-> slot.workspace, data |-> slot.data,
               context |-> m.context, source |-> m.source, symbols |-> m.symbols]
      BY <2>1 DEF Slot
    <3> QED
      BY <3>1, <3>2 DEF Slot
  <2> QED
    BY <1>4, <2>1 DEF Applied
<1> QED
  BY <1>2, <1>3, <1>4

\* Some characters of a payload, no more than are missing.
LEMMA TakeBytesTypes ==
  ASSUME slot \in Slot, guest \in GuestState, toHost \in Seq(Answers), guest.mode = "payload",
         NEW bytes \in Seq(Nat), Len(bytes) <= Payload(guest.command) - Len(guest.buffer),
         TakeBytes(bytes)
  PROVE  slot' \in Slot /\ guest' \in GuestState /\ toHost' \in Seq(Answers)
<1>1. PICK c, old, all : c = guest.command /\ old = guest.buffer /\ all = guest.buffer \o bytes
  OBVIOUS
<1>2. c \in GuestLine /\ old \in Seq(Nat) /\ Reads(guest) /\ guest \in GuestLoop
  BY <1>1, GuestStateType
<1>3. all \in Seq(Nat) /\ Len(all) = Len(old) + Len(bytes)
  BY <1>1, <1>2, ConcatProperties
<1>4. PICK o, n, p : o = Len(old) /\ n = Len(bytes) /\ p = Payload(c)
  OBVIOUS
<1>5. o \in Nat /\ n \in Nat /\ p \in Nat /\ n <= p - o
  <2>1. o \in Nat /\ n \in Nat
    BY <1>2, <1>4, LenProperties
  <2>2. p \in Nat
    BY <1>2, <1>4 DEF Payload, GuestLine
  <2> QED
    BY <1>1, <1>4, <2>1, <2>2
<1>6. Len(all) <= p
  BY <1>3, <1>4, <1>5
<1>7. CASE Len(all) > BufferSize
  <2>1. guest' = [guest EXCEPT !.mode = "panic"] /\ toHost' = toHost /\ slot' = slot
    BY <1>1, <1>7 DEF TakeBytes
  <2>2. guest' \in GuestLoop /\ guest'.mode = "panic"
    BY <1>2, <2>1 DEF GuestLoop
  <2> QED
    BY <2>1, <2>2 DEF GuestState
<1>8. CASE ~(Len(all) > BufferSize) /\ Len(all) = p
  <2>1. ApplyPayload(all)
    BY <1>1, <1>4, <1>8 DEF TakeBytes
  <2>2. Applied(c, all) \subseteq Slot
    BY <1>1, <1>2, <1>3, <1>4, <1>8, AppliedTypes DEF Reads
  <2>3. slot' \in Slot
    BY <1>1, <2>1, <2>2 DEF ApplyPayload
  <2>4. \/ Done(<<Say("error")>>) \/ Done(<<Say("applied")>>) \/ Done(<<Say("patched")>>)
    BY <2>1 DEF ApplyPayload
  <2> QED
    BY <2>3, <2>4, SayType, DoneSaying
<1>9. CASE ~(Len(all) > BufferSize) /\ Len(all) # p
  <2>1. guest' = [guest EXCEPT !.buffer = all] /\ toHost' = toHost /\ slot' = slot
    BY <1>1, <1>4, <1>9 DEF TakeBytes
  <2>2. /\ guest' = [mode |-> guest.mode, partial |-> guest.partial, command |-> c, buffer |-> all]
        /\ guest'.mode = "payload" /\ guest'.command = c /\ guest'.buffer = all
    BY <1>1, <1>2, <2>1 DEF GuestLoop
  <2>3. guest' \in GuestLoop
    BY <1>2, <1>3, <2>2 DEF GuestLoop
  <2>4. Len(all) < Payload(c)
    <3>1. PICK l : l = Len(all)
      OBVIOUS
    <3>2. l \in Nat /\ l <= p /\ l # p
      BY <1>3, <1>6, <1>9, <3>1, LenProperties
    <3> QED
      BY <1>4, <1>5, <3>1, <3>2
  <2> QED
    BY <1>1, <1>2, <2>1, <2>2, <2>3, <2>4 DEF GuestState, Reads
<1> QED
  BY <1>7, <1>8, <1>9

LEMMA Missing ==
  ASSUME guest \in GuestState, guest.mode = "payload"
  PROVE  Payload(guest.command) - Len(guest.buffer) \in Nat \ {0}
<1>1. guest.command \in GuestLine /\ guest.buffer \in Seq(Nat) /\ Reads(guest)
  BY GuestStateType
<1>2. PICK p, n : p = Payload(guest.command) /\ n = Len(guest.buffer)
  OBVIOUS
<1>3. p \in Nat /\ n \in Nat /\ n < p
  BY <1>1, <1>2, LenProperties DEF Payload, GuestLine, Reads
<1> QED
  BY <1>2, <1>3

\* A byte of a payload, and a line typed into one.
LEMMA GuestByteTypes == ASSUME GuestInv, GuestByte PROVE GuestInv'
<1>1. PICK c : c = Head(toGuest)
  OBVIOUS
<1>2. /\ guest.mode = "payload" /\ c \in GuestLine /\ c.offset \in Nat
      /\ toGuest' \in Seq(GuestLine) /\ live' = live
  BY <1>1, FirstLine DEF GuestByte, GuestInv, GuestLine
<1>3. CASE c.offset = Ctrl
  BY <1>1, <1>2, <1>3 DEF GuestByte, GuestInv
<1>4. CASE c.offset # Ctrl
  <2>1. TakeBytes(<<c.offset>>)
    BY <1>1, <1>4 DEF GuestByte
  <2>2. <<c.offset>> \in Seq(Nat) /\ Len(<<c.offset>>) = 1
    BY <1>2
  <2>3. Len(<<c.offset>>) <= Payload(guest.command) - Len(guest.buffer)
    <3>1. PICK m : m = Payload(guest.command) - Len(guest.buffer)
      OBVIOUS
    <3> QED
      BY <1>2, <2>2, <3>1, Missing DEF GuestInv
  <2> QED
    BY <1>2, <2>1, <2>2, <2>3, TakeBytesTypes DEF GuestInv
<1> QED
  BY <1>3, <1>4

LEMMA GuestLineAsPayloadTypes == ASSUME GuestInv, GuestLineAsPayload PROVE GuestInv'
<1>1. PICK m : m = Payload(guest.command) - Len(guest.buffer)
  OBVIOUS
<1>2. guest.mode = "payload" /\ m \in Nat \ {0} /\ live' = live
  BY <1>1, Missing DEF GuestLineAsPayload, GuestInv
<1>3. PICK n \in {1, m} :
        /\ TakeBytes(Repeat(Junk, n))
        /\ \/ toGuest' = <<Plain("junk")>> \o Tail(toGuest) \/ toGuest' = Tail(toGuest)
  BY <1>1 DEF GuestLineAsPayload
<1>4. Repeat(Junk, n) \in Seq(Nat) /\ Len(Repeat(Junk, n)) = n /\ n <= m
  <2>1. n \in Nat /\ n <= m /\ Junk \in Nat
    BY <1>2, <1>3 DEF Junk
  <2> QED
    BY <2>1, RepeatOf
<1>5. slot' \in Slot /\ guest' \in GuestState /\ toHost' \in Seq(Answers)
  BY <1>1, <1>2, <1>3, <1>4, TakeBytesTypes DEF GuestInv
<1>6. Tail(toGuest) \in Seq(GuestLine) /\ <<Plain("junk")>> \in Seq(GuestLine)
  <2>1. Plain("junk") \in GuestLine
    BY DEF Plain, Command, GuestLine
  <2> QED
    BY <2>1, FirstLine DEF GuestLineAsPayload, GuestInv
<1> QED
  BY <1>2, <1>3, <1>5, <1>6, ConcatProperties DEF GuestInv

-----------------------------------------------------------------------------
(* The tool.  At each of its stages it has what its next step reads: the   *)
(* content of the file of an import, the manifest of an export; the next   *)
(* chunk is one of those to come, and what it has received ends where that *)
(* chunk starts.                                                           *)

Fetching(t) ==
  /\ Len(t.lengths) = 6 /\ t.lengths[6] # 0
  /\ t.next \in DOMAIN Chunks(t.lengths[1], t.lengths[2], t.lengths[6])
  /\ Len(t.got) = PlaceOf(FetchChunk(t), t.lengths[1])
FetchingText(t) ==
  /\ Len(t.lengths) = 2 /\ t.lengths[2] # 0
  /\ t.next = Len(t.got) /\ t.next < t.lengths[1]
ToSend(t) == Chunks(Len(Content(t).image.workspace), Len(Content(t).image.data), ChunkMax)
StageFacts(t) ==
  /\ t.stage # "idle" => t.op # "none" /\ (t.op \in Imports => t.content # {})
  /\ t.op = "importProject" => \A p \in t.content : p \in Project /\ MetadataEncode(p.metadata) # {}
  /\ t.stage \in {"connect", "save", "manifest"} => t.got = <<>>
  /\ t.stage = "fetch" => Fetching(t)
  /\ t.stage \in {"metadata", "metafetch"} => Len(t.image) = 1
  /\ t.stage = "metafetch" => FetchingText(t)
  /\ t.stage \in {"apply", "metaapply", "restore"} => t.op \in Imports
  /\ t.stage = "metaapply" => t.op = "importProject"
  /\ t.stage = "apply" => t.next \in DOMAIN ToSend(t)
ToolState == {t \in Tool : StageFacts(t)}

LEMMA ToolType ==
  ASSUME NEW t \in ToolState
  PROVE  /\ t \in Tool /\ StageFacts(t)
         /\ t.op \in Exports \cup Imports \cup {"none"} /\ t.stage \in Stages /\ t.sent \in BOOLEAN
         /\ t.next \in Nat /\ t.got \in Seq(Nat) /\ t.lengths \in Seq(Nat) /\ t.image \in Seq(Image)
         /\ t.content \subseteq [image : Image] \cup Project
  BY DEF ToolState, Tool

LEMMA NoToolType == NoTool \in ToolState /\ NoTool.stage = "idle"
<1>1. /\ NoTool.stage = "idle" /\ NoTool.op = "none" /\ NoTool.content = {}
      /\ NoTool.got = <<>> /\ NoTool.image = <<>> /\ NoTool.lengths = <<>>
  BY DEF NoTool
<1>2. <<>> \in Seq(Nat) /\ <<>> \in Seq(Image)
  BY EmptySeq
<1>3. NoTool \in Tool
  BY <1>2 DEF NoTool, Tool, Stages
<1> QED
  BY <1>1, <1>3 DEF ToolState, StageFacts

\* What an import sends.
LEMMA ContentType ==
  ASSUME NEW t \in ToolState, t.stage # "idle", t.op \in Imports
  PROVE  /\ Content(t) \in t.content /\ Content(t).image \in Image
         /\ Content(t).image.workspace \in Seq(Nat) /\ Content(t).image.data \in Seq(Nat)
         /\ ToSend(t) \in Seq(Chunk)
         /\ DOMAIN ToSend(t) = 1 .. Len(ToSend(t)) /\ Len(ToSend(t)) \in Nat
<1>1. t.content # {} /\ t.content \subseteq [image : Image] \cup Project
  BY ToolType DEF StageFacts
<1>2. Content(t) \in t.content
  BY <1>1 DEF Content
<1>3. Content(t).image \in Image
  BY <1>1, <1>2 DEF Project
<1>4. Content(t).image.workspace \in Seq(Nat) /\ Content(t).image.data \in Seq(Nat)
  BY <1>3 DEF Image
<1>5. PICK w, d : w = Len(Content(t).image.workspace) /\ d = Len(Content(t).image.data)
  OBVIOUS
<1>6. w \in Nat /\ d \in Nat
  BY <1>4, <1>5, LenProperties
<1>7. ToSend(t) \in Seq(Chunk)
  BY <1>5, <1>6, Constants, ChunksInOrder DEF ToSend, InOrder
<1> QED
  BY <1>2, <1>3, <1>4, <1>7, LenProperties

\* The chunk an import sends is one of its image.
LEMMA ApplyChunkType ==
  ASSUME NEW t \in ToolState, t.stage = "apply"
  PROVE  /\ ApplyChunk(t) \in Chunk
         /\ ChunkCells(Content(t).image, ApplyChunk(t)) \in Seq(Nat)
<1>1. t.op \in Imports /\ t.next \in DOMAIN ToSend(t)
  BY ToolType DEF StageFacts
<1>2. PICK w, d : w = Content(t).image.workspace /\ d = Content(t).image.data
  OBVIOUS
<1>3. w \in Seq(Nat) /\ d \in Seq(Nat) /\ ToSend(t) = Chunks(Len(w), Len(d), ChunkMax)
  BY <1>1, <1>2, ContentType DEF ToSend
<1>4. PICK n, m : n = Len(w) /\ m = Len(d)
  OBVIOUS
<1>5. n \in Nat /\ m \in Nat
  BY <1>3, <1>4, LenProperties
<1>6. PICK k : k = ApplyChunk(t)
  OBVIOUS
<1>7. k \in Chunk /\ k.offset + k.length <= IF k.region = "workspace" THEN n ELSE m
  <2>1. PICK s : s = Chunks(n, m, ChunkMax)
    OBVIOUS
  <2>2. /\ s \in Seq(Chunk)
        /\ \A i \in 1 .. Len(s) : s[i].offset + s[i].length <= IF s[i].region = "workspace" THEN n ELSE m
    <3>1. InOrder(s, n, m)
      BY <1>5, <2>1, Constants, ChunksInOrder
    <3> QED
      BY <3>1 DEF InOrder
  <2>3. t.next \in 1 .. Len(s) /\ k = s[t.next]
    BY <1>1, <1>2, <1>3, <1>4, <1>6, <2>1, <2>2, LenProperties DEF ApplyChunk
  <2> QED
    BY <2>2, <2>3, ElementOfSeq
<1>8. PICK o, l : o = k.offset + 1 /\ l = k.offset + k.length
  OBVIOUS
<1>9. o \in Nat \ {0} /\ l \in Nat
  <2>1. PICK a, b : a = k.offset /\ b = k.length
    OBVIOUS
  <2>2. a \in Nat /\ b \in Nat /\ o = a + 1 /\ l = a + b
    BY <1>7, <1>8, <2>1 DEF Chunk
  <2> QED
    BY ONLY <2>2
<1>10. PICK cells : cells = Region(Content(t).image, k.region)
  OBVIOUS
<1>11. cells \in Seq(Nat) /\ l <= Len(cells)
  BY <1>2, <1>3, <1>4, <1>7, <1>8, <1>10 DEF Region
<1>12. SubSeq(cells, o, l) \in Seq(Nat)
  BY <1>9, <1>11, PartOf
<1> QED
  BY <1>6, <1>7, <1>8, <1>10, <1>12 DEF ChunkCells

\* The chunk an export asks for.
LEMMA FetchChunkType ==
  ASSUME NEW t \in ToolState, t.stage = "fetch"
  PROVE  \E w \in Nat, d \in Nat, s \in Seq(Chunk) :
           /\ w = t.lengths[1] /\ d = t.lengths[2] /\ s = Chunks(w, d, t.lengths[6]) /\ InOrder(s, w, d)
           /\ t.next \in 1 .. Len(s) /\ FetchChunk(t) = s[t.next] /\ FetchChunk(t) \in Chunk
<1>1. Fetching(t) /\ t.lengths \in Seq(Nat)
  BY ToolType DEF StageFacts
<1>2. PICK w, d, step : w = t.lengths[1] /\ d = t.lengths[2] /\ step = t.lengths[6]
  OBVIOUS
<1>3. w \in Nat /\ d \in Nat /\ step \in Nat \ {0}
  BY <1>1, <1>2, ElementOfSeq DEF Fetching
<1>4. PICK s : s = Chunks(w, d, step)
  OBVIOUS
<1>5. InOrder(s, w, d) /\ s \in Seq(Chunk)
  <2>1. InOrder(s, w, d)
    BY <1>3, <1>4, ChunksInOrder
  <2> QED
    BY <2>1 DEF InOrder
<1>6. t.next \in 1 .. Len(s) /\ FetchChunk(t) = s[t.next]
  BY <1>1, <1>2, <1>4, <1>5, LenProperties DEF Fetching, FetchChunk
<1>7. FetchChunk(t) \in Chunk
  BY <1>5, <1>6, ElementOfSeq
<1> QED
  BY <1>2, <1>3, <1>4, <1>5, <1>6, <1>7

LEMMA CommandType ==
  ASSUME NEW kind \in Commands, NEW region \in {"", "workspace", "data"},
         NEW offset \in Nat, NEW length \in Nat, NEW encoded \in Nat
  PROVE  Command(kind, region, offset, length, encoded) \in GuestLine
  BY DEF Command, GuestLine

\* A command of the tool is one the guest knows.
LEMMA SendsType ==
  ASSUME NEW t \in ToolState, t.stage \notin {"idle", "connect"}
  PROVE  Sends(t) \in GuestLine
<1>1. t.stage \in {"save", "manifest", "fetch", "metadata", "metafetch", "apply", "metaapply", "restore"}
  BY ToolType DEF Stages
<1>2. CASE t.stage \in {"save", "manifest", "metadata", "restore"}
  <2>1. Sends(t) = Plain(t.stage)
    BY <1>2 DEF Sends
  <2> QED
    BY <1>2, <2>1, CommandType DEF Plain, Commands
<1>3. CASE t.stage = "fetch"
  <2>1. FetchChunk(t) \in Chunk
    BY <1>3, FetchChunkType
  <2>2. Sends(t) = Command("dump", FetchChunk(t).region, FetchChunk(t).offset, FetchChunk(t).length, 0)
    BY <1>3 DEF Sends
  <2> QED
    <3>1. PICK r, o, l : r = FetchChunk(t).region /\ o = FetchChunk(t).offset /\ l = FetchChunk(t).length
      OBVIOUS
    <3>2. r \in {"", "workspace", "data"} /\ o \in Nat /\ l \in Nat /\ "dump" \in Commands
      BY <2>1, <3>1 DEF Chunk, Commands
    <3> QED
      BY <2>2, <3>1, <3>2, CommandType, ZenonT(60)
<1>4. CASE t.stage = "metafetch"
  <2>1. PICK n, a, b : n = t.next /\ a = t.lengths[1] /\ b = t.lengths[2]
    OBVIOUS
  <2>2. n \in Nat /\ a \in Nat /\ b \in Nat /\ n < a
    BY <1>4, <2>1, ToolType, ElementOfSeq DEF StageFacts, FetchingText
  <2>3. PICK length : length = IF a - n < b THEN a - n ELSE b
    OBVIOUS
  <2>4. length \in Nat
    BY <2>2, <2>3
  <2>5. Sends(t) = Command("metadump", "", n, length, 0)
    BY <1>4, <2>1, <2>3 DEF Sends
  <2> QED
    BY <2>2, <2>4, <2>5, CommandType DEF Commands
<1>5. CASE t.stage = "apply"
  <2>1. PICK k, cells : k = ApplyChunk(t) /\ cells = ChunkCells(Content(t).image, ApplyChunk(t))
    OBVIOUS
  <2>2. k \in Chunk /\ cells \in Seq(Nat)
    BY <1>5, <2>1, ApplyChunkType
  <2>3. Len(RleEncode(cells)) \in Nat
    BY <2>2, Types, LenProperties
  <2>4. \/ Sends(t) = Command("patchrle", k.region, k.offset, k.length, Len(RleEncode(cells)))
        \/ Sends(t) = Command("patchbin", k.region, k.offset, k.length, 0)
    BY <1>5, <2>1 DEF Sends
  <2>5. PICK e : e = Len(RleEncode(cells))
    OBVIOUS
  <2> QED
    <3>1. PICK r, o, l : r = k.region /\ o = k.offset /\ l = k.length
      OBVIOUS
    <3>2. /\ r \in {"", "workspace", "data"} /\ o \in Nat /\ l \in Nat /\ e \in Nat
          /\ "patchrle" \in Commands /\ "patchbin" \in Commands
      BY <2>2, <2>3, <2>5, <3>1 DEF Chunk, Commands
    <3>3. Command("patchrle", r, o, l, e) \in GuestLine /\ Command("patchbin", r, o, l, 0) \in GuestLine
      BY <3>2, CommandType
    <3> QED
      BY <2>4, <2>5, <3>1, <3>3
<1>6. CASE t.stage = "metaapply"
  <2>1. t.op = "importProject" /\ t.op \in Imports
    BY <1>6, ToolType DEF StageFacts
  <2>2. Content(t) \in Project /\ MetadataEncode(Content(t).metadata) # {}
    BY <1>6, <2>1, ContentType, ToolType DEF StageFacts
  <2>3. MetadataOf(Content(t)) \in Seq(Nat)
    BY <2>2, MetadataEncodeType DEF MetadataOf, Project
  <2>4. PICK n : n = Len(MetadataOf(Content(t)))
    OBVIOUS
  <2>5. n \in Nat
    BY <2>3, <2>4, LenProperties
  <2>6. Sends(t) = Command("metaapply", "", 0, n, 0)
    BY <1>6, <2>4 DEF Sends
  <2> QED
    BY <2>5, <2>6, CommandType DEF Commands
<1> QED
  BY <1>1, <1>2, <1>3, <1>4, <1>5, <1>6

\* The bytes that follow a `ready'.
LEMMA FollowsType ==
  ASSUME NEW t \in ToolState, Binary(t) PROVE Follows(t) \in Seq(Nat)
<1>1. t.stage \in {"apply", "metaapply"}
  BY DEF Binary
<1>2. CASE t.stage = "apply"
  <2>1. PICK cells : cells = ChunkCells(Content(t).image, ApplyChunk(t))
    OBVIOUS
  <2>2. cells \in Seq(Nat) /\ RleEncode(cells) \in Seq(Nat)
    BY <1>2, <2>1, ApplyChunkType, Types
  <2> QED
    BY <1>2, <2>1, <2>2 DEF Follows
<1>3. CASE t.stage = "metaapply"
  <2>1. t.op = "importProject" /\ t.op \in Imports
    BY <1>3, ToolType DEF StageFacts
  <2>2. Content(t) \in Project /\ MetadataEncode(Content(t).metadata) # {}
    BY <1>3, <2>1, ContentType, ToolType DEF StageFacts
  <2>3. MetadataOf(Content(t)) \in Seq(Nat)
    BY <2>2, MetadataEncodeType DEF MetadataOf, Project
  <2> QED
    BY <1>3, <2>3 DEF Follows
<1> QED
  BY <1>1, <1>2, <1>3

\* What the tool reads: up to the first marker, and what was said before it.
LEMMA MarkerFound ==
  ASSUME toHost \in Seq(Answers), \E i \in DOMAIN toHost : Marker(toHost[i])
  PROVE  /\ MarkerAt \in 1 .. Len(toHost) /\ Marker(toHost[MarkerAt])
         /\ Rest \in Seq(Answers)
         /\ \A kind : Said(kind) => FirstOf(kind) \in Answers /\ FirstOf(kind).kind = kind
<1>1. PICK L : L = Len(toHost)
  OBVIOUS
<1>2. L \in Nat /\ DOMAIN toHost = 1 .. L /\ \A i \in 1 .. L : toHost[i] \in Answers
  BY <1>1, LenProperties, ElementOfSeq
<1> DEFINE T == {i \in 1 .. L : Marker(toHost[i])}
<1>3. PICK i \in T : \A k \in T : i <= k
  <2>1. T \subseteq Nat /\ T # {}
    BY <1>2
  <2> HIDE DEF T
  <2> QED
    BY <2>1, Least
<1>4. i \in DOMAIN toHost /\ Marker(toHost[i]) /\ \A k \in 1 .. i - 1 : ~Marker(toHost[k])
  <2>1. i \in 1 .. L /\ Marker(toHost[i])
    BY <1>3
  <2>2. ASSUME NEW k \in 1 .. i - 1, Marker(toHost[k]) PROVE FALSE
    <3>1. k \in T /\ k < i
      BY <1>2, <2>1, <2>2
    <3>2. i <= k
      BY <1>3, <3>1
    <3> QED
      BY <2>1, <3>1, <3>2
  <2> QED
    BY <1>2, <2>1, <2>2
<1>5. MarkerAt \in DOMAIN toHost /\ Marker(toHost[MarkerAt])
  BY <1>4, Zenon DEF MarkerAt
<1>6. PICK m : m = MarkerAt
  OBVIOUS
<1>7. m \in 1 .. L /\ m \in Nat
  BY <1>2, <1>5, <1>6
<1>8. Rest \in Seq(Answers)
  BY <1>6, <1>7, FromOf DEF Rest
<1>9. ASSUME NEW kind, Said(kind) PROVE FirstOf(kind) \in Answers /\ FirstOf(kind).kind = kind
  <2> DEFINE U == {k \in 1 .. m - 1 : toHost[k].kind = kind}
  <2>1. PICK j \in U : \A k \in U : j <= k
    <3>1. U \subseteq Nat /\ U # {}
      BY <1>6, <1>7, <1>9 DEF Said
    <3> HIDE DEF U
    <3> QED
      BY <3>1, Least
  <2>2. j \in 1 .. m - 1 /\ toHost[j].kind = kind /\ \A k \in 1 .. j - 1 : toHost[k].kind # kind
    <3>1. j \in 1 .. m - 1 /\ toHost[j].kind = kind
      BY <2>1
    <3>2. ASSUME NEW k \in 1 .. j - 1, toHost[k].kind = kind PROVE FALSE
      <4>1. k \in U /\ k < j
        BY <1>7, <3>1, <3>2
      <4>2. j <= k
        BY <2>1, <4>1
      <4> QED
        BY <3>1, <4>1, <4>2
    <3> QED
      BY <3>1, <3>2
  <2>3. PICK f : f = CHOOSE k \in 1 .. m - 1 :
                       toHost[k].kind = kind /\ \A n \in 1 .. k - 1 : toHost[n].kind # kind
    OBVIOUS
  <2>4. f \in 1 .. m - 1 /\ toHost[f].kind = kind
    BY <2>2, <2>3, Zenon
  <2>5. FirstOf(kind) = toHost[f]
    BY <1>6, <2>3, Zenon DEF FirstOf
  <2>6. f \in 1 .. L
    BY <1>2, <1>7, <2>4
  <2> QED
    BY <1>2, <2>4, <2>5, <2>6
<1> QED
  BY <1>1, <1>5, <1>6, <1>7, <1>8, <1>9

LEMMA AnswerType ==
  ASSUME NEW a \in Answers
  PROVE  /\ a.cells \in Seq(Nat) /\ Len(a.cells) \in Nat
         /\ a.kind = "manifest" => Len(a.cells) = 6 /\ a.cells[1] # 0
         /\ a.kind = "metadata" => Len(a.cells) = 2
<1>1. a.cells \in Seq(Nat)
  BY DEF Answers, GuestAnswer
<1> QED
  BY <1>1, LenProperties DEF Answers

\* The invariant: guest and tool, and the connection.
Results == {"none", "failed", "exported", "imported"}
ToolInv ==
  /\ tool \in ToolState /\ toGuest \in Seq(GuestLine) /\ toHost \in Seq(Answers)
  /\ link \in {"none", "tool", "terminal"} /\ (tool.stage = "idle" <=> link # "tool")
  /\ file \in Seq(Nat) /\ genuine \in Seq(Nat) /\ result \in Results
Inv ==
  /\ GuestInv /\ ToolInv
  /\ swallowed \in BOOLEAN /\ typeahead \in BOOLEAN /\ left \in [runs : Nat, events : Nat]

\* The fields of the tool that a stage goes by.
LEMMA Changed ==
  ASSUME NEW t \in ToolState, NEW n, NEW sent \in BOOLEAN, n = [t EXCEPT !.sent = sent]
  PROVE  n \in ToolState /\ n.stage = t.stage
<1>1. /\ n.op = t.op /\ n.stage = t.stage /\ n.next = t.next /\ n.got = t.got
      /\ n.lengths = t.lengths /\ n.image = t.image /\ n.content = t.content
  BY DEF ToolState, Tool
<1>2. n \in Tool
  BY DEF ToolState, Tool
<1>3. FetchChunk(n) = FetchChunk(t) /\ Content(n) = Content(t)
  BY <1>1, Zenon DEF FetchChunk, Content
<1>4. ToSend(n) = ToSend(t)
  BY <1>3 DEF ToSend
<1>5. StageFacts(t)
  BY ToolType
<1>6. StageFacts(n)
  BY <1>1, <1>3, <1>4, <1>5 DEF StageFacts, Fetching, FetchingText
<1> QED
  BY <1>1, <1>2, <1>6 DEF ToolState

LEMMA GoToTypes ==
  ASSUME ToolInv, tool.stage # "idle", Rest \in Seq(Answers),
         NEW t \in ToolState, t.stage \notin {"idle", "connect"}, GoTo(t)
  PROVE  ToolInv'
<1>1. tool' = [t EXCEPT !.sent = FALSE]
  BY DEF GoTo
<1>2. tool' \in ToolState /\ tool'.stage = t.stage
  BY <1>1, Changed
<1>3. toGuest' = Append(toGuest, Sends(t)) /\ Sends(t) \in GuestLine
  BY SendsType DEF GoTo
<1>4. toGuest' \in Seq(GuestLine)
  BY <1>3, AppendProperties DEF ToolInv
<1> QED
  BY <1>2, <1>4 DEF ToolInv, GoTo

LEMMA LeaveTypes ==
  ASSUME ToolInv, NEW told \in Results, Leave(told), file' \in Seq(Nat), genuine' \in Seq(Nat)
  PROVE  ToolInv'
<1>1. <<>> \in Seq(Answers)
  BY EmptySeq
<1> QED
  BY <1>1, NoToolType DEF ToolInv, Leave

LEMMA FailTypes == ASSUME ToolInv, Fail PROVE ToolInv'
<1>1. "failed" \in Results /\ Leave("failed") /\ file' \in Seq(Nat) /\ genuine' \in Seq(Nat)
  BY DEF Fail, ToolInv, Results
<1> QED
  BY <1>1, LeaveTypes

LEMMA WriteTypes ==
  ASSUME ToolInv, NEW contents \in Seq(Nat), WriteFile(contents) PROVE ToolInv'
<1>1. "exported" \in Results /\ Leave("exported") /\ file' \in Seq(Nat) /\ genuine' \in Seq(Nat)
  BY DEF WriteFile, Results
<1> QED
  BY <1>1, LeaveTypes

\* The stages without anything to keep.
LEMMA Restaged ==
  ASSUME NEW t \in ToolState, t.stage # "idle",
         NEW stage \in {"save", "manifest", "restore"},
         stage # "restore" => t.stage \in {"connect", "save"},
         stage = "restore" => t.op \in Imports,
         NEW n, n = [t EXCEPT !.stage = stage]
  PROVE  n \in ToolState /\ n.stage = stage
<1>1. /\ n.op = t.op /\ n.stage = stage /\ n.got = t.got /\ n.content = t.content
  BY DEF ToolState, Tool
<1>2. n \in Tool
  BY DEF ToolState, Tool, Stages
<1>3. StageFacts(t)
  BY ToolType
<1>4. StageFacts(n)
  BY <1>1, <1>3 DEF StageFacts
<1> QED
  BY <1>1, <1>2, <1>4 DEF ToolState

\* One chunk after the other, then the text of a project, then the end.
LEMMA ApplyingType ==
  ASSUME NEW t \in ToolState, t.stage # "idle", t.op \in Imports, NEW k \in Nat \ {0}
  PROVE  Applying(t, k) \in ToolState /\ Applying(t, k).stage \in {"apply", "metaapply", "restore"}
<1>1. PICK n : n = Applying(t, k)
  OBVIOUS
<1>2. StageFacts(t) /\ ToSend(t) \in Seq(Chunk) /\ DOMAIN ToSend(t) = 1 .. Len(ToSend(t))
      /\ Len(ToSend(t)) \in Nat
  BY ToolType, ContentType
<1>3. CASE k <= Len(ToSend(t))
  <2>1. n = [t EXCEPT !.stage = "apply", !.next = k]
    BY <1>1, <1>3 DEF Applying, ToSend
  <2>2. n.op = t.op /\ n.stage = "apply" /\ n.next = k /\ n.content = t.content
    BY <2>1 DEF ToolState, Tool
  <2>3. n \in Tool
    BY <2>1 DEF ToolState, Tool, Stages
  <2>4. Content(n) = Content(t)
    BY <2>2, Zenon DEF Content
  <2>5. ToSend(n) = ToSend(t)
    BY <2>4 DEF ToSend
  <2>6. k \in DOMAIN ToSend(n)
    BY <1>2, <1>3, <2>5
  <2>7. StageFacts(n)
    BY <1>2, <2>2, <2>6 DEF StageFacts
  <2> QED
    BY <1>1, <2>2, <2>3, <2>7 DEF ToolState
<1>4. CASE ~(k <= Len(ToSend(t)))
  <2>1. PICK stage : stage = IF t.op = "importProject" THEN "metaapply" ELSE "restore"
    OBVIOUS
  <2>2. n = [t EXCEPT !.stage = stage]
    BY <1>1, <1>4, <2>1 DEF Applying, ToSend
  <2>3. n.op = t.op /\ n.stage = stage /\ n.content = t.content
    BY <2>2 DEF ToolState, Tool
  <2>4. stage \in {"metaapply", "restore"} /\ (stage = "metaapply" => t.op = "importProject")
    BY <2>1
  <2>5. n \in Tool
    BY <2>2, <2>4 DEF ToolState, Tool, Stages
  <2>6. StageFacts(n)
    BY <1>2, <2>3, <2>4 DEF StageFacts
  <2> QED
    BY <1>1, <2>3, <2>4, <2>5, <2>6 DEF ToolState
<1> QED
  BY <1>3, <1>4

LEMMA HearSaveTypes ==
  ASSUME ToolInv, Rest \in Seq(Answers), tool.stage = "save", HearSave PROVE ToolInv'
<1>1. tool \in ToolState
  BY DEF ToolInv
<1>2. CASE Fail
  BY <1>2, FailTypes
<1>3. CASE ~Fail /\ tool.op \in Exports
  <2>1. PICK n : n = [tool EXCEPT !.stage = "manifest"]
    OBVIOUS
  <2>2. GoTo(n)
    BY <1>3, <2>1 DEF HearSave
  <2>3. n \in ToolState /\ n.stage = "manifest"
    BY <1>1, <2>1, Restaged
  <2> QED
    BY <2>2, <2>3, GoToTypes
<1>4. CASE ~Fail /\ tool.op \notin Exports
  <2>1. tool.op \in Imports
    BY <1>1, <1>4, ToolType DEF StageFacts
  <2>2. GoTo(Applying(tool, 1))
    BY <1>4 DEF HearSave
  <2>3. Applying(tool, 1) \in ToolState /\ Applying(tool, 1).stage \in {"apply", "metaapply", "restore"}
    BY <1>1, <2>1, ApplyingType
  <2> QED
    BY <2>2, <2>3, GoToTypes
<1> QED
  BY <1>2, <1>3, <1>4

\* The first chunk of an export.
LEMMA HearManifestTypes ==
  ASSUME ToolInv, Rest \in Seq(Answers), tool.stage = "manifest", HearManifest,
         \A kind : Said(kind) => FirstOf(kind) \in Answers /\ FirstOf(kind).kind = kind
  PROVE  ToolInv'
<1>1. tool \in ToolState
  BY DEF ToolInv
<1>2. CASE Fail
  BY <1>2, FailTypes
<1>3. CASE ~Fail
  <2>1. PICK fields : fields = FirstOf("manifest").cells
    OBVIOUS
  <2>2. PICK n : n = [tool EXCEPT !.stage = "fetch", !.next = 1, !.lengths = fields]
    OBVIOUS
  <2>3. GoTo(n) /\ Said("manifest") /\ fields[6] \in 1 .. ChunkMax
    BY <1>3, <2>1, <2>2 DEF HearManifest
  <2>4. fields \in Seq(Nat) /\ Len(fields) = 6 /\ fields[1] # 0
    BY <2>1, <2>3, AnswerType
  <2>5. PICK w, d, step : w = fields[1] /\ d = fields[2] /\ step = fields[6]
    OBVIOUS
  <2>6. w \in Nat \ {0} /\ d \in Nat /\ step \in Nat \ {0}
    <3>1. \A i \in 1 .. 6 : fields[i] \in Nat
      BY <2>4, ElementOfSeq
    <3>2. step # 0
      BY <2>3, <2>5
    <3> QED
      BY <2>4, <2>5, <3>1, <3>2
  <2>7. PICK s : s = Chunks(w, d, step)
    OBVIOUS
  <2>8. InOrder(s, w, d)
    BY <2>6, <2>7, ChunksInOrder
  <2>9. 1 \in DOMAIN s /\ 1 \in 1 .. Len(s) /\ PlaceOf(s[1], w) = 0
    <3>1. s \in Seq(Chunk) /\ Len(s) # 0
      BY <2>6, <2>8 DEF InOrder
    <3>2. 1 \in DOMAIN s /\ 1 \in 1 .. Len(s)
      BY <3>1, LenProperties
    <3> QED
      BY <2>8, <3>2 DEF InOrder
  <2>10. tool.got = <<>> /\ StageFacts(tool)
    BY <1>1, ToolType DEF StageFacts
  <2>11. /\ n.op = tool.op /\ n.stage = "fetch" /\ n.next = 1 /\ n.lengths = fields
         /\ n.got = tool.got /\ n.content = tool.content
    BY <1>1, <2>2 DEF ToolState, Tool
  <2>12. n \in Tool
    BY <1>1, <2>2, <2>4 DEF ToolState, Tool, Stages
  <2>13. FetchChunk(n) = s[1] /\ Len(n.got) = 0
    BY <2>5, <2>7, <2>10, <2>11, EmptySeq DEF FetchChunk
  <2>14. Fetching(n)
    BY <2>4, <2>5, <2>6, <2>7, <2>9, <2>11, <2>13 DEF Fetching
  <2>15. StageFacts(n)
    BY <2>10, <2>11, <2>14 DEF StageFacts
  <2>16. n \in ToolState /\ n.stage = "fetch"
    BY <2>11, <2>12, <2>15 DEF ToolState
  <2> QED
    BY <2>3, <2>16, GoToTypes
<1> QED
  BY <1>2, <1>3

\* A chunk: the next one is asked for, or both regions are there.
LEMMA HearFetchTypes ==
  ASSUME ToolInv, Rest \in Seq(Answers), tool.stage = "fetch", HearFetch,
         \A kind : Said(kind) => FirstOf(kind) \in Answers /\ FirstOf(kind).kind = kind
  PROVE  ToolInv'
<1>1. tool \in ToolState /\ tool \in Tool /\ StageFacts(tool) /\ tool.got \in Seq(Nat)
      /\ tool.next \in Nat /\ tool.lengths \in Seq(Nat)
  BY ToolType DEF ToolInv
<1>2. CASE Fail
  BY <1>2, FailTypes
<1>3. PICK w \in Nat, d \in Nat, s \in Seq(Chunk) :
        /\ w = tool.lengths[1] /\ d = tool.lengths[2] /\ s = Chunks(w, d, tool.lengths[6])
        /\ InOrder(s, w, d)
        /\ tool.next \in 1 .. Len(s) /\ FetchChunk(tool) = s[tool.next] /\ FetchChunk(tool) \in Chunk
  BY <1>1, FetchChunkType
<1>4. PICK k, p : k = s[tool.next] /\ p = PlaceOf(k, w)
  OBVIOUS
<1>5. k \in Chunk /\ k.offset \in Nat /\ k.length \in Nat /\ p \in Nat /\ Len(tool.got) = p
  <2>1. k \in Chunk
    BY <1>3, <1>4
  <2>2. Len(tool.got) = p
    BY <1>1, <1>3, <1>4 DEF StageFacts, Fetching
  <2> QED
    BY <1>1, <2>1, <2>2, LenProperties DEF Chunk
<1>6. PICK got : got = Fetched
  OBVIOUS
<1>7. ASSUME ~Fail
      PROVE  got \in Seq(Nat) /\ Len(got) = p + k.length
  <2>1. Said("chunk") /\ ChunkFits(FirstOf("chunk"))
    BY <1>7 DEF HearFetch
  <2>2. FirstOf("chunk").cells \in Seq(Nat) /\ Len(FirstOf("chunk").cells) = k.length
    BY <1>3, <1>4, <2>1, AnswerType DEF ChunkFits
  <2> QED
    <3>1. PICK cells : cells = FirstOf("chunk").cells
      OBVIOUS
    <3>2. got = tool.got \o cells /\ cells \in Seq(Nat) /\ Len(cells) = k.length
      BY <1>6, <2>2, <3>1 DEF Fetched
    <3>3. PICK old, n : old = tool.got /\ n = k.length
      OBVIOUS
    <3>4. old \in Seq(Nat) /\ Len(old) = p /\ Len(cells) = n /\ got = old \o cells
      BY <1>1, <1>5, <3>2, <3>3
    <3>5. old \o cells \in Seq(Nat) /\ Len(old \o cells) = Len(old) + Len(cells)
      BY ONLY <3>2, <3>4, ConcatProperties
    <3> QED
      BY ONLY <3>3, <3>4, <3>5
<1>8. CASE ~Fail /\ tool.next < Len(s)
  <2>1. PICK m : m = tool.next + 1
    OBVIOUS
  <2>2. PICK n : n = [tool EXCEPT !.next = m, !.got = got]
    OBVIOUS
  <2>3. GoTo(n)
    BY <1>3, <1>6, <1>8, <2>1, <2>2 DEF HearFetch
  <2>4. m \in 1 .. Len(s) /\ m \in Nat /\ m \in DOMAIN s
    <3>1. PICK L : L = Len(s)
      OBVIOUS
    <3>2. L \in Nat /\ DOMAIN s = 1 .. L
      BY <3>1, LenProperties
    <3> QED
      BY <1>1, <1>3, <1>8, <2>1, <3>1, <3>2, SMTT(90)
  <2>5. PlaceOf(s[m], w) = p + k.length
    BY <1>3, <1>4, <1>8, <2>1 DEF InOrder
  <2>6. /\ n.op = tool.op /\ n.stage = "fetch" /\ n.next = m /\ n.lengths = tool.lengths
        /\ n.got = got /\ n.content = tool.content
    BY <1>1, <2>2 DEF Tool
  <2>7. n \in Tool
    BY <1>1, <1>7, <1>8, <2>2, <2>4 DEF Tool
  <2>8. FetchChunk(n) = s[m]
    BY <1>3, <2>6 DEF FetchChunk
  <2>9. Fetching(n)
    BY <1>1, <1>3, <1>7, <1>8, <2>4, <2>5, <2>6, <2>8 DEF Fetching, StageFacts
  <2>10. StageFacts(n)
    BY <1>1, <2>6, <2>9 DEF StageFacts
  <2>11. n \in ToolState /\ n.stage = "fetch"
    BY <2>6, <2>7, <2>10 DEF ToolState
  <2> QED
    BY <2>3, <2>11, GoToTypes
<1>9. CASE ~Fail /\ ~(tool.next < Len(s))
  <2>1. tool.next = Len(s)
    <3>1. PICK L : L = Len(s)
      OBVIOUS
    <3>2. L \in Nat
      BY <3>1, LenProperties
    <3> QED
      BY <1>1, <1>3, <1>9, <3>1, <3>2
  <2>2. Len(got) = w + d /\ got \in Seq(Nat)
    BY <1>3, <1>4, <1>7, <1>9, <2>1 DEF InOrder
  <2>3. PICK image : image = FetchedImage
    OBVIOUS
  <2>4. image \in Image
    <3>1. w \in 0 .. Len(got)
      BY <2>2
    <3>2. Prefix(got, w) \in Seq(Nat) /\ From(got, w) \in Seq(Nat)
      BY <2>2, <3>1, PrefixOf, FromOf
    <3>3. tool.lengths[3] \in Nat
      <4>1. Len(tool.lengths) = 6
        BY <1>1 DEF StageFacts, Fetching
      <4> QED
        BY <1>1, <4>1, ElementOfSeq
    <3>4. image = [workspace |-> Prefix(got, w), data |-> From(got, w), lines |-> tool.lengths[3]]
      BY <1>3, <1>6, <2>3 DEF FetchedImage
    <3> QED
      BY <3>2, <3>3, <3>4 DEF Image
  <2>5. CASE tool.op = "exportProject"
    <3>1. PICK n : n = [tool EXCEPT !.stage = "metadata", !.image = <<image>>]
      OBVIOUS
    <3>2. GoTo(n)
      BY <1>3, <1>6, <1>9, <2>3, <2>5, <3>1 DEF HearFetch
    <3>3. <<image>> \in Seq(Image) /\ Len(<<image>>) = 1
      BY <2>4
    <3>4. PICK images : images = <<image>>
      OBVIOUS
    <3>5. /\ n.op = tool.op /\ n.stage = "metadata" /\ n.image = images /\ n.content = tool.content
      BY <1>1, <3>1, <3>4 DEF Tool
    <3>6. n \in Tool
      BY <1>1, <3>1, <3>3, <3>4 DEF Tool, Stages
    <3>7. StageFacts(n)
      BY <1>1, <3>3, <3>4, <3>5 DEF StageFacts
    <3>8. n \in ToolState /\ n.stage = "metadata"
      BY <3>5, <3>6, <3>7 DEF ToolState
    <3> QED
      BY <3>2, <3>8, GoToTypes
  <2>6. CASE tool.op # "exportProject"
    <3>1. PICK contents \in ImageEncode(image) : WriteFile(contents)
      BY <1>3, <1>6, <1>9, <2>3, <2>6 DEF HearFetch
    <3>2. contents \in Seq(Nat)
      BY <2>4, <3>1, ImageEncodeType
    <3> QED
      BY <3>1, <3>2, WriteTypes
  <2> QED
    BY <2>5, <2>6
<1> QED
  BY <1>2, <1>8, <1>9

\* The length of the text, and the first part of it.
LEMMA HearMetadataTypes ==
  ASSUME ToolInv, Rest \in Seq(Answers), tool.stage = "metadata", HearMetadata,
         \A kind : Said(kind) => FirstOf(kind) \in Answers /\ FirstOf(kind).kind = kind
  PROVE  ToolInv'
<1>1. tool \in ToolState /\ tool \in Tool /\ StageFacts(tool)
  BY ToolType DEF ToolInv
<1>2. CASE Fail
  BY <1>2, FailTypes
<1>3. CASE ~Fail
  <2>1. PICK fields : fields = FirstOf("metadata").cells
    OBVIOUS
  <2>2. PICK none : none = <<>>
    OBVIOUS
  <2>3. PICK n : n = [tool EXCEPT !.stage = "metafetch", !.next = 0, !.got = none, !.lengths = fields]
    OBVIOUS
  <2>4. GoTo(n) /\ Said("metadata") /\ fields[1] \in 1 .. HostMetadata /\ fields[2] \in 1 .. MetaChunk
    BY <1>3, <2>1, <2>2, <2>3 DEF HearMetadata
  <2>5. fields \in Seq(Nat) /\ Len(fields) = 2
    BY <2>1, <2>4, AnswerType
  <2>6. none \in Seq(Nat) /\ Len(none) = 0
    BY <2>2, EmptySeq
  <2>7. /\ n.op = tool.op /\ n.stage = "metafetch" /\ n.next = 0 /\ n.lengths = fields
        /\ n.got = none /\ n.image = tool.image /\ n.content = tool.content
    BY <1>1, <2>3 DEF Tool
  <2>8. n \in Tool
    BY <1>1, <2>3, <2>5, <2>6 DEF Tool, Stages
  <2>9. FetchingText(n)
    <3>1. fields[1] \in Nat /\ fields[1] > 0 /\ fields[2] # 0
      BY <2>4
    <3> QED
      BY <2>5, <2>6, <2>7, <3>1 DEF FetchingText
  <2>10. StageFacts(n)
    BY <1>1, <2>7, <2>9 DEF StageFacts
  <2>11. n \in ToolState /\ n.stage = "metafetch"
    BY <2>7, <2>8, <2>10 DEF ToolState
  <2> QED
    BY <2>4, <2>11, GoToTypes
<1> QED
  BY <1>2, <1>3

LEMMA HearMetadataFetchTypes ==
  ASSUME ToolInv, Rest \in Seq(Answers), tool.stage = "metafetch", HearMetadataFetch,
         \A kind : Said(kind) => FirstOf(kind) \in Answers /\ FirstOf(kind).kind = kind
  PROVE  ToolInv'
<1>1. tool \in ToolState /\ tool \in Tool /\ StageFacts(tool) /\ tool.got \in Seq(Nat)
      /\ tool.image \in Seq(Image)
  BY ToolType DEF ToolInv
<1>2. CASE Fail
  BY <1>2, FailTypes
<1>3. PICK got : got = MetaFetched
  OBVIOUS
<1>4. ASSUME ~Fail PROVE got \in Seq(Nat) /\ Len(got) \in Nat
  <2>1. Said("metachunk")
    BY <1>4 DEF HearMetadataFetch
  <2>2. FirstOf("metachunk").cells \in Seq(Nat)
    BY <2>1, AnswerType
  <2>3. got \in Seq(Nat)
    BY <1>1, <1>3, <2>2, ConcatProperties DEF MetaFetched
  <2> QED
    BY <2>3, LenProperties
<1>5. CASE ~Fail /\ Len(got) < tool.lengths[1]
  <2>1. PICK m : m = Len(got)
    OBVIOUS
  <2>2. PICK n : n = [tool EXCEPT !.next = m, !.got = got]
    OBVIOUS
  <2>3. GoTo(n)
    BY <1>3, <1>5, <2>1, <2>2 DEF HearMetadataFetch
  <2>4. /\ n.op = tool.op /\ n.stage = "metafetch" /\ n.next = m /\ n.lengths = tool.lengths
        /\ n.got = got /\ n.image = tool.image /\ n.content = tool.content
    BY <1>1, <2>2 DEF Tool
  <2>5. n \in Tool
    BY <1>1, <1>4, <1>5, <2>1, <2>2 DEF Tool
  <2>6. FetchingText(n)
    BY <1>1, <1>5, <2>1, <2>4 DEF FetchingText, StageFacts
  <2>7. StageFacts(n)
    BY <1>1, <2>4, <2>6 DEF StageFacts
  <2>8. n \in ToolState /\ n.stage = "metafetch"
    BY <2>4, <2>5, <2>7 DEF ToolState
  <2> QED
    BY <2>3, <2>8, GoToTypes
<1>6. CASE ~Fail /\ ~(Len(got) < tool.lengths[1])
  <2>1. PICK m \in MetadataDecode(got, HostLimits) :
          \E contents \in ProjectEncode([image |-> tool.image[1], metadata |-> m]) : WriteFile(contents)
    BY <1>3, <1>6 DEF HearMetadataFetch
  <2>2. m \in Metadata
    BY <1>4, <1>6, Constants, MetadataDecodeType
  <2>3. tool.image[1] \in Image
    <3>1. Len(tool.image) = 1
      BY <1>1 DEF StageFacts
    <3> QED
      BY <1>1, <3>1, ElementOfSeq
  <2>4. PICK project : project = [image |-> tool.image[1], metadata |-> m]
    OBVIOUS
  <2>5. project \in Project
    BY <2>2, <2>3, <2>4 DEF Project
  <2>6. PICK contents \in ProjectEncode(project) : WriteFile(contents)
    BY <2>1, <2>4
  <2>7. contents \in Seq(Nat)
    BY <2>5, <2>6, ProjectTypes
  <2> QED
    BY <2>6, <2>7, WriteTypes
<1> QED
  BY <1>2, <1>5, <1>6

\* The stages of an import.
LEMMA HearImportTypes ==
  ASSUME ToolInv, Rest \in Seq(Answers), tool.stage \in {"apply", "metaapply", "restore"},
         \/ tool.stage = "apply" /\ HearApply
         \/ tool.stage = "metaapply" /\ HearMetaApply
         \/ tool.stage = "restore" /\ HearRestore
  PROVE  ToolInv'
<1>1. tool \in ToolState /\ tool.op \in Imports /\ tool.next \in Nat
  BY ToolType DEF ToolInv, StageFacts
<1>2. CASE Fail
  BY <1>2, FailTypes
<1>3. CASE tool.stage = "apply" /\ HearApply /\ ~Fail
  <2>1. GoTo(Applying(tool, tool.next + 1))
    BY <1>3 DEF HearApply
  <2>2. PICK k : k = tool.next + 1
    OBVIOUS
  <2>3. k \in Nat \ {0}
    BY <1>1, <2>2
  <2>4. Applying(tool, k) \in ToolState /\ Applying(tool, k).stage \in {"apply", "metaapply", "restore"}
    BY <1>1, <1>3, <2>3, ApplyingType
  <2> QED
    BY <2>1, <2>2, <2>4, GoToTypes
<1>4. CASE tool.stage = "metaapply" /\ HearMetaApply /\ ~Fail
  <2>1. PICK n : n = [tool EXCEPT !.stage = "restore"]
    OBVIOUS
  <2>2. GoTo(n)
    BY <1>4, <2>1 DEF HearMetaApply
  <2>3. n \in ToolState /\ n.stage = "restore"
    BY <1>1, <1>4, <2>1, Restaged
  <2> QED
    BY <2>2, <2>3, GoToTypes
<1>5. CASE tool.stage = "restore" /\ HearRestore /\ ~Fail
  <2>1. Leave("imported") /\ file' \in Seq(Nat) /\ genuine' \in Seq(Nat) /\ "imported" \in Results
    BY <1>5 DEF HearRestore, ToolInv, Results
  <2> QED
    BY <2>1, LeaveTypes
<1> QED
  BY <1>2, <1>3, <1>4, <1>5

\* A payload, byte by byte.
LEMMA SendPayloadTypes ==
  ASSUME ToolInv, Rest \in Seq(Answers), Binary(tool), SendPayload PROVE ToolInv'
<1>1. tool \in ToolState /\ tool.stage # "idle"
  BY DEF ToolInv, Binary
<1>2. tool' = [tool EXCEPT !.sent = TRUE]
  BY DEF SendPayload
<1>3. tool' \in ToolState /\ tool'.stage = tool.stage
  BY <1>1, <1>2, Changed
<1>4. PICK bytes : bytes = Follows(tool)
  OBVIOUS
<1>5. bytes \in Seq(Nat)
  BY <1>1, <1>4, FollowsType
<1>6. PICK L : L = Len(bytes)
  OBVIOUS
<1>7. L \in Nat /\ DOMAIN bytes = 1 .. L /\ \A i \in 1 .. L : bytes[i] \in Nat
  BY <1>5, <1>6, LenProperties, ElementOfSeq
<1>8. \A value \in Nat : Byte(value) \in GuestLine
  BY DEF Byte, Command, GuestLine
<1>9. [i \in DOMAIN bytes |-> Byte(bytes[i])] \in [1 .. L -> GuestLine]
  BY <1>7, <1>8
<1>10. PICK sent : sent = [i \in DOMAIN bytes |-> Byte(bytes[i])]
  OBVIOUS
<1>11. sent \in Seq(GuestLine)
  BY <1>7, <1>9, <1>10, FunctionIsSeq
<1>12. toGuest' = toGuest \o sent
  BY <1>4, <1>10 DEF SendPayload
<1>13. toGuest' \in Seq(GuestLine)
  BY <1>11, <1>12, ConcatProperties DEF ToolInv
<1> QED
  BY <1>3, <1>13 DEF ToolInv, SendPayload

\* A step of the tool.
LEMMA ToolHearTypes == ASSUME Inv, ToolHear PROVE Inv'
<1>1. ToolInv /\ GuestInv /\ tool \in ToolState /\ toHost \in Seq(Answers) /\ tool.stage # "idle"
  BY DEF Inv, ToolInv, ToolHear
<1>2. /\ MarkerAt \in 1 .. Len(toHost) /\ Marker(toHost[MarkerAt]) /\ Rest \in Seq(Answers)
      /\ \A kind : Said(kind) => FirstOf(kind) \in Answers /\ FirstOf(kind).kind = kind
  BY <1>1, MarkerFound DEF ToolHear
<1>3. CASE toHost[MarkerAt] = Ready
  <2>1. Ready # Prompt
    BY DEF Ready, Prompt, Say, Answer
  <2>2. Binary(tool) /\ SendPayload
    BY <1>2, <1>3, <2>1 DEF Marker, ToolHear
  <2>3. ToolInv'
    BY <1>1, <1>2, <2>2, SendPayloadTypes
  <2> QED
    BY <1>1, <2>3 DEF Inv, GuestInv, ToolInv, ToolHear
<1>4. CASE toHost[MarkerAt] # Ready
  <2>1. tool.stage \in Stages \ {"idle"}
    BY <1>1, ToolType
  <2>2. \/ tool.stage = "connect" /\ GoTo([tool EXCEPT !.stage = "save"])
        \/ tool.stage = "save" /\ HearSave
        \/ tool.stage = "manifest" /\ HearManifest
        \/ tool.stage = "fetch" /\ HearFetch
        \/ tool.stage = "metadata" /\ HearMetadata
        \/ tool.stage = "metafetch" /\ HearMetadataFetch
        \/ tool.stage = "apply" /\ HearApply
        \/ tool.stage = "metaapply" /\ HearMetaApply
        \/ tool.stage = "restore" /\ HearRestore
    BY <1>4, <2>1 DEF ToolHear, Stages
  <2>3. ASSUME tool.stage = "connect", GoTo([tool EXCEPT !.stage = "save"]) PROVE ToolInv'
    <3>1. PICK n : n = [tool EXCEPT !.stage = "save"]
      OBVIOUS
    <3>2. n \in ToolState /\ n.stage = "save"
      BY <1>1, <2>3, <3>1, Restaged
    <3> QED
      BY <1>1, <1>2, <2>3, <3>1, <3>2, GoToTypes
  <2>4. ToolInv'
    BY <1>1, <1>2, <2>2, <2>3, HearSaveTypes, HearManifestTypes, HearFetchTypes, HearMetadataTypes,
       HearMetadataFetchTypes, HearImportTypes
  <2> QED
    BY <1>1, <2>4 DEF Inv, GuestInv, ToolInv, ToolHear
<1> QED
  BY <1>3, <1>4

\* A run starts: the file of an import is decoded first.
LEMMA DecodedTypes ==
  ASSUME file \in Seq(Nat), NEW op \in Imports
  PROVE  /\ Decoded(op) \subseteq [image : Image] \cup Project
         /\ op = "importProject" =>
              \A p \in Decoded(op) : p \in Project /\ MetadataEncode(p.metadata) # {}
  BY ImageDecodeType, ProjectTypes DEF Decoded, Imports

LEMMA ToolStartTypes == ASSUME Inv, NEW op \in Exports \cup Imports, ToolStart(op) PROVE Inv'
<1>1. ToolInv /\ GuestInv /\ GuestInv' /\ left' \in [runs : Nat, events : Nat]
  BY DEF Inv, GuestInv, ToolStart
<1>2. CASE op \in Imports /\ Decoded(op) = {}
  BY <1>1, <1>2 DEF Inv, ToolInv, ToolStart, Results
<1>3. CASE ~(op \in Imports /\ Decoded(op) = {})
  <2>1. PICK content : content = IF op \in Imports THEN Decoded(op) ELSE {}
    OBVIOUS
  <2>2. tool' = [NoTool EXCEPT !.op = op, !.stage = "connect", !.content = content]
    BY <1>3, <2>1 DEF ToolStart
  <2>3. tool' = [op |-> op, stage |-> "connect", sent |-> FALSE, next |-> 0, got |-> <<>>,
                 lengths |-> <<>>, image |-> <<>>, content |-> content]
    BY <2>2 DEF NoTool
  <2>4. /\ content \subseteq [image : Image] \cup Project
        /\ op = "importProject" => \A p \in content : p \in Project /\ MetadataEncode(p.metadata) # {}
        /\ op \in Imports => content # {}
    BY <1>1, <1>3, <2>1, DecodedTypes DEF ToolInv, Imports, Exports
  <2>5. <<>> \in Seq(Nat) /\ <<>> \in Seq(Image)
    BY EmptySeq
  <2>6. tool' \in Tool
    BY <2>3, <2>4, <2>5 DEF Tool, Stages
  <2>7. tool'.op = op /\ tool'.stage = "connect" /\ tool'.got = <<>> /\ tool'.content = content
    BY <2>3
  <2>8. StageFacts(tool')
    BY <2>4, <2>7 DEF StageFacts, Imports, Exports
  <2>9. tool' \in ToolState
    BY <2>6, <2>8 DEF ToolState
  <2>10. typeahead' \in BOOLEAN /\ swallowed' \in BOOLEAN
    BY <1>3 DEF ToolStart, PartialLine
  <2> QED
    BY <1>1, <1>3, <2>7, <2>9, <2>10 DEF Inv, ToolInv, ToolStart, Results
<1> QED
  BY <1>2, <1>3

\* The terminal, a broken link and a file that changes.
LEMMA TerminalTypes ==
  ASSUME Inv, TerminalOpen \/ TerminalClose \/ \E c \in Typed : TerminalType(c)
  PROVE  Inv'
<1>1. <<>> \in Seq(Answers)
  BY EmptySeq
<1>2. CASE TerminalOpen
  BY <1>1, <1>2 DEF Inv, GuestInv, ToolInv, TerminalOpen, Outside, histories
<1>3. CASE TerminalClose
  BY <1>3 DEF Inv, GuestInv, ToolInv, TerminalClose, Outside, histories
<1>4. CASE \E c \in Typed : TerminalType(c)
  <2>1. PICK c \in Typed : TerminalType(c)
    BY <1>4
  <2>2. c \in GuestLine
    BY Constants
  <2>3. toGuest' \in Seq(GuestLine)
    BY <2>1, <2>2, AppendProperties DEF Inv, GuestInv, TerminalType
  <2>4. left' \in [runs : Nat, events : Nat]
    BY <2>1 DEF Inv, TerminalType, Happens
  <2> QED
    BY <2>1, <2>3, <2>4 DEF Inv, GuestInv, ToolInv, TerminalType, Outside, histories
<1> QED
  BY <1>2, <1>3, <1>4

LEMMA DropTypes == ASSUME Inv, Drop PROVE Inv'
<1>1. <<>> \in Seq(Answers)
  BY EmptySeq
<1>2. PICK n \in 0 .. Len(toGuest) : toGuest' = Prefix(toGuest, n)
  BY DEF Drop
<1>3. toGuest' \in Seq(GuestLine)
  BY <1>2, PrefixOf DEF Inv, GuestInv
<1>4. left' \in [runs : Nat, events : Nat]
  BY DEF Inv, Drop, Happens
<1> QED
  BY <1>1, <1>3, <1>4, NoToolType DEF Inv, GuestInv, ToolInv, Drop, histories, Results

LEMMA CorruptTypes == ASSUME Inv, Corrupt PROVE Inv'
<1>1. file \in Seq(Nat) /\ file # <<>>
  BY DEF Inv, ToolInv, Corrupt
<1>2. left' \in [runs : Nat, events : Nat]
  BY DEF Inv, Corrupt, Happens
<1>3. PICK L : L = Len(file)
  OBVIOUS
<1>4. L \in Nat \ {0} /\ DOMAIN file = 1 .. L /\ \A i \in 1 .. L : file[i] \in Nat
  BY <1>1, <1>3, EmptySeq, LenProperties, ElementOfSeq
<1>5. file' \in Seq(Nat)
  <2>1. \/ \E i \in DOMAIN file : file' = [file EXCEPT ![i] = file[i] + 1]
        \/ file' = Prefix(file, L - 1)
        \/ file' = Append(file, 0)
    BY <1>3 DEF Corrupt
  <2>2. ASSUME NEW i \in DOMAIN file PROVE [file EXCEPT ![i] = file[i] + 1] \in Seq(Nat)
    <3>1. file[i] + 1 \in Nat /\ i \in 1 .. Len(file)
      BY <1>3, <1>4
    <3> QED
      BY <1>1, <3>1, ExceptSeq
  <2>3. Prefix(file, L - 1) \in Seq(Nat)
    <3>1. L - 1 \in 0 .. Len(file)
      BY <1>3, <1>4
    <3> QED
      BY <1>1, <3>1, PrefixOf
  <2>4. Append(file, 0) \in Seq(Nat)
    BY <1>1, AppendProperties
  <2> QED
    BY <2>1, <2>2, <2>3, <2>4
<1> QED
  BY <1>2, <1>5 DEF Inv, GuestInv, ToolInv, Corrupt, line, histories

-----------------------------------------------------------------------------
(* Together.                                                               *)

LEMMA TransferInit == Init => Inv
<1> SUFFICES ASSUME Init PROVE Inv
  OBVIOUS
<1>1. <<>> \in Seq(GuestLine) /\ <<Prompt>> \in Seq(Answers)
  BY EmptySeq, SayType DEF Prompt
<1>2. GuestInv
  BY <1>1, Constants, EmptySlotType, WaitingType DEF Init, GuestInv
<1>3. left \in [runs : Nat, events : Nat]
  BY TransferAssumption DEF Init
<1>4. file \in Seq(Nat) /\ genuine \in Seq(Nat)
  BY Constants DEF Init
<1> QED
  BY <1>1, <1>2, <1>3, <1>4, NoToolType DEF Init, Inv, ToolInv, Results

LEMMA TransferStep == Inv /\ [Next]_vars => Inv'
<1> SUFFICES ASSUME Inv, [Next]_vars PROVE Inv'
  OBVIOUS
<1>1. CASE Guest
  <2>1. GuestInv
    BY DEF Inv
  <2>2. GuestInv'
    BY <1>1, <2>1, GuestCommandTypes, GuestByteTypes, GuestLineAsPayloadTypes DEF Guest
  <2>3. /\ UNCHANGED <<link, tool, file, result, typeahead, genuine, left>>
        /\ swallowed' = swallowed \/ swallowed' = TRUE
    BY <1>1 DEF Guest, GuestCommand, GuestByte, GuestLineAsPayload, histories
  <2> QED
    BY <2>2, <2>3 DEF Inv, GuestInv, ToolInv
<1>2. CASE ToolHear
  BY <1>2, ToolHearTypes
<1>3. CASE User
  BY <1>3, ToolStartTypes, TerminalTypes DEF User
<1>4. CASE Drop
  BY <1>4, DropTypes
<1>5. CASE Corrupt
  BY <1>5, CorruptTypes
<1>6. CASE UNCHANGED vars
  BY <1>6 DEF Inv, GuestInv, ToolInv, vars, line, histories
<1> QED
  BY <1>1, <1>2, <1>3, <1>4, <1>5, <1>6 DEF Next

LEMMA TransferTypes == Inv => TypeOK
<1> SUFFICES ASSUME Inv PROVE TypeOK
  OBVIOUS
<1>1. guest \in GuestLoop /\ (guest.mode = "payload" => Len(guest.buffer) < Payload(guest.command))
  BY GuestStateType DEF Inv, GuestInv, Reads
<1>2. toHost \in Seq(GuestAnswer)
  <2>1. Answers \subseteq GuestAnswer
    BY DEF Answers
  <2> QED
    BY <2>1, SeqMonotonic DEF Inv, GuestInv
<1>3. tool \in Tool
  BY ToolType DEF Inv, ToolInv
<1> QED
  BY <1>1, <1>2, <1>3 DEF Inv, GuestInv, ToolInv, Results, TypeOK

\* TypeOK of the run: the two regions of the slot keep their size, the slot
\* always holds lines and symbols, and a payload stays within what its
\* command announced, whatever cut it short and whatever was typed into it
\* (snapshot_patch_binary, snapshot_patch_rle, snapshot_metadata_apply); and
\* the tool never steps beyond the chunks of its manifest or of its file.
THEOREM TransferIsTyped == Spec => []TypeOK
<1>1. Spec => []Inv
  BY TransferInit, TransferStep, PTL DEF Spec
<1> QED
  BY <1>1, TransferTypes, PTL
=============================================================================
