---------------------------- MODULE MCMachineFloat ----------------------------
(* Formats of 5 and 10 bits.  Every binary32 pair and every binary64 number *)
(* is loaded; binary64 sums are taken over the numbers around the           *)
(* boundaries.                                                              *)
EXTENDS FloatReference

MCSingle == [exp |-> 2, frac |-> 2]
MCDouble == [exp |-> 4, frac |-> 5]

Load(a, b, n) == [f |-> [f0 |-> a, f1 |-> b], x |-> [x0 |-> 0, x1 |-> n]]

\* Around zero, the smallest normal number, one, a tie, the largest number,
\* infinity; the same negative.
Boundary == {0, 1, 31, 32, 33, 224, 225, 257, 479, 480, 496}
BoundaryDoubles == Boundary \cup {512 + w : w \in Boundary}

MCLoads == {Load(Box(s), Box(t), 0) : s, t \in 0 .. 31}
             \cup {Load(d, 0, d) : d \in 0 .. 1023}
             \cup {Load(d, e, 0) : d, e \in BoundaryDoubles}

MCFcsrs == {[frm |-> 2, fflags |-> {"DZ"}], [frm |-> 6, fflags |-> {}]}
=============================================================================
