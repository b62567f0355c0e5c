--------------------------- MODULE BufAllocProofs ---------------------------
(***************************************************************************)
(* Proofs about BufAlloc, for every layout of the program's mappings.      *)
(*                                                                         *)
(* GroundInv holds whatever is asked for.  The free intervals are whole    *)
(* pages of the holes that /proc/self/maps showed, apart from each other;  *)
(* an area is mapped inside an interval that no other area is in, and      *)
(* below its object; so the pages replaced are among those the program     *)
(* has mapped since.                                                       *)
(*                                                                         *)
(* BufferInv is about what is cut off the areas: the buffers of an object  *)
(* and the rest of its pool lie in its areas and do not overlap.  It is    *)
(* lost when a buffer uses a pool up to the last byte, for the size of     *)
(* the rest, less one byte more, then wraps around: BufAllocExact shows    *)
(* that.  So the theorems about buffers have the hypothesis that it does   *)
(* not happen.                                                             *)
(***************************************************************************)
EXTENDS BufAlloc, TLAPS, WellFoundedInduction, FiniteSetTheorems

-----------------------------------------------------------------------------
(***************************************************************************)
(* Products, quotients and whole numbers of pages.                         *)
(***************************************************************************)
LEMMA TimesOrder ==
  ASSUME NEW a \in Nat, NEW b \in Nat, NEW q \in Nat \ {0}
  PROVE  /\ a <= b => a * q <= b * q
         /\ a < b => (a + 1) * q <= b * q
         /\ a * q < b * q => a < b
         /\ a * q \in Nat /\ (a + 1) * q = a * q + q
  OBVIOUS

LEMMA TimesApart ==
  ASSUME NEW a \in Nat, NEW b \in Nat, NEW q \in Nat \ {0}, a < b
  PROVE  b * q - a * q = (b - a) * q
  OBVIOUS

LEMMA TimesThree ==
  ASSUME NEW a \in Nat, NEW b \in Nat, NEW q \in Nat
  PROVE  a * (b * q) = (a * b) * q /\ a * b \in Nat /\ (a + b) * q = a * q + b * q
  OBVIOUS

\* Division with remainder.
LEMMA DivMod ==
  ASSUME NEW n \in Nat, NEW q \in Nat \ {0}
  PROVE  /\ n \div q \in Nat /\ n % q \in 0 .. q - 1
         /\ n = (n \div q) * q + (n % q)
  OBVIOUS

LEMMA DivOf ==
  ASSUME NEW c \in Nat, NEW q \in Nat \ {0}, NEW r \in 0 .. q - 1
  PROVE  (c * q + r) \div q = c
  OBVIOUS

\* A size that % says is a multiple.
LEMMA Multiple ==
  ASSUME NEW n \in Nat, NEW q \in Nat \ {0}, n % q = 0
  PROVE  n \div q \in Nat /\ n = (n \div q) * q
  BY DivMod

LEMMA RoundUpWhole ==
  ASSUME NEW c \in Nat
  PROVE  RoundUp(c * PageSize) = c * PageSize
  <1>1. PageSize \in Nat \ {0} /\ PageSize - 1 \in 0 .. PageSize - 1 /\ c * PageSize \in Nat
    BY SizeAssumption
  <1>2. (c * PageSize + (PageSize - 1)) \div PageSize = c
    BY <1>1, DivOf
  <1>3. c * PageSize + (PageSize - 1) = c * PageSize + PageSize - 1
    BY <1>1
  <1>4. QED BY <1>2, <1>3 DEF RoundUp

LEMMA LeastIsMember ==
  ASSUME NEW S \in SUBSET Nat, S # {}
  PROVE  \E x \in S : \A y \in S : x <= y
  <1>1. PICK x \in S : \A y \in S : ~ (<<y, x>> \in OpToRel(<, Nat))
    BY NatLessThanWellFounded, WFMin
  <1>2. \A y \in S : y < x => <<y, x>> \in OpToRel(<, Nat)
    BY DEF OpToRel
  <1>3. \A y \in S : ~ (y < x)
    BY <1>1, <1>2, Zenon
  <1>4. \A y \in S : x <= y
    BY <1>3
  <1>5. QED BY <1>4

-----------------------------------------------------------------------------
(***************************************************************************)
(* The free intervals.                                                     *)
(***************************************************************************)
IsInterval(i) == i.start \in Nat /\ i.end \in Nat /\ i.start < i.end

Apart(x, y) == x.end <= y.start \/ y.end <= x.start

Within(x, y) == y.start <= x.start /\ x.end <= y.end

Whole(i) == \E c \in Nat \ {0} : i.end = i.start + c * PageSize

\* No page of L begins in i.
Clear(i, L) == \A p \in L : ~ (i.start <= p * PageSize /\ p * PageSize < i.end)

LEMMA HoleFacts ==
  ASSUME NEW L \in SUBSET Nat, NEW h \in Holes(L)
  PROVE  /\ h[1] \in Nat /\ h[2] \in L /\ h[2] \in Nat /\ h[1] < h[2]
         /\ h[1] # 0 => h[1] - 1 \in L
         /\ \A p \in L : ~ (h[1] <= p /\ p < h[2])
         /\ h = <<h[1], h[2]>>
  <1>1. h \in ({0} \union {p + 1 : p \in L}) \X L
    BY DEF Holes
  <1>2. h[1] \in {0} \union {p + 1 : p \in L} /\ h[2] \in L /\ h = <<h[1], h[2]>>
    BY <1>1
  <1>3. h[1] \in Nat /\ h[2] \in Nat /\ (h[1] # 0 => h[1] - 1 \in L)
    BY <1>2
  <1>4. h[1] < h[2] /\ \A p \in h[1] .. h[2] - 1 : p \notin L
    BY DEF Holes
  <1>5. \A p \in L : ~ (h[1] <= p /\ p < h[2])
    BY <1>3, <1>4
  <1>6. QED BY <1>2, <1>3, <1>4, <1>5

LEMMA HolesApart ==
  ASSUME NEW L \in SUBSET Nat, NEW h \in Holes(L), NEW g \in Holes(L), h # g
  PROVE  h[2] <= g[1] \/ g[2] <= h[1]
  <1>1. /\ h[1] \in Nat /\ h[2] \in L /\ h[2] \in Nat /\ h[1] < h[2]
        /\ h[1] # 0 => h[1] - 1 \in L
        /\ \A p \in L : ~ (h[1] <= p /\ p < h[2])
        /\ h = <<h[1], h[2]>>
    BY HoleFacts
  <1>2. /\ g[1] \in Nat /\ g[2] \in L /\ g[2] \in Nat /\ g[1] < g[2]
        /\ g[1] # 0 => g[1] - 1 \in L
        /\ \A p \in L : ~ (g[1] <= p /\ p < g[2])
        /\ g = <<g[1], g[2]>>
    BY HoleFacts
  <1>3. CASE h[2] = g[2]
    <2>1. h[1] # g[1]
      BY <1>1, <1>2, <1>3
    <2>2. CASE h[1] < g[1]
      <3>1. g[1] - 1 \in L /\ h[1] <= g[1] - 1 /\ g[1] - 1 < h[2]
        BY <1>1, <1>2, <1>3, <2>2
      <3>2. QED BY <1>1, <3>1
    <2>3. CASE g[1] < h[1]
      <3>1. h[1] - 1 \in L /\ g[1] <= h[1] - 1 /\ h[1] - 1 < g[2]
        BY <1>1, <1>2, <1>3, <2>3
      <3>2. QED BY <1>2, <3>1
    <2>4. QED BY <1>1, <1>2, <2>1, <2>2, <2>3
  <1>4. CASE h[2] < g[2]
    BY <1>1, <1>2, <1>4
  <1>5. CASE g[2] < h[2]
    BY <1>1, <1>2, <1>5
  <1>6. QED BY <1>1, <1>2, <1>3, <1>4, <1>5

\* What Trim leaves of a hole: the upper end of it, in whole pages.
LEMMA TrimFacts ==
  ASSUME NEW a \in Nat, NEW b \in Nat, a < b
  PROVE  LET t == Trim(a * PageSize, b * PageSize) IN
         /\ t.start \in Nat /\ t.end = b * PageSize
         /\ a * PageSize <= t.start
         /\ \E c \in Nat : t.end = t.start + c * PageSize
  <1> DEFINE P == PageSize
             t == Trim(a * P, b * P)
             d == Distance \div P
  <1>1. /\ P \in Nat \ {0} /\ Distance \in Nat
        /\ d \in Nat /\ Distance = d * P
    BY SizeAssumption, Multiple
  <1> HIDE DEF P, d
  <1>2. /\ a * P \in Nat /\ b * P \in Nat /\ b * P - a * P = (b - a) * P /\ b - a \in Nat
        /\ a * P <= b * P
    BY <1>1, TimesApart, TimesOrder
  <1>3. CASE b * P - a * P > Distance
    <2>1. d < b - a
      BY <1>1, <1>2, <1>3, TimesOrder
    <2>2. d <= b /\ b - d \in Nat /\ b * P - d * P = (b - d) * P /\ a <= b - d
      <3>1. d < b /\ b - d \in Nat /\ a <= b - d
        BY <1>1, <2>1
      <3>2. QED BY <1>1, <3>1, TimesApart
    <2>3. a * P <= (b - d) * P /\ (b - d) * P \in Nat
      BY <1>1, <2>2, TimesOrder
    <2>4. t = [start |-> b * P - Distance, end |-> b * P]
      BY <1>3 DEF Trim, Interval
    <2>5. t.start = (b - d) * P /\ t.end = b * P /\ t.end = t.start + d * P
      BY <1>1, <1>2, <2>2, <2>3, <2>4
    <2>6. QED BY <1>1, <2>3, <2>5 DEF P
  <1>4. CASE ~ (b * P - a * P > Distance)
    <2>1. t = [start |-> a * P, end |-> b * P]
      BY <1>4 DEF Trim, Interval
    <2>2. t.end = t.start + (b - a) * P
      BY <1>2, <2>1
    <2>3. QED BY <1>2, <2>1, <2>2 DEF P
  <1>5. QED BY <1>3, <1>4

\* Where the k-th piece of a stretch h begins and ends.
PieceAt(h, k) ==
  Interval(h.start + k * MaxInterval,
           IF h.start + (k + 1) * MaxInterval > h.end
             THEN h.end ELSE h.start + (k + 1) * MaxInterval)

LEMMA PiecesOf ==
  ASSUME NEW h, NEW i \in Pieces(h)
  PROVE  \E k \in 0 .. h.end : h.start + k * MaxInterval < h.end /\ i = PieceAt(h, k)
  BY DEF Pieces, PieceAt

LEMMA PieceFacts ==
  ASSUME NEW h, h.start \in Nat, h.end \in Nat,
         NEW c \in Nat, h.end = h.start + c * PageSize,
         NEW k \in Nat, h.start + k * MaxInterval < h.end
  PROVE  LET i == PieceAt(h, k) IN
         /\ IsInterval(i) /\ Within(i, h) /\ Whole(i)
         /\ i.end <= i.start + MaxInterval
         /\ i.start = h.start + k * MaxInterval
         /\ i.end <= h.start + (k + 1) * MaxInterval
  <1> DEFINE P == PageSize
             M == MaxInterval
             m == M \div P
             i == PieceAt(h, k)
  <1>1. P \in Nat \ {0} /\ M \in Nat \ {0} /\ m \in Nat /\ M = m * P
    BY SizeAssumption, Multiple
  <1>2. i.start = h.start + k * M
        /\ i.end = IF h.start + (k + 1) * M > h.end THEN h.end ELSE h.start + (k + 1) * M
    BY DEF PieceAt, Interval
  <1> HIDE DEF P, M, m, i
  <1>3. k * M \in Nat /\ (k + 1) * M = k * M + M
    BY <1>1, TimesOrder
  <1>4. k * M = (k * m) * P /\ k * m \in Nat
    BY <1>1, TimesThree
  <1>5. m # 0
    BY <1>1
  <1>6. CASE h.start + (k + 1) * M > h.end
    <2>1. i.end = h.end /\ h.start + k * M < h.end
      BY <1>2, <1>6 DEF M
    <2>2. (k * m) * P < c * P
      BY <1>1, <1>3, <1>4, <2>1 DEF P, M
    <2>3. k * m < c
      BY <1>1, <1>4, <2>2, TimesOrder
    <2>4. c * P - (k * m) * P = (c - k * m) * P /\ c - k * m \in Nat \ {0}
      BY <1>1, <1>4, <2>3, TimesApart
    <2>5. i.end = i.start + (c - k * m) * P
      <3>1. i.end = h.start + c * P /\ c * P \in Nat
        BY <1>1, <2>1 DEF P
      <3>2. i.start = h.start + (k * m) * P /\ (k * m) * P \in Nat
        BY <1>1, <1>2, <1>3, <1>4
      <3>3. QED BY <2>4, <3>1, <3>2
    <2>6. Whole(i)
      BY <2>4, <2>5 DEF Whole, P
    <2>7. IsInterval(i) /\ Within(i, h) /\ i.end <= i.start + M /\ i.end <= h.start + (k + 1) * M
      BY <1>1, <1>2, <1>3, <1>6, <2>1 DEF IsInterval, Within, M
    <2>8. QED BY <1>2, <2>6, <2>7 DEF M, i
  <1>7. CASE ~ (h.start + (k + 1) * M > h.end)
    <2>1. i.end = h.start + (k + 1) * M /\ i.end <= h.end
      BY <1>1, <1>2, <1>3, <1>7
    <2>2. i.end = i.start + m * P /\ i.start \in Nat
      BY <1>1, <1>2, <1>3, <2>1
    <2>3. Whole(i)
      BY <1>1, <1>5, <2>2 DEF Whole, P
    <2>4. IsInterval(i) /\ Within(i, h) /\ i.end <= i.start + M /\ i.end <= h.start + (k + 1) * M
      BY <1>1, <1>2, <1>3, <2>1 DEF IsInterval, Within
    <2>5. QED BY <1>2, <2>3, <2>4 DEF M, i
  <1>8. QED BY <1>6, <1>7

\* What UpdateFreeIntervals makes of the holes of L, of which the proofs need
\* no more than this.
IntervalsOK(S, L) ==
  /\ \A i \in S : /\ IsInterval(i) /\ Whole(i)
                  /\ i.end <= i.start + MaxInterval
                  /\ Clear(i, L)
  /\ \A i, j \in S : i # j => Apart(i, j)

LEMMA StretchOfHole ==
  ASSUME NEW L \in SUBSET Nat, NEW h \in Holes(L),
         NEW i \in Pieces(Trim(h[1] * PageSize, h[2] * PageSize))
  PROVE  LET t == Trim(h[1] * PageSize, h[2] * PageSize) IN
         \E k \in Nat :
            /\ i = PieceAt(t, k)
            /\ IsInterval(i) /\ Whole(i) /\ i.end <= i.start + MaxInterval
            /\ h[1] * PageSize <= i.start /\ i.end <= h[2] * PageSize
            /\ t.start \in Nat
            /\ i.start = t.start + k * MaxInterval /\ i.end <= t.start + (k + 1) * MaxInterval
  <1> DEFINE t == Trim(h[1] * PageSize, h[2] * PageSize)
  <1>1. h[1] \in Nat /\ h[2] \in Nat /\ h[1] < h[2]
    BY HoleFacts
  <1>2. PICK c \in Nat : t.end = t.start + c * PageSize
    BY <1>1, TrimFacts
  <1>3. t.start \in Nat /\ t.end = h[2] * PageSize /\ h[1] * PageSize <= t.start
        /\ h[2] * PageSize \in Nat /\ h[1] * PageSize \in Nat
    <2>1. PageSize \in Nat \ {0}
      BY SizeAssumption
    <2>2. h[2] * PageSize \in Nat /\ h[1] * PageSize \in Nat
      BY <1>1, <2>1
    <2>3. QED BY <1>1, <2>2, TrimFacts
  <1> HIDE DEF t
  <1>4. PICK k \in 0 .. t.end : t.start + k * MaxInterval < t.end /\ i = PieceAt(t, k)
    BY PiecesOf DEF t
  <1>5. k \in Nat
    BY <1>3, <1>4
  <1>6. /\ IsInterval(i) /\ Within(i, t) /\ Whole(i)
        /\ i.end <= i.start + MaxInterval
        /\ i.start = t.start + k * MaxInterval
        /\ i.end <= t.start + (k + 1) * MaxInterval
    BY <1>2, <1>3, <1>4, <1>5, PieceFacts
  <1>7. h[1] * PageSize <= i.start /\ i.end <= h[2] * PageSize
    BY <1>3, <1>6 DEF Within, IsInterval
  <1>8. QED BY <1>3, <1>4, <1>5, <1>6, <1>7 DEF t

LEMMA FreeIntervalsOK ==
  ASSUME NEW L \in Layouts
  PROVE  IntervalsOK(FreeIntervals(L), L)
  <1> DEFINE T(h) == Trim(h[1] * PageSize, h[2] * PageSize)
  <1>0. L \in SUBSET Nat /\ PageSize \in Nat \ {0} /\ MaxInterval \in Nat \ {0}
    BY SizeAssumption, LayoutAssumption
  <1>1. ASSUME NEW i \in FreeIntervals(L)
        PROVE  \E h \in Holes(L) : i \in Pieces(T(h))
    BY DEF FreeIntervals
  <1>2. ASSUME NEW i \in FreeIntervals(L)
        PROVE  /\ IsInterval(i) /\ Whole(i) /\ i.end <= i.start + MaxInterval
               /\ Clear(i, L)
    <2>1. PICK h \in Holes(L) : i \in Pieces(T(h))
      BY <1>1
    <2>2. /\ h[1] \in Nat /\ h[2] \in Nat
          /\ \A p \in L : ~ (h[1] <= p /\ p < h[2])
      BY <1>0, HoleFacts
    <2>3. /\ IsInterval(i) /\ Whole(i) /\ i.end <= i.start + MaxInterval
          /\ h[1] * PageSize <= i.start /\ i.end <= h[2] * PageSize
      BY <1>0, <2>1, StretchOfHole
    <2>4. ASSUME NEW p \in L, i.start <= p * PageSize, p * PageSize < i.end PROVE FALSE
      <3>1. p \in Nat /\ p * PageSize \in Nat /\ h[1] * PageSize \in Nat /\ h[2] * PageSize \in Nat
        BY <1>0, <2>2
      <3>2. p * PageSize < h[2] * PageSize /\ ~ (p * PageSize < h[1] * PageSize)
        BY <2>3, <2>4, <3>1 DEF IsInterval
      <3>3. p < h[2]
        BY <1>0, <2>2, <3>1, <3>2, TimesOrder
      <3>4. p < h[1] => (p + 1) * PageSize <= h[1] * PageSize /\ (p + 1) * PageSize = p * PageSize + PageSize
        BY <1>0, <2>2, <3>1, TimesOrder
      <3>5. ~ (p < h[1])
        BY <1>0, <3>1, <3>2, <3>4
      <3>6. QED BY <2>2, <3>1, <3>3, <3>5
    <2>5. QED BY <2>3, <2>4 DEF Clear
  <1>3. ASSUME NEW i \in FreeIntervals(L), NEW j \in FreeIntervals(L), i # j
        PROVE  Apart(i, j)
    <2>1. PICK h \in Holes(L) : i \in Pieces(T(h))
      BY <1>1
    <2>2. PICK g \in Holes(L) : j \in Pieces(T(g))
      BY <1>1
    <2>3. PICK k \in Nat : /\ i = PieceAt(T(h), k) /\ IsInterval(i)
                           /\ h[1] * PageSize <= i.start /\ i.end <= h[2] * PageSize
                           /\ T(h).start \in Nat
                           /\ i.start = T(h).start + k * MaxInterval
                           /\ i.end <= T(h).start + (k + 1) * MaxInterval
      BY <1>0, <2>1, StretchOfHole
    <2>4. PICK l \in Nat : /\ j = PieceAt(T(g), l) /\ IsInterval(j)
                           /\ g[1] * PageSize <= j.start /\ j.end <= g[2] * PageSize
                           /\ T(g).start \in Nat
                           /\ j.start = T(g).start + l * MaxInterval
                           /\ j.end <= T(g).start + (l + 1) * MaxInterval
      BY <1>0, <2>2, StretchOfHole
    <2>5. h[1] \in Nat /\ h[2] \in Nat /\ g[1] \in Nat /\ g[2] \in Nat
      BY <1>0, HoleFacts
    <2>6. CASE h = g
      <3>1. k # l
        BY <1>3, <2>3, <2>4, <2>6
      <3>2. \A x, y \in Nat : x < y => (x + 1) * MaxInterval <= y * MaxInterval
                                       /\ (x + 1) * MaxInterval \in Nat /\ y * MaxInterval \in Nat
        <4> TAKE x, y \in Nat
        <4> HAVE x < y
        <4>1. x + 1 \in Nat
          OBVIOUS
        <4>2. (x + 1) * MaxInterval \in Nat /\ y * MaxInterval \in Nat
          BY <1>0, <4>1, TimesOrder
        <4>3. (x + 1) * MaxInterval <= y * MaxInterval
          BY <1>0, TimesOrder
        <4>4. QED BY <4>2, <4>3
      <3>3. CASE k < l
        <4>1. /\ (k + 1) * MaxInterval <= l * MaxInterval
              /\ (k + 1) * MaxInterval \in Nat /\ l * MaxInterval \in Nat
          BY <3>2, <3>3
        <4>2. i.end <= j.start
          BY <2>3, <2>4, <2>6, <4>1 DEF IsInterval
        <4>3. QED BY <4>2 DEF Apart
      <3>4. CASE l < k
        <4>1. /\ (l + 1) * MaxInterval <= k * MaxInterval
              /\ (l + 1) * MaxInterval \in Nat /\ k * MaxInterval \in Nat
          BY <3>2, <3>4
        <4>2. j.end <= i.start
          BY <2>3, <2>4, <2>6, <4>1 DEF IsInterval
        <4>3. QED BY <4>2 DEF Apart
      <3>5. QED BY <3>1, <3>3, <3>4
    <2>7. CASE h # g
      <3>1. h[2] <= g[1] \/ g[2] <= h[1]
        BY <1>0, <2>7, HolesApart
      <3>2. \A x, y \in Nat : x <= y => x * PageSize <= y * PageSize
                                        /\ x * PageSize \in Nat /\ y * PageSize \in Nat
        BY <1>0, TimesOrder
      <3>3. CASE h[2] <= g[1]
        <4>1. /\ h[2] * PageSize <= g[1] * PageSize
              /\ h[2] * PageSize \in Nat /\ g[1] * PageSize \in Nat
          BY <2>5, <3>2, <3>3
        <4>2. i.end <= j.start
          BY <2>3, <2>4, <4>1 DEF IsInterval
        <4>3. QED BY <4>2 DEF Apart
      <3>4. CASE g[2] <= h[1]
        <4>1. /\ g[2] * PageSize <= h[1] * PageSize
              /\ g[2] * PageSize \in Nat /\ h[1] * PageSize \in Nat
          BY <2>5, <3>2, <3>4
        <4>2. j.end <= i.start
          BY <2>3, <2>4, <4>1 DEF IsInterval
        <4>3. QED BY <4>2 DEF Apart
      <3>5. QED BY <3>1, <3>3, <3>4
    <2>8. QED BY <2>6, <2>7
  <1>4. QED BY <1>2, <1>3 DEF IntervalsOK

-----------------------------------------------------------------------------
(***************************************************************************)
(* The interval that is taken, and what is mapped of it.                   *)
(***************************************************************************)
LEMMA TakenFacts ==
  ASSUME NEW L, IntervalsOK(intervals, L), NEW o, NEW i \in Taken(o)
  PROVE  i \in Suitable(o) /\ i \in intervals /\ i \notin used /\ Taken(o) = {i}
  <1> DEFINE S == Suitable(o)
             T == {j.start : j \in S}
  <1>1. S # {} /\ Taken(o) = {Lowest(S)} /\ i = Lowest(S)
    BY DEF Taken
  <1>2. S \subseteq intervals \ used
    BY DEF Suitable
  <1>3. \A j \in S : j.start \in Nat
    BY <1>2 DEF IntervalsOK, IsInterval
  <1> HIDE DEF S
  <1>4. T \in SUBSET Nat /\ T # {}
    BY <1>1, <1>3
  <1> HIDE DEF T
  <1>5. PICK x \in T : \A y \in T : x <= y
    BY <1>4, LeastIsMember
  <1>6. PICK j \in S : x = j.start
    BY DEF T
  <1>7. \A k \in S : j.start <= k.start
    BY <1>5, <1>6 DEF T
  <1>8. Lowest(S) \in S
    BY <1>7 DEF Lowest
  <1>9. QED BY <1>1, <1>2, <1>8 DEF S

LEMMA WantedFacts ==
  ASSUME NEW i, IsInterval(i), Whole(i)
  PROVE  LET w == Wanted(i) IN
         /\ w.start \in Nat /\ w.end \in Nat /\ i.start <= w.start /\ w.end = i.end
         /\ \E e \in Nat : w.start = i.start + e * PageSize
  <1> DEFINE P == PageSize
             w == Wanted(i)
  <1>1. PICK c \in Nat \ {0} : i.end = i.start + c * P
    BY DEF Whole
  <1>2. P \in Nat \ {0} /\ c * P \in Nat /\ i.start \in Nat /\ i.end \in Nat
    BY SizeAssumption DEF IsInterval
  <1>3. i.end - i.start = c * P /\ i.end - c * P = i.start
    BY <1>1, <1>2
  <1>4. RoundUp(i.end - i.start) = c * P
    BY <1>3, RoundUpWhole
  <1>5. w = IF i.start < P THEN Interval(i.start + P, i.start + c * P)
                           ELSE Interval(i.start, i.end)
    BY <1>3, <1>4 DEF Wanted
  <1> HIDE DEF w, P
  <1>6. /\ w.start = IF i.start < P THEN i.start + P ELSE i.start
        /\ w.end = i.end
    BY <1>1, <1>5 DEF Interval
  <1>7. i.start + P = i.start + 1 * P /\ i.start = i.start + 0 * P
    BY <1>2
  <1>8. \E e \in Nat : w.start = i.start + e * P
    BY <1>6, <1>7
  <1>9. QED BY <1>2, <1>6, <1>8 DEF w, P

LEMMA GrantedFacts ==
  ASSUME NEW w, w.start \in Nat
  PROVE  /\ Granted(w).start \in Nat /\ w.start <= Granted(w).start /\ Granted(w).end = w.end
         /\ \E k \in Nat : Granted(w).start = w.start + k * PageSize
  <1> DEFINE P == PageSize
             S == {a \in {w.start + k * P : k \in 0 .. MinAddr} : a >= MinAddr}
  <1>1. P \in Nat \ {0} /\ MinAddr \in Nat
    BY SizeAssumption
  <1> HIDE DEF P
  <1>2. \A k \in Nat : k * P \in Nat
    BY <1>1
  <1>3. MinAddr * P >= MinAddr
    BY <1>1
  <1>4. \A k \in 0 .. MinAddr : w.start + k * P \in Nat /\ w.start <= w.start + k * P
    BY <1>1, <1>2
  <1>5. \A a \in S : a \in Nat /\ w.start <= a /\ \E k \in Nat : a = w.start + k * P
    BY <1>4
  <1>6. w.start + MinAddr * P \in S
    <2>1. MinAddr \in 0 .. MinAddr /\ w.start + MinAddr * P >= MinAddr
      BY <1>1, <1>2, <1>3
    <2>2. QED BY <2>1
  <1> HIDE DEF S
  <1>7. S \in SUBSET Nat /\ S # {}
    BY <1>5, <1>6
  <1>8. PICK x \in S : \A y \in S : x <= y
    BY <1>7, LeastIsMember
  <1>9. Least(S) \in S
    BY <1>8 DEF Least
  <1>10. Granted(w) = [start |-> Least(S), end |-> w.end]
    BY DEF Granted, Interval, S, P
  <1>11. QED BY <1>5, <1>9, <1>10 DEF P

LEMMA FreshFacts ==
  ASSUME NEW L, IntervalsOK(intervals, L), NEW o, NEW g \in Fresh(o)
  PROVE  /\ IsInterval(g) /\ Whole(g) /\ Fresh(o) = {g}
         /\ g.end - g.start \in Nat \ {0} /\ g.end - g.start < Wrap
         /\ \E i \in Suitable(o) : i \in intervals \ used /\ Taken(o) = {i} /\ Within(g, i)
         /\ PagesOf(g) \intersect L = {}
  <1>1. PICK i \in Taken(o) : g = Granted(Wanted(i)) /\ g.start < g.end
    BY DEF Fresh
  <1>2. i \in Suitable(o) /\ i \in intervals /\ i \notin used /\ Taken(o) = {i}
    BY TakenFacts
  <1>3. /\ IsInterval(i) /\ Whole(i) /\ i.end <= i.start + MaxInterval /\ Clear(i, L)
    BY <1>2 DEF IntervalsOK
  <1>4. /\ Wanted(i).start \in Nat /\ Wanted(i).end \in Nat
        /\ i.start <= Wanted(i).start /\ Wanted(i).end = i.end
    BY <1>3, WantedFacts
  <1>5. g.start \in Nat /\ Wanted(i).start <= g.start /\ g.end = i.end
    BY <1>1, <1>4, GrantedFacts
  <1>6. IsInterval(g) /\ Within(g, i)
    BY <1>1, <1>3, <1>4, <1>5 DEF IsInterval, Within
  <1>7. Fresh(o) = {g}
    BY <1>1, <1>2 DEF Fresh
  <1>8. g.end - g.start \in Nat \ {0} /\ g.end - g.start < Wrap
    BY <1>3, <1>5, <1>6, SizeAssumption DEF IsInterval, Within
  <1>9. PagesOf(g) \intersect L = {}
    <2> SUFFICES ASSUME NEW p \in PagesOf(g), p \in L PROVE FALSE
      OBVIOUS
    <2>1. p \in Pages /\ g.start <= p * PageSize /\ p * PageSize < g.end
      BY DEF PagesOf
    <2>2. p * PageSize \in Nat
      BY <2>1, SizeAssumption, LayoutAssumption
    <2>3. i.start <= p * PageSize /\ p * PageSize < i.end
      BY <1>3, <1>6, <2>1, <2>2 DEF IsInterval, Within
    <2>4. QED BY <1>3, <2>3 DEF Clear
  <1>10. Whole(g)
    <2> DEFINE P == PageSize
    <2>1. PICK c \in Nat \ {0} : i.end = i.start + c * P
      BY <1>3 DEF Whole
    <2>2. PICK e \in Nat : Wanted(i).start = i.start + e * P
      BY <1>3, WantedFacts
    <2>3. PICK k \in Nat : g.start = Wanted(i).start + k * P
      BY <1>1, <1>4, GrantedFacts
    <2>4. P \in Nat \ {0} /\ i.start \in Nat
      BY <1>3, SizeAssumption DEF IsInterval
    <2> HIDE DEF P
    <2>5. /\ (e + k) * P = e * P + k * P
          /\ c * P \in Nat /\ e * P \in Nat /\ k * P \in Nat
      BY <2>4
    <2>6. g.start = i.start + (e + k) * P /\ g.end = i.start + c * P
      BY <1>5, <2>1, <2>2, <2>3, <2>4, <2>5
    <2>7. (e + k) * P < c * P
      BY <1>1, <2>4, <2>5, <2>6
    <2>8. e + k \in Nat /\ e + k < c
      BY <2>4, <2>7, TimesOrder
    <2>9. c * P - (e + k) * P = (c - (e + k)) * P /\ c - (e + k) \in Nat \ {0}
      BY <2>4, <2>8, TimesApart
    <2>10. g.end = g.start + (c - (e + k)) * P
      BY <2>4, <2>5, <2>6, <2>9
    <2>11. QED BY <2>9, <2>10 DEF Whole, P
  <1>11. QED BY <1>2, <1>6, <1>7, <1>8, <1>9, <1>10

\* An interval that starts below an object known from the maps ends below it.
LEMMA BelowObject ==
  ASSUME NEW L \in Layouts, NEW i, IsInterval(i), Clear(i, L),
         NEW o \in Objects, o \notin Late, i.start <= Start[o]
  PROVE  Start[o] \in Nat /\ i.end <= Start[o]
  <1>1. PICK p \in Pages : Start[o] = p * PageSize
    BY LayoutAssumption
  <1>2. p \in Nat /\ PageSize \in Nat \ {0}
    BY SizeAssumption, LayoutAssumption
  <1>3. Start[o] \in Nat
    BY <1>1, <1>2
  <1>4. (p * PageSize) \div PageSize = p
    <2>1. 0 \in 0 .. PageSize - 1 /\ p * PageSize + 0 = p * PageSize
      BY <1>2
    <2>2. (p * PageSize + 0) \div PageSize = p
      BY <1>2, <2>1, DivOf
    <2>3. QED BY <2>1, <2>2
  <1>5. Start[o] \div PageSize \in L
    BY LayoutAssumption
  <1>6. p \in L
    BY <1>1, <1>4, <1>5
  <1>7. QED BY <1>1, <1>3, <1>6 DEF Clear, IsInterval

-----------------------------------------------------------------------------
(***************************************************************************)
(* What has been mapped: each area in a used interval of its own, below    *)
(* the object it is for.  u stands for used, m for mapped.                 *)
(***************************************************************************)
AreasOK(u, m) ==
  /\ u \subseteq intervals
  /\ \A a \in m : /\ a.obj \in Objects /\ IsInterval(a.area)
                  /\ \E i \in u : Within(a.area, i)
                  /\ a.obj \notin Late =>
                       /\ a.area.end <= Start[a.obj]
                       /\ Start[a.obj] <= a.area.start + Distance
  /\ \A a, b \in m : a # b => Apart(a.area, b.area)

LEMMA WithinApart ==
  ASSUME NEW g, NEW a, NEW i, NEW j, IsInterval(g), IsInterval(a),
         IsInterval(i), IsInterval(j), Within(g, i), Within(a, j), Apart(i, j)
  PROVE  Apart(g, a) /\ Apart(a, g)
  BY DEF IsInterval, Within, Apart

LEMMA FreshApart ==
  ASSUME NEW L, IntervalsOK(intervals, L), AreasOK(used, mapped),
         NEW o, NEW g \in Fresh(o), NEW a \in mapped
  PROVE  Apart(g, a.area) /\ Apart(a.area, g)
  <1>1. PICK i \in Suitable(o) : i \in intervals \ used /\ Within(g, i)
    BY FreshFacts
  <1>2. PICK j \in used : Within(a.area, j)
    BY DEF AreasOK
  <1>3. j \in intervals /\ i # j /\ IsInterval(i) /\ IsInterval(j) /\ Apart(i, j)
    BY <1>1, <1>2 DEF AreasOK, IntervalsOK
  <1>4. IsInterval(g) /\ IsInterval(a.area)
    BY FreshFacts DEF AreasOK
  <1>5. QED BY <1>1, <1>2, <1>3, <1>4, WithinApart

LEMMA NewAreas ==
  ASSUME NEW L \in Layouts, IntervalsOK(intervals, L), AreasOK(used, mapped),
         NEW o \in Objects, NewInterval(o)
  PROVE  AreasOK(used', mapped')
  <1> DEFINE new == {[obj |-> o, area |-> g] : g \in Fresh(o)}
  <1>1. used' = used \union Taken(o) /\ mapped' = mapped \union new
    BY DEF NewInterval
  <1>2. used' \subseteq intervals
    BY <1>1, TakenFacts DEF AreasOK
  <1>3. ASSUME NEW a \in new
        PROVE  /\ a.obj = o /\ a.area \in Fresh(o) /\ IsInterval(a.area) /\ new = {a}
               /\ \E i \in used' : Within(a.area, i)
               /\ o \notin Late =>
                    /\ a.area.end <= Start[o]
                    /\ Start[o] <= a.area.start + Distance
    <2>1. PICK g \in Fresh(o) : a = [obj |-> o, area |-> g]
      OBVIOUS
    <2>2. Fresh(o) = {g} /\ IsInterval(g)
      BY FreshFacts
    <2>3. PICK i \in Suitable(o) : i \in intervals \ used /\ Taken(o) = {i} /\ Within(g, i)
      BY FreshFacts
    <2>4. ASSUME o \notin Late
          PROVE  g.end <= Start[o] /\ Start[o] <= g.start + Distance
      <3>1. i.start <= Start[o] /\ Start[o] - i.start <= Distance
        BY <2>4 DEF Suitable, Addr
      <3>2. IsInterval(i) /\ Clear(i, L)
        BY <2>3 DEF IntervalsOK
      <3>3. Start[o] \in Nat /\ i.end <= Start[o]
        BY <2>4, <3>1, <3>2, BelowObject
      <3>4. QED BY <2>2, <2>3, <3>1, <3>2, <3>3, SizeAssumption DEF IsInterval, Within
    <2>5. new = {a}
      BY <2>1, <2>2
    <2>6. QED BY <1>1, <2>1, <2>2, <2>3, <2>4, <2>5
  <1>4. ASSUME NEW a \in mapped'
        PROVE  /\ a.obj \in Objects /\ IsInterval(a.area)
               /\ \E i \in used' : Within(a.area, i)
               /\ a.obj \notin Late =>
                    /\ a.area.end <= Start[a.obj]
                    /\ Start[a.obj] <= a.area.start + Distance
    <2>1. CASE a \in new
      BY <1>3, <2>1
    <2>2. CASE a \in mapped
      BY <1>1, <2>2 DEF AreasOK
    <2>3. QED BY <1>1, <2>1, <2>2
  <1>5. ASSUME NEW a \in mapped', NEW b \in mapped', a # b
        PROVE  Apart(a.area, b.area)
    <2>1. CASE a \in mapped /\ b \in mapped
      BY <1>5, <2>1 DEF AreasOK
    <2>2. CASE a \in new /\ b \in mapped
      BY <1>3, <2>2, FreshApart
    <2>3. CASE a \in mapped /\ b \in new
      BY <1>3, <2>3, FreshApart
    <2>4. CASE a \in new /\ b \in new
      BY <1>3, <1>5, <2>4
    <2>5. QED BY <1>1, <2>1, <2>2, <2>3, <2>4
  <1>6. QED BY <1>2, <1>4, <1>5 DEF AreasOK

-----------------------------------------------------------------------------
(***************************************************************************)
(* What holds whatever is asked for.                                       *)
(***************************************************************************)
Pool == [base : Nat, size : 0 .. Wrap - 1]

Types ==
  /\ program \subseteq Pages /\ clobbered \subseteq Pages
  /\ unbound \subseteq Objects
  /\ pool \in [Objects -> Pool]
  /\ buffers \subseteq [obj : Objects, at : Nat, size : Sizes]
  /\ IsFiniteSet(buffers)
  /\ heap \in 0 .. MaxBuffers /\ late \in 0 .. MaxMaps

\* The pages that were not there at the start, replaced by now or not.
Newcomers(L) == clobbered \union (program \ L)

Charted(L) ==
  /\ IntervalsOK(intervals, L)
  /\ IsFiniteSet(Newcomers(L)) /\ Cardinality(Newcomers(L)) <= late

GroundInv == Types /\ AreasOK(used, mapped) /\ \E L \in Layouts : Charted(L)

LEMMA PoolFacts ==
  ASSUME NEW L, IntervalsOK(intervals, L), NEW o \in Objects, pool \in [Objects -> Pool]
  PROVE  Refilled(o) \in Pool
  <1>1. CASE Fresh(o) = {}
    BY <1>1 DEF Refilled
  <1>2. CASE Fresh(o) # {}
    <2>1. PICK g \in Fresh(o) : Fresh(o) = {g}
      BY <1>2, FreshFacts
    <2>2. Refilled(o) = PoolOf(g)
      BY <2>1 DEF Refilled
    <2>3. IsInterval(g) /\ g.end - g.start \in Nat /\ g.end - g.start < Wrap
      BY FreshFacts
    <2>4. Wrap \in Nat
      BY SizeAssumption
    <2>5. QED BY <2>2, <2>3, <2>4 DEF PoolOf, Pool, IsInterval
  <1>3. QED BY <1>1, <1>2

LEMMA RestFacts ==
  ASSUME NEW f \in Pool, NEW n \in Sizes, f.size >= n
  PROVE  Rest(f, n) \in Pool
  <1>1. f.base \in Nat /\ f.size \in 0 .. Wrap - 1 /\ n \in Nat \ {0} /\ Wrap \in Nat \ {0}
    BY SizeAssumption DEF Pool
  <1>2. f.size + Wrap - (n + 1) \in Nat
    BY <1>1
  <1>3. (f.size + Wrap - (n + 1)) % Wrap \in 0 .. Wrap - 1
    BY <1>1, <1>2, DivMod
  <1>4. f.base + n + 1 \in Nat
    BY <1>1
  <1>5. QED BY <1>3, <1>4 DEF Rest, Pool

\* A new interval costs the program none of the pages it had at the start.
LEMMA NewInChart ==
  ASSUME NEW L \in Layouts, Charted(L), Types, NEW o, NewInterval(o),
         intervals' = intervals, late' = late
  PROVE  Charted(L)' /\ program' \subseteq Pages /\ clobbered' \subseteq Pages
  <1> DEFINE gone == UNION {PagesOf(g) : g \in Fresh(o)}
  <1>1. /\ clobbered' = clobbered \union (gone \intersect program)
        /\ program' = program \ gone
    BY DEF NewInterval
  <1>2. gone \intersect L = {}
    BY FreshFacts DEF Charted
  <1> HIDE DEF gone
  <1>3. Newcomers(L)' \subseteq Newcomers(L)
    BY <1>1, <1>2 DEF Newcomers
  <1>4. IsFiniteSet(Newcomers(L)') /\ Cardinality(Newcomers(L)') <= Cardinality(Newcomers(L))
    BY <1>3, FS_Subset DEF Charted
  <1>5. Cardinality(Newcomers(L)) \in Nat /\ Cardinality(Newcomers(L)') \in Nat
    BY <1>4, FS_CardinalityType DEF Charted
  <1>6. late \in Nat
    BY SizeAssumption DEF Types
  <1>7. Charted(L)'
    BY <1>4, <1>5, <1>6 DEF Charted
  <1>8. QED BY <1>1, <1>7 DEF Types

LEMMA ServeTypes ==
  ASSUME Types, NEW o \in Objects, NEW n \in Sizes, NEW f \in Pool,
         Cardinality(buffers) + heap < MaxBuffers, Serve(o, n, f)
  PROVE  /\ pool' \in [Objects -> Pool]
         /\ buffers' \subseteq [obj : Objects, at : Nat, size : Sizes]
         /\ IsFiniteSet(buffers') /\ heap' \in 0 .. MaxBuffers
  <1>1. CASE f.size >= n
    <2> DEFINE b == [obj |-> o, at |-> f.base, size |-> n]
    <2>1. /\ pool' = [pool EXCEPT ![o] = Rest(f, n)]
          /\ buffers' = buffers \union {b} /\ heap' = heap
      BY <1>1 DEF Serve
    <2>2. Rest(f, n) \in Pool /\ b \in [obj : Objects, at : Nat, size : Sizes]
      BY <1>1, RestFacts DEF Pool
    <2>3. IsFiniteSet(buffers \union {b})
      BY FS_AddElement DEF Types
    <2> HIDE DEF b
    <2>4. QED BY <2>1, <2>2, <2>3 DEF Types
  <1>2. CASE ~ (f.size >= n)
    <2>1. pool' = [pool EXCEPT ![o] = f] /\ heap' = heap + 1 /\ buffers' = buffers
      BY <1>2 DEF Serve
    <2>2. Cardinality(buffers) \in Nat /\ heap \in Nat /\ MaxBuffers \in Nat
      BY FS_CardinalityType, SizeAssumption DEF Types
    <2>3. QED BY <2>1, <2>2 DEF Types
  <1>3. QED BY <1>1, <1>2

LEMMA InitGround == Init => GroundInv
  <1> SUFFICES ASSUME Init PROVE GroundInv
    OBVIOUS
  <1>1. PICK L \in Layouts : program = L /\ intervals = FreeIntervals(L)
    BY DEF Init
  <1>2. IntervalsOK(intervals, L)
    BY <1>1, FreeIntervalsOK
  <1>3. Newcomers(L) = {} /\ late = 0
    BY <1>1 DEF Init, Newcomers
  <1>4. Charted(L)
    BY <1>2, <1>3, FS_EmptySet DEF Charted
  <1>5. AreasOK(used, mapped)
    BY DEF Init, AreasOK
  <1>6. program \subseteq Pages
    BY <1>1, LayoutAssumption
  <1>7. [base |-> 0, size |-> 0] \in Pool
    BY SizeAssumption DEF Pool
  <1>8. pool \in [Objects -> Pool]
    BY <1>7 DEF Init
  <1>9. Types
    BY <1>6, <1>8, FS_EmptySet, SizeAssumption DEF Init, Types
  <1>10. QED BY <1>4, <1>5, <1>9 DEF GroundInv

LEMMA StepGround == GroundInv /\ [Next]_vars => GroundInv'
  <1> SUFFICES ASSUME GroundInv, [Next]_vars PROVE GroundInv'
    OBVIOUS
  <1>0. PICK L \in Layouts : Charted(L)
    BY DEF GroundInv
  <1>1. IntervalsOK(intervals, L) /\ Types /\ AreasOK(used, mapped)
    BY <1>0 DEF Charted, GroundInv
  <1>2. CASE UNCHANGED vars
    <2>1. Types' /\ AreasOK(used, mapped)' /\ Charted(L)'
      BY <1>0, <1>1, <1>2 DEF vars, Types, AreasOK, Charted, Newcomers
    <2>2. QED BY <2>1 DEF GroundInv
  <1>3. ASSUME NEW o \in Objects, NewInterval(o), UNCHANGED <<intervals, late>>
        PROVE  /\ AreasOK(used, mapped)' /\ Charted(L)'
               /\ program' \subseteq Pages /\ clobbered' \subseteq Pages
    <2>1. AreasOK(used', mapped')
      BY <1>1, <1>3, NewAreas
    <2>2. AreasOK(used, mapped)'
      BY <1>3, <2>1 DEF AreasOK
    <2>3. QED BY <1>0, <1>1, <1>3, <2>2, NewInChart
  <1>4. ASSUME NEW o \in Objects, Bind(o) PROVE GroundInv'
    <2>1. NewInterval(o) /\ UNCHANGED <<intervals, late>>
      BY <1>4 DEF Bind
    <2>2. Refilled(o) \in Pool
      BY <1>1, PoolFacts DEF Types
    <2>3. pool' \in [Objects -> Pool] /\ unbound' \subseteq Objects
      BY <1>1, <1>4, <2>2 DEF Bind, Types
    <2>4. buffers' = buffers /\ heap' = heap /\ late' = late
      BY <1>4 DEF Bind
    <2>5. QED BY <1>1, <1>3, <2>1, <2>3, <2>4 DEF Types, GroundInv
  <1>5. ASSUME NEW o \in Objects, NEW n \in Sizes, AllocateBuffer(o, n) PROVE GroundInv'
    <2>1. UNCHANGED <<intervals, unbound, late>> /\ Cardinality(buffers) + heap < MaxBuffers
      BY <1>5 DEF AllocateBuffer
    <2>2. CASE pool[o].size < n
      <3>1. NewInterval(o) /\ Serve(o, n, Refilled(o))
        BY <1>5, <2>2 DEF AllocateBuffer
      <3>2. Refilled(o) \in Pool
        BY <1>1, PoolFacts DEF Types
      <3>3. /\ pool' \in [Objects -> Pool]
            /\ buffers' \subseteq [obj : Objects, at : Nat, size : Sizes]
            /\ IsFiniteSet(buffers') /\ heap' \in 0 .. MaxBuffers
        BY <1>1, <2>1, <3>1, <3>2, ServeTypes
      <3>4. AreasOK(used, mapped)' /\ Charted(L)'
            /\ program' \subseteq Pages /\ clobbered' \subseteq Pages
        BY <1>3, <2>1, <3>1
      <3>5. Types'
        BY <1>1, <2>1, <3>3, <3>4 DEF Types
      <3>6. QED BY <3>4, <3>5 DEF GroundInv
    <2>3. CASE ~ (pool[o].size < n)
      <3>1. Serve(o, n, pool[o]) /\ UNCHANGED <<used, mapped, clobbered, program>>
        BY <1>5, <2>3 DEF AllocateBuffer
      <3>2. /\ pool' \in [Objects -> Pool]
            /\ buffers' \subseteq [obj : Objects, at : Nat, size : Sizes]
            /\ IsFiniteSet(buffers') /\ heap' \in 0 .. MaxBuffers
        <4>1. pool[o] \in Pool
          BY <1>1 DEF Types
        <4>2. QED BY <1>1, <2>1, <3>1, <4>1, ServeTypes
      <3>3. Types'
        BY <1>1, <2>1, <3>1, <3>2 DEF Types
      <3>4. AreasOK(used, mapped)' /\ Charted(L)'
        BY <1>0, <1>1, <2>1, <3>1 DEF AreasOK, Charted, Newcomers
      <3>5. QED BY <3>3, <3>4 DEF GroundInv
    <2>4. QED BY <2>2, <2>3
  <1>6. ASSUME NEW p \in Pages, ProgramMaps(p) PROVE GroundInv'
    <2>1. /\ program' = program \union {p} /\ late' = late + 1 /\ late < MaxMaps
          /\ UNCHANGED <<intervals, used, unbound, pool, mapped, buffers, heap, clobbered>>
      BY <1>6 DEF ProgramMaps
    <2>2. Types'
      <3>1. late' \in 0 .. MaxMaps
        BY <1>1, <2>1, SizeAssumption DEF Types
      <3>2. QED BY <1>1, <2>1, <3>1 DEF Types
    <2>3. AreasOK(used, mapped)'
      BY <1>1, <2>1 DEF AreasOK
    <2>4. Charted(L)'
      <3>1. Newcomers(L)' \subseteq Newcomers(L) \union {p}
        BY <2>1 DEF Newcomers
      <3>2. /\ IsFiniteSet(Newcomers(L) \union {p})
            /\ Cardinality(Newcomers(L) \union {p}) <= Cardinality(Newcomers(L)) + 1
        <4>1. IsFiniteSet(Newcomers(L)) /\ Cardinality(Newcomers(L)) \in Nat
          BY <1>0, FS_CardinalityType DEF Charted
        <4>2. /\ IsFiniteSet(Newcomers(L) \union {p})
              /\ \/ Cardinality(Newcomers(L) \union {p}) = Cardinality(Newcomers(L))
                 \/ Cardinality(Newcomers(L) \union {p}) = Cardinality(Newcomers(L)) + 1
          BY <4>1, FS_AddElement
        <4>3. QED BY <4>1, <4>2
      <3>3. /\ IsFiniteSet(Newcomers(L)')
            /\ Cardinality(Newcomers(L)') <= Cardinality(Newcomers(L) \union {p})
        BY <3>1, <3>2, FS_Subset
      <3>4. /\ Cardinality(Newcomers(L)) \in Nat /\ Cardinality(Newcomers(L)') \in Nat
            /\ Cardinality(Newcomers(L) \union {p}) \in Nat
        BY <1>0, <3>2, <3>3, FS_CardinalityType DEF Charted
      <3>5. Cardinality(Newcomers(L)) <= late /\ late \in Nat
        BY <1>0, <1>1, SizeAssumption DEF Charted, Types
      <3>6. Cardinality(Newcomers(L)') <= late'
        BY <2>1, <3>2, <3>3, <3>4, <3>5
      <3>7. IntervalsOK(intervals, L)'
        BY <1>1, <2>1 DEF IntervalsOK
      <3>8. QED BY <3>3, <3>6, <3>7 DEF Charted
    <2>5. QED BY <2>2, <2>3, <2>4 DEF GroundInv
  <1>7. QED BY <1>2, <1>4, <1>5, <1>6 DEF Next

LEMMA GroundHolds == Spec => []GroundInv
  BY InitGround, StepGround, PTL DEF Spec

\* Intervals, pools, areas and buffers are well formed, whatever is asked for:
\* a pool's size stays a size_t also when it wraps around.
THEOREM TypeCorrect == Spec => []TypeOK
  <1>1. ASSUME GroundInv PROVE TypeOK
    <2>1. PICK L \in Layouts : IntervalsOK(intervals, L)
      BY <1>1 DEF GroundInv, Charted
    <2>2. \A i \in intervals : i.start \in Nat /\ i.end \in Nat /\ i.start < i.end
      BY <2>1 DEF IntervalsOK, IsInterval
    <2>3. used \subseteq intervals /\ \A m \in mapped : m.obj \in Objects /\ m.area.start < m.area.end
      BY <1>1 DEF GroundInv, AreasOK, IsInterval
    <2>4. \A o \in Objects : pool[o].base \in Nat /\ pool[o].size \in 0 .. Wrap - 1
      BY <1>1 DEF GroundInv, Types, Pool
    <2>5. \A b \in buffers : b.obj \in Objects /\ b.size \in Sizes
      BY <1>1 DEF GroundInv, Types
    <2>6. QED BY <1>1, <2>2, <2>3, <2>4, <2>5 DEF GroundInv, Types, TypeOK
  <1>2. QED BY <1>1, GroundHolds, PTL

\* Mapping an interval (InitMemoryAlloc, MAP_FIXED) replaces no page that was
\* in /proc/self/maps when UpdateFreeIntervals read it, and of the others no
\* more than the program has mapped since.
THEOREM OnlyLateMapsAreClobbered == Spec => []OnlyLateMapsClobbered
  <1>1. ASSUME GroundInv PROVE OnlyLateMapsClobbered
    <2>1. PICK L \in Layouts : Charted(L)
      BY <1>1 DEF GroundInv
    <2>2. clobbered \subseteq Newcomers(L) /\ IsFiniteSet(Newcomers(L))
      BY <2>1 DEF Charted, Newcomers
    <2>3. IsFiniteSet(clobbered) /\ Cardinality(clobbered) <= Cardinality(Newcomers(L))
      BY <2>2, FS_Subset
    <2>4. /\ Cardinality(clobbered) \in Nat /\ Cardinality(Newcomers(L)) \in Nat
          /\ late \in Nat
      BY <1>1, <2>2, <2>3, FS_CardinalityType, SizeAssumption DEF GroundInv, Types
    <2>5. Cardinality(Newcomers(L)) <= late
      BY <2>1 DEF Charted
    <2>6. QED BY <2>3, <2>4, <2>5 DEF OnlyLateMapsClobbered
  <1>2. QED BY <1>1, GroundHolds, PTL

-----------------------------------------------------------------------------
(***************************************************************************)
(* What has been cut off the areas: of each area the buffers of its        *)
(* object, and what is left of its pool.  m stands for mapped, f for pool  *)
(* and s for buffers.                                                      *)
(***************************************************************************)
Span(p) == Interval(p.base, p.base + p.size)

Bytes(b) == Interval(b.at, b.at + b.size)

PoolsOK(m, f) ==
  \A o \in Objects : f[o].size # 0 =>
     \E a \in m : a.obj = o /\ Within(Span(f[o]), a.area)

BuffersOK(m, f, s) ==
  /\ \A b \in s : \E a \in m : a.obj = b.obj /\ Within(Bytes(b), a.area)
  /\ \A b \in s, o \in Objects : f[o].size # 0 => Apart(Bytes(b), Span(f[o]))
  /\ \A b, c \in s : b # c => Apart(Bytes(b), Bytes(c))

Cut(m, f, s) == PoolsOK(m, f) /\ BuffersOK(m, f, s)

\* The pool a buffer of n is cut off, or that turns out to be too small.
Served(o, n) == IF pool[o].size < n THEN Refilled(o) ELSE pool[o]

\* No buffer uses its pool up to the last byte.
NoExactFit ==
  \A o \in Objects, n \in Sizes : AllocateBuffer(o, n) => Served(o, n).size # n

\* The one byte more that AllocateBuffer takes off is there: nothing wraps.
LEMMA RestOfPool ==
  ASSUME NEW f \in Pool, NEW n \in Sizes, f.size >= n, f.size # n
  PROVE  Rest(f, n).base = f.base + n + 1 /\ Rest(f, n).size = f.size - n - 1
  <1>1. f.base \in Nat /\ f.size \in 0 .. Wrap - 1 /\ n \in Nat \ {0} /\ Wrap \in Nat \ {0}
    BY SizeAssumption DEF Pool
  <1> DEFINE r == f.size - n - 1
  <1>2. r \in 0 .. Wrap - 1 /\ f.size + Wrap - (n + 1) = Wrap + r
    BY <1>1
  <1> HIDE DEF r
  <1>3. (Wrap + r) % Wrap = r
    BY <1>1, <1>2
  <1>4. Rest(f, n).size = r
    BY <1>2, <1>3 DEF Rest
  <1>5. QED BY <1>4 DEF Rest, r

\* A new interval for an object leaves every buffer outside the new pool.
LEMMA TakeKeeps ==
  ASSUME NEW L \in Layouts, IntervalsOK(intervals, L), AreasOK(used, mapped), Types,
         Cut(mapped, pool, buffers), NEW o \in Objects, NewInterval(o)
  PROVE  Cut(mapped', [pool EXCEPT ![o] = Refilled(o)], buffers)
  <1> DEFINE f == [pool EXCEPT ![o] = Refilled(o)]
             new == {[obj |-> o, area |-> g] : g \in Fresh(o)}
  <1>1. mapped' = mapped \union new
    BY DEF NewInterval
  <1>2. pool \in [Objects -> Pool]
    BY DEF Types
  <1>3. CASE Fresh(o) = {}
    <2>1. Refilled(o) = pool[o] /\ mapped' = mapped
      BY <1>1, <1>3 DEF Refilled
    <2>2. f = pool
      BY <1>2, <2>1
    <2>3. QED BY <2>1, <2>2
  <1>4. CASE Fresh(o) # {}
    <2>1. PICK g \in Fresh(o) : Fresh(o) = {g} /\ IsInterval(g)
      BY <1>4, FreshFacts
    <2>2. f[o] = PoolOf(g) /\ \A q \in Objects : q # o => f[q] = pool[q]
      BY <1>2, <2>1 DEF Refilled
    <2>3. Span(f[o]).start = g.start /\ Span(f[o]).end = g.end
      BY <2>1, <2>2 DEF PoolOf, Span, Interval, IsInterval
    <2>4. PICK n \in mapped' : n.obj = o /\ n.area = g
      <3>1. [obj |-> o, area |-> g] \in mapped'
        BY <1>1, <2>1
      <3>2. QED BY <3>1
    <2>5. mapped \subseteq mapped'
      BY <1>1
    <2> HIDE DEF f, new
    <2>6. PoolsOK(mapped', f)
      <3> SUFFICES ASSUME NEW q \in Objects, f[q].size # 0
                   PROVE  \E a \in mapped' : a.obj = q /\ Within(Span(f[q]), a.area)
        BY DEF PoolsOK
      <3>1. CASE q = o
        <4>1. Within(Span(f[o]), n.area)
          BY <2>1, <2>3, <2>4 DEF Within, IsInterval
        <4>2. QED BY <2>4, <3>1, <4>1
      <3>2. CASE q # o
        BY <2>2, <2>5, <3>2 DEF Cut, PoolsOK
      <3>3. QED BY <3>1, <3>2
    <2>7. \A b \in buffers : \E a \in mapped' : a.obj = b.obj /\ Within(Bytes(b), a.area)
      BY <2>5 DEF Cut, BuffersOK
    <2>8. ASSUME NEW b \in buffers, NEW q \in Objects, f[q].size # 0
          PROVE  Apart(Bytes(b), Span(f[q]))
      <3>1. CASE q = o
        <4>1. PICK a \in mapped : Within(Bytes(b), a.area)
          BY DEF Cut, BuffersOK
        <4>2. Apart(a.area, g) /\ IsInterval(a.area)
          BY FreshApart DEF AreasOK
        <4>3. b.at \in Nat /\ b.size \in Nat
          BY SizeAssumption DEF Types
        <4>4. QED BY <2>1, <2>3, <3>1, <4>1, <4>2, <4>3
                  DEF Apart, Within, IsInterval, Bytes, Interval
      <3>2. CASE q # o
        BY <2>2, <2>8, <3>2 DEF Cut, BuffersOK
      <3>3. QED BY <3>1, <3>2
    <2>9. \A b, c \in buffers : b # c => Apart(Bytes(b), Bytes(c))
      BY DEF Cut, BuffersOK
    <2>10. Cut(mapped', f, buffers)
      BY <2>6, <2>7, <2>8, <2>9 DEF Cut, BuffersOK
    <2>11. QED BY <2>10 DEF f
  <1>5. QED BY <1>3, <1>4

\* A buffer cut off a pool that holds more than it.
LEMMA ServeKeeps ==
  ASSUME Types, NEW u, NEW m, AreasOK(u, m),
         NEW o \in Objects, NEW n \in Sizes, NEW p \in Pool, p.size # n,
         Cut(m, [pool EXCEPT ![o] = p], buffers), Serve(o, n, p)
  PROVE  Cut(m, pool', buffers')
  <1> DEFINE f == [pool EXCEPT ![o] = p]
             b == [obj |-> o, at |-> p.base, size |-> n]
  <1>1. pool \in [Objects -> Pool]
    BY DEF Types
  <1>2. CASE ~ (p.size >= n)
    BY <1>2 DEF Serve
  <1>3. CASE p.size >= n
    <2>1. pool' = [pool EXCEPT ![o] = Rest(p, n)] /\ buffers' = buffers \union {b}
      BY <1>3 DEF Serve
    <2>2. Rest(p, n).base = p.base + n + 1 /\ Rest(p, n).size = p.size - n - 1
      BY <1>3, RestOfPool
    <2>3. p.base \in Nat /\ p.size \in Nat /\ n \in Nat \ {0} /\ p.size > n /\ p.size # 0
      BY <1>3, SizeAssumption DEF Pool
    <2>4. f[o] = p /\ pool'[o] = Rest(p, n)
      BY <1>1, <2>1
    <2>5. \A q \in Objects : q # o => f[q] = pool[q] /\ pool'[q] = pool[q]
      BY <1>1, <2>1
    <2>6. /\ b.obj = o
          /\ Bytes(b).start = p.base /\ Bytes(b).end = p.base + n
          /\ Span(p).start = p.base /\ Span(p).end = p.base + p.size
          /\ Span(pool'[o]).start = p.base + n + 1
          /\ Span(pool'[o]).end = p.base + p.size
      <3>1. p.base + n + 1 + (p.size - n - 1) = p.base + p.size
        BY <2>3
      <3>2. QED BY <2>2, <2>4, <3>1 DEF Bytes, Span, Interval
    <2>7. /\ Cut(m, f, buffers)
          /\ \A c \in buffers : c.at \in Nat /\ c.size \in Nat
      BY SizeAssumption DEF Types
    <2>8. PICK a \in m : a.obj = o /\ Within(Span(p), a.area) /\ IsInterval(a.area)
      BY <2>3, <2>4, <2>7 DEF Cut, PoolsOK, AreasOK
    <2> HIDE DEF f, b
    <2>9. Within(Bytes(b), a.area) /\ Within(Span(pool'[o]), a.area)
      BY <2>3, <2>6, <2>8 DEF Within, IsInterval
    <2>10. Apart(Bytes(b), Span(pool'[o]))
      BY <2>3, <2>6 DEF Apart
    <2>11. PoolsOK(m, pool')
      <3> SUFFICES ASSUME NEW q \in Objects, pool'[q].size # 0
                   PROVE  \E d \in m : d.obj = q /\ Within(Span(pool'[q]), d.area)
        BY DEF PoolsOK
      <3>1. CASE q = o
        BY <2>8, <2>9, <3>1
      <3>2. CASE q # o
        BY <2>5, <2>7, <3>2 DEF Cut, PoolsOK
      <3>3. QED BY <3>1, <3>2
    <2>12. ASSUME NEW c \in buffers
           PROVE  /\ Apart(Bytes(c), Bytes(b)) /\ Apart(Bytes(b), Bytes(c))
                  /\ Apart(Bytes(c), Span(pool'[o]))
      <3>1. Apart(Bytes(c), Span(p))
        BY <2>3, <2>4, <2>7 DEF Cut, BuffersOK
      <3>2. Bytes(c).start \in Nat /\ Bytes(c).end \in Nat
        BY <2>7 DEF Bytes, Interval
      <3>3. QED BY <2>3, <2>6, <3>1, <3>2 DEF Apart
    <2>13. ASSUME NEW q \in Objects, q # o, pool'[q].size # 0
           PROVE  Apart(Bytes(b), Span(pool'[q]))
      <3>1. PICK d \in m : d.obj = q /\ Within(Span(pool'[q]), d.area) /\ IsInterval(d.area)
        BY <2>11, <2>13 DEF PoolsOK, AreasOK
      <3>2. Apart(a.area, d.area)
        BY <2>8, <2>13, <3>1 DEF AreasOK
      <3>3. pool'[q].base \in Nat /\ pool'[q].size \in Nat
        BY <1>1, <2>5, <2>13, SizeAssumption DEF Pool
      <3>4. Span(pool'[q]).start \in Nat /\ Span(pool'[q]).end \in Nat
        BY <3>3 DEF Span, Interval
      <3>5. QED BY <2>3, <2>6, <2>8, <2>9, <3>1, <3>2, <3>4 DEF Apart, Within, IsInterval
    <2>14. \A c \in buffers' : \E d \in m : d.obj = c.obj /\ Within(Bytes(c), d.area)
      BY <2>1, <2>6, <2>7, <2>8, <2>9 DEF Cut, BuffersOK
    <2>15. ASSUME NEW c \in buffers', NEW q \in Objects, pool'[q].size # 0
           PROVE  Apart(Bytes(c), Span(pool'[q]))
      <3>1. CASE c = b
        BY <2>10, <2>13, <2>15, <3>1
      <3>2. CASE c \in buffers /\ q = o
        BY <2>12, <3>2
      <3>3. CASE c \in buffers /\ q # o
        BY <2>5, <2>7, <2>15, <3>3 DEF Cut, BuffersOK
      <3>4. QED BY <2>1, <3>1, <3>2, <3>3
    <2>16. ASSUME NEW c \in buffers', NEW d \in buffers', c # d
           PROVE  Apart(Bytes(c), Bytes(d))
      <3>1. CASE c \in buffers /\ d \in buffers
        BY <2>7, <2>16, <3>1 DEF Cut, BuffersOK
      <3>2. CASE c = b /\ d \in buffers
        BY <2>12, <3>2
      <3>3. CASE c \in buffers /\ d = b
        BY <2>12, <3>3
      <3>4. QED BY <2>1, <2>16, <3>1, <3>2, <3>3
    <2>17. QED BY <2>11, <2>14, <2>15, <2>16 DEF Cut, BuffersOK
  <1>4. QED BY <1>2, <1>3

-----------------------------------------------------------------------------
(***************************************************************************)
(* The buffers, as long as none uses its pool up.                          *)
(***************************************************************************)
BufferInv == Cut(mapped, pool, buffers)

LEMMA InitCut == Init => BufferInv
  BY DEF Init, BufferInv, Cut, PoolsOK, BuffersOK

LEMMA StepCut == GroundInv /\ GroundInv' /\ BufferInv /\ [Next /\ NoExactFit]_vars => BufferInv'
  <1> SUFFICES ASSUME GroundInv, GroundInv', BufferInv, [Next /\ NoExactFit]_vars
               PROVE  BufferInv'
    OBVIOUS
  <1>0. PICK L \in Layouts : Charted(L)
    BY DEF GroundInv
  <1>1. IntervalsOK(intervals, L) /\ Types /\ AreasOK(used, mapped)
        /\ Cut(mapped, pool, buffers)
    BY <1>0 DEF Charted, GroundInv, BufferInv
  <1>2. CASE UNCHANGED <<mapped, pool, buffers>>
    BY <1>2 DEF BufferInv, Cut, PoolsOK, BuffersOK
  <1>3. ASSUME NEW o \in Objects, Bind(o) PROVE BufferInv'
    <2>1. NewInterval(o) /\ pool' = [pool EXCEPT ![o] = Refilled(o)] /\ buffers' = buffers
      BY <1>3 DEF Bind
    <2>2. Cut(mapped', pool', buffers')
      BY <1>1, <2>1, TakeKeeps
    <2>3. QED BY <2>2 DEF BufferInv, Cut, PoolsOK, BuffersOK
  <1>4. ASSUME NEW o \in Objects, NEW n \in Sizes, AllocateBuffer(o, n), NoExactFit
        PROVE  BufferInv'
    <2>1. Served(o, n).size # n
      BY <1>4 DEF NoExactFit
    <2>2. CASE pool[o].size < n
      <3>1. NewInterval(o) /\ Serve(o, n, Refilled(o))
        BY <1>4, <2>2 DEF AllocateBuffer
      <3>2. Refilled(o) \in Pool
        BY <1>1, PoolFacts DEF Types
      <3>3. Cut(mapped', [pool EXCEPT ![o] = Refilled(o)], buffers)
        BY <1>1, <3>1, TakeKeeps
      <3>4. AreasOK(used', mapped')
        BY <1>1, <3>1, NewAreas
      <3>5. Refilled(o).size # n
        BY <2>1, <2>2 DEF Served
      <3>6. Cut(mapped', pool', buffers')
        BY <1>1, <3>1, <3>2, <3>3, <3>4, <3>5, ServeKeeps
      <3>7. QED BY <3>6 DEF BufferInv, Cut, PoolsOK, BuffersOK
    <2>3. CASE ~ (pool[o].size < n)
      <3>1. Serve(o, n, pool[o]) /\ mapped' = mapped
        BY <1>4, <2>3 DEF AllocateBuffer
      <3>2. pool[o] \in Pool /\ [pool EXCEPT ![o] = pool[o]] = pool
        BY <1>1 DEF Types
      <3>3. pool[o].size # n
        BY <2>1, <2>3 DEF Served
      <3>4. Cut(mapped, pool', buffers')
        BY <1>1, <3>1, <3>2, <3>3, ServeKeeps
      <3>5. QED BY <3>1, <3>4 DEF BufferInv, Cut, PoolsOK, BuffersOK
    <2>4. QED BY <2>2, <2>3
  <1>5. ASSUME NEW p \in Pages, ProgramMaps(p) PROVE BufferInv'
    BY <1>2, <1>5 DEF ProgramMaps
  <1>6. QED BY <1>2, <1>3, <1>4, <1>5 DEF Next, vars

LEMMA BuffersHold == Spec /\ [][NoExactFit]_vars => [](GroundInv /\ BufferInv)
  <1>1. GroundInv /\ BufferInv /\ [Next]_vars /\ [NoExactFit]_vars
          => (GroundInv /\ BufferInv)'
    BY StepGround, StepCut
  <1>2. QED BY InitGround, InitCut, <1>1, PTL DEF Spec

\* A buffer that AllocateBuffer cuts off a pool lies inside an area mapped
\* for its own object, unless a buffer has used a pool up: then
\* buf_size -= size + 1 wraps around.
THEOREM InAreaWithoutExactFit == Spec /\ [][NoExactFit]_vars => []BuffersInArea
  <1>1. ASSUME GroundInv, BufferInv PROVE BuffersInArea
    <2> SUFFICES ASSUME NEW b \in buffers
                 PROVE  \E m \in mapped : m.obj = b.obj /\ m.area.start <= b.at
                                           /\ b.at + b.size <= m.area.end
      BY DEF BuffersInArea
    <2>1. PICK m \in mapped : m.obj = b.obj /\ Within(Bytes(b), m.area)
      BY <1>1 DEF BufferInv, Cut, BuffersOK
    <2>2. QED BY <2>1 DEF Within, Bytes, Interval
  <1>2. QED BY <1>1, BuffersHold, PTL

\* No two of those buffers share a byte, whichever objects they are for.
THEOREM ApartWithoutExactFit == Spec /\ [][NoExactFit]_vars => []BuffersApart
  <1>1. ASSUME BufferInv PROVE BuffersApart
    <2>1. \A b, c \in buffers : b # c => Apart(Bytes(b), Bytes(c))
      BY <1>1 DEF BufferInv, Cut, BuffersOK
    <2>2. QED BY <2>1 DEF BuffersApart, Apart, Bytes, Interval
  <1>2. QED BY <1>1, BuffersHold, PTL

\* And each is below its object and within Distance of it, when the object
\* was there when the maps were read: GetClosestInterval asks that of the
\* start of the interval, and no interval reaches over an object.
THEOREM ReachWithoutExactFit == Spec /\ [][NoExactFit]_vars => []WithinReach
  <1>1. ASSUME GroundInv, BufferInv PROVE WithinReach
    <2> SUFFICES ASSUME NEW b \in buffers, b.obj \notin Late
                 PROVE  b.at + b.size <= Start[b.obj] /\ Start[b.obj] - b.at <= Distance
      BY DEF WithinReach
    <2>1. PICK m \in mapped : m.obj = b.obj /\ Within(Bytes(b), m.area)
      BY <1>1 DEF BufferInv, Cut, BuffersOK
    <2>2. /\ m.obj \in Objects /\ IsInterval(m.area)
          /\ m.area.end <= Start[m.obj] /\ Start[m.obj] <= m.area.start + Distance
      BY <1>1, <2>1 DEF GroundInv, AreasOK
    <2>3. m.area.start <= b.at /\ b.at + b.size <= m.area.end
      BY <2>1 DEF Within, Bytes, Interval
    <2>4. PICK q \in Pages : Start[m.obj] = q * PageSize
      BY <2>2, LayoutAssumption
    <2>5. Start[m.obj] \in Nat /\ Distance \in Nat
      BY <2>4, LayoutAssumption, SizeAssumption
    <2>6. b.at \in Nat /\ b.size \in Nat
      BY <1>1, SizeAssumption DEF GroundInv, Types
    <2>7. QED BY <2>1, <2>2, <2>3, <2>5, <2>6 DEF IsInterval
  <1>2. QED BY <1>1, BuffersHold, PTL
=============================================================================
