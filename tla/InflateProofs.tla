---------------------------- MODULE InflateProofs ----------------------------
(***************************************************************************)
(* Proofs about the decoder of inflate.js and append(): no bit of the      *)
(* input is lost or read twice, and every byte is handed out once and in   *)
(* order, for every stream of the format, all sizes of chunk, window and   *)
(* buffer.                                                                 *)
(*                                                                         *)
(* The invariant says of every state where the decoder stands in the       *)
(* stream (Place: the mode and its data agree with what the fields so far  *)
(* make due) and in the input (Amounts: the bytes that remain of the chunk *)
(* and the bits in the buffer begin where the next field begins).  Told    *)
(* adds where it stands in the output: what was handed out, followed by    *)
(* what the window still holds, is what the fields read so far stand for.  *)
(***************************************************************************)
EXTENDS Inflate, TLAPS, SequenceTheorems, FiniteSetTheorems, WellFoundedInduction

-----------------------------------------------------------------------------
(***************************************************************************)
(* The recursive functions of Inflate.                                     *)
(***************************************************************************)
(***************************************************************************)
(* Induction and recursion over the fields of a stream.                    *)
(***************************************************************************)
LEMMA Chain ==
  ASSUME NEW m \in Nat, NEW S, 1 \in S, \A i \in 1 .. m - 1 : i \in S => i + 1 \in S
  PROVE  \A i \in 1 .. m : i \in S
  <1> SUFFICES ASSUME NEW k \in 1 .. m, k \notin S PROVE FALSE
    OBVIOUS
  <1> DEFINE T == {i \in 1 .. m : i \notin S}
  <1>1. T \in SUBSET Nat /\ T # {}
    OBVIOUS
  <1>2. PICK x \in T : \A y \in T : ~ (<<y, x>> \in OpToRel(<, Nat))
    BY <1>1, NatLessThanWellFounded, WFMin
  <1>3. \A y \in T : y < x => <<y, x>> \in OpToRel(<, Nat)
    BY <1>1 DEF OpToRel
  <1>4. \A y \in T : ~ (y < x)
    BY <1>2, <1>3, Zenon
  <1>5. x # 1 /\ x \in 1 .. m
    OBVIOUS
  <1>6. x - 1 \in 1 .. m - 1 /\ x - 1 \in 1 .. m /\ x - 1 < x
    BY <1>5
  <1>7. x - 1 \in S
    BY <1>4, <1>6
  <1>8. (x - 1) + 1 = x
    BY <1>5
  <1>9. QED BY <1>6, <1>7, <1>8

LEMMA RecursionExists ==
  ASSUME NEW V, NEW v \in V, NEW m \in Nat, NEW h \in [1 .. m -> [V -> V]]
  PROVE  \E f \in [1 .. m + 1 -> V] :
           f[1] = v /\ \A i \in 1 .. m : f[i + 1] = h[i][f[i]]
  <1> DEFINE Upto(n) == \E f \in [1 .. n -> V] :
               f[1] = v /\ \A i \in 1 .. n - 1 : f[i + 1] = h[i][f[i]]
             S == {n \in Nat : Upto(n)}
  <1>1. 1 \in S
    <2> DEFINE f == [i \in 1 .. 1 |-> v]
    <2>1. f \in [1 .. 1 -> V] /\ f[1] = v /\ 1 .. 1 - 1 = {}
      OBVIOUS
    <2>2. Upto(1)
      BY <2>1
    <2>3. QED BY <2>2
  <1>2. ASSUME NEW n \in 1 .. (m + 1) - 1, n \in S PROVE n + 1 \in S
    <2>1. PICK f \in [1 .. n -> V] :
            f[1] = v /\ \A i \in 1 .. n - 1 : f[i + 1] = h[i][f[i]]
      BY <1>2
    <2> DEFINE g == [i \in 1 .. n + 1 |-> IF i = n + 1 THEN h[n][f[n]] ELSE f[i]]
    <2>2. h[n][f[n]] \in V
      BY <1>2
    <2>3. g \in [1 .. n + 1 -> V] /\ g[1] = v
      BY <2>1, <2>2
    <2>4. \A i \in 1 .. (n + 1) - 1 : g[i + 1] = h[i][g[i]]
      <3>0. (n + 1) - 1 = n
        OBVIOUS
      <3> SUFFICES ASSUME NEW i \in 1 .. n PROVE g[i + 1] = h[i][g[i]]
        BY <3>0
      <3>1. g[i] = f[i] /\ i + 1 \in 1 .. n + 1
        OBVIOUS
      <3>2. CASE i = n
        BY <3>1, <3>2
      <3>3. CASE i # n
        BY <2>1, <3>1, <3>3
      <3>4. QED BY <3>2, <3>3
    <2> HIDE DEF g
    <2>5. Upto(n + 1)
      BY <2>3, <2>4
    <2>6. QED BY <2>5
  <1> HIDE DEF Upto
  <1>4. Upto(m + 1)
    <2> HIDE DEF S
    <2>1. m + 1 \in Nat /\ m + 1 \in 1 .. m + 1
      OBVIOUS
    <2>2. \A n \in 1 .. m + 1 : n \in S
      BY <1>1, <1>2, <2>1, Chain
    <2>3. m + 1 \in S
      BY <2>1, <2>2
    <2>4. QED BY <2>3 DEF S
  <1>5. (m + 1) - 1 = m
    OBVIOUS
  <1>6. QED BY <1>4, <1>5 DEF Upto

\* A function on 1 .. n is a tuple, and stays one behind the empty tuple.
LEMMA AsTuple ==
  ASSUME NEW V, NEW n \in Nat, NEW f \in [1 .. n -> V]
  PROVE  f \in Seq(V) /\ Len(f) = n /\ <<>> \o f = f
  <1>1. f \in Seq(V) /\ Len(f) = n
    OBVIOUS
  <1>2. QED BY <1>1

-----------------------------------------------------------------------------
(***************************************************************************)
(* The streams.                                                            *)
(***************************************************************************)
Fields == [is : STRING, bits : Nat, look : Nat, extra : Nat, val : Nat]

LEMMA StreamTypes ==
  ASSUME NEW t \in Streams
  PROVE  /\ t \in Seq(Fields) /\ Len(t) \in Nat
         /\ \A i \in 1 .. Len(t) : t[i] \in Fields
  <1>1. t \in Seq(Fields)
    BY StreamAssumption DEF Fields
  <1>2. QED BY <1>1

LEMMA InBytesFacts ==
  ASSUME NEW b \in Nat
  PROVE  /\ InBytes(b) \in Nat /\ Up(b) \in Nat
         /\ b <= InBytes(b) * Byte /\ InBytes(b) * Byte < b + Byte
  BY SizeAssumption DEF InBytes, Up

NextBit(p, f) == IF f.is = "stored" THEN Up(p + f.bits + f.extra) ELSE p + f.bits + f.extra

LEMMA NextBitType ==
  ASSUME NEW p \in Nat, NEW f \in Fields
  PROVE  NextBit(p, f) \in Nat
  <1>1. p + f.bits + f.extra \in Nat
    BY DEF Fields
  <1>2. QED BY <1>1, InBytesFacts DEF NextBit

LEMMA AtFacts ==
  ASSUME NEW t \in Streams
  PROVE  /\ At[t] \in Seq(Nat) /\ Len(At[t]) = Len(t) + 1
         /\ At[t][1] = 0
         /\ \A i \in 1 .. Len(t) + 1 : At[t][i] \in Nat
         /\ \A i \in 1 .. Len(t) : At[t][i + 1] = NextBit(At[t][i], t[i])
  <1> DEFINE m == Len(t)
             h == [i \in 1 .. m |-> [p \in Nat |-> NextBit(p, t[i])]]
             at[i \in 1 .. m + 1] ==
               IF i = 1 THEN 0
               ELSE LET end == at[i - 1] + t[i - 1].bits + t[i - 1].extra
                    IN  IF t[i - 1].is = "stored" THEN Up(end) ELSE end
  <1>1. m \in Nat /\ \A i \in 1 .. m : t[i] \in Fields
    BY StreamTypes
  <1>2. h \in [1 .. m -> [Nat -> Nat]]
    BY <1>1, NextBitType
  <1>3. PICK f \in [1 .. m + 1 -> Nat] :
          f[1] = 0 /\ \A i \in 1 .. m : f[i + 1] = h[i][f[i]]
    <2> DEFINE V == Nat
               v == 0
    <2>1. v \in V /\ h \in [1 .. m -> [V -> V]] /\ m \in Nat
      BY <1>1, <1>2
    <2> HIDE DEF h, m, V, v
    <2>2. \E f \in [1 .. m + 1 -> V] : f[1] = v /\ \A i \in 1 .. m : f[i + 1] = h[i][f[i]]
      BY <2>1, RecursionExists
    <2>3. QED BY <2>2 DEF V, v
  <1>4. ASSUME NEW i \in 1 .. m PROVE f[i + 1] = NextBit(f[i], t[i])
    <2>1. f[i] \in Nat /\ f[i + 1] = h[i][f[i]]
      <3>1. i \in 1 .. m + 1
        BY <1>1
      <3>2. QED BY <1>3, <3>1
    <2>2. h[i] = [p \in Nat |-> NextBit(p, t[i])]
      OBVIOUS
    <2>3. QED BY <2>1, <2>2
  <1>5. f = [i \in 1 .. m + 1 |->
               IF i = 1 THEN 0
               ELSE LET end == f[i - 1] + t[i - 1].bits + t[i - 1].extra
                    IN  IF t[i - 1].is = "stored" THEN Up(end) ELSE end]
    <2> SUFFICES ASSUME NEW i \in 1 .. m + 1, i # 1
                 PROVE  f[i] = NextBit(f[i - 1], t[i - 1])
      BY <1>3 DEF NextBit
    <2>1. i - 1 \in 1 .. m /\ (i - 1) + 1 = i
      BY <1>1
    <2>2. QED BY <1>4, <2>1
  <1>6. at = [i \in 1 .. m + 1 |->
               IF i = 1 THEN 0
               ELSE LET end == at[i - 1] + t[i - 1].bits + t[i - 1].extra
                    IN  IF t[i - 1].is = "stored" THEN Up(end) ELSE end]
    BY <1>5
  <1>7. At[t] = <<>> \o [i \in 1 .. m + 1 |-> at[i]]
    BY DEF At
  <1> HIDE DEF at, h
  <1>8. \A i \in 1 .. m : at[i] = f[i] => at[i + 1] = f[i + 1]
    <2> SUFFICES ASSUME NEW i \in 1 .. m, at[i] = f[i] PROVE at[i + 1] = f[i + 1]
      OBVIOUS
    <2>1. i + 1 \in 1 .. m + 1 /\ i + 1 # 1 /\ (i + 1) - 1 = i
      BY <1>1
    <2>2. at[i + 1] = NextBit(at[i], t[i])
      BY <1>6, <2>1 DEF NextBit
    <2>3. QED BY <1>4, <2>2
  <1>9. at[1] = f[1]
    BY <1>1, <1>3, <1>6
  <1>10. \A i \in 1 .. m + 1 : at[i] = f[i]
    <2> DEFINE S == {i \in Nat : at[i] = f[i]}
    <2>1. 1 \in S /\ \A i \in 1 .. (m + 1) - 1 : i \in S => i + 1 \in S
      BY <1>1, <1>8, <1>9
    <2> HIDE DEF S, m
    <2>2. m + 1 \in Nat
      BY <1>1
    <2>3. \A i \in 1 .. m + 1 : i \in S
      BY <2>1, <2>2, Chain
    <2>4. QED BY <2>3 DEF S
  <1>11. [i \in 1 .. m + 1 |-> at[i]] = f
    BY <1>3, <1>10
  <1>12. At[t] = f
    BY <1>1, <1>3, <1>7, <1>11, AsTuple
  <1>13. f \in Seq(Nat) /\ Len(f) = m + 1
    BY <1>1, <1>3, AsTuple
  <1>14. QED BY <1>3, <1>4, <1>12, <1>13

-----------------------------------------------------------------------------
(***************************************************************************)
(* What is due.                                                            *)
(***************************************************************************)
Whats == {"block", "lens", "byte", "table", "tree", "code", "dist", "end", "nothing"}

States == {d \in [what : Whats, left : Nat, last : BOOLEAN] :
             d.what \in {"byte", "tree"} => d.left >= 1}

LEMMA AfterType ==
  ASSUME NEW d \in States, NEW f \in Fields
  PROVE  After(d, f) \in States
  <1>1. f.val \in Nat /\ d.left \in Int /\ d.last \in BOOLEAN
    BY DEF Fields, States
  <1>2. \A what \in Whats, n \in Int, l \in BOOLEAN :
          n > 0 => Due(what, n, l) \in States
    BY DEF Due, States, Whats
  <1>3. \A what \in Whats \ {"byte", "tree"}, l \in BOOLEAN :
          Due(what, 0, l) \in States
    BY DEF Due, States, Whats
  <1>4. EndOfBlock(d.last) \in States /\ Due("code", 0, d.last) \in States
    BY <1>1, <1>3 DEF EndOfBlock, Whats
  <1>5. (f.val = 1) \in BOOLEAN /\ d.left - 1 \in Int
    BY <1>1
  <1>6. /\ Due("nothing", 0, FALSE) \in States
        /\ Due("lens", 0, f.val = 1) \in States
        /\ Due("code", 0, f.val = 1) \in States
        /\ Due("table", 0, f.val = 1) \in States
        /\ Due("dist", 0, d.last) \in States
    BY <1>1, <1>3, <1>5 DEF Whats
  <1>7. /\ f.val > 0 => Due("byte", f.val, d.last) \in States
        /\ f.val > 0 => Due("tree", f.val, d.last) \in States
        /\ d.left - 1 > 0 => Due("byte", d.left - 1, d.last) \in States
        /\ d.left - 1 > 0 => Due("tree", d.left - 1, d.last) \in States
    BY <1>1, <1>2, <1>5 DEF Whats
  <1>8. QED BY <1>4, <1>6, <1>7 DEF After

LEMMA DuesFacts ==
  ASSUME NEW t \in Streams
  PROVE  /\ Dues[t] \in Seq(States) /\ Len(Dues[t]) = Len(t) + 1
         /\ Dues[t][1] = Due("block", 0, FALSE)
         /\ \A i \in 1 .. Len(t) + 1 : Dues[t][i] \in States
         /\ \A i \in 1 .. Len(t) : Dues[t][i + 1] = After(Dues[t][i], t[i])
  <1> DEFINE m == Len(t)
             v == Due("block", 0, FALSE)
             h == [i \in 1 .. m |-> [d \in States |-> After(d, t[i])]]
             due[i \in 1 .. m + 1] ==
               IF i = 1 THEN v ELSE After(due[i - 1], t[i - 1])
  <1>1. m \in Nat /\ \A i \in 1 .. m : t[i] \in Fields
    BY StreamTypes
  <1>2. h \in [1 .. m -> [States -> States]]
    BY <1>1, AfterType
  <1>0. v \in States
    BY DEF Due, States, Whats
  <1> HIDE DEF v
  <1>3. PICK f \in [1 .. m + 1 -> States] :
          f[1] = v /\ \A i \in 1 .. m : f[i + 1] = h[i][f[i]]
    <2> HIDE DEF h, m
    <2>2. QED BY <1>0, <1>1, <1>2, RecursionExists
  <1>4. ASSUME NEW i \in 1 .. m PROVE f[i + 1] = After(f[i], t[i])
    <2>1. f[i] \in States /\ f[i + 1] = h[i][f[i]]
      BY <1>1, <1>3
    <2>2. h[i] = [d \in States |-> After(d, t[i])]
      OBVIOUS
    <2>3. QED BY <2>1, <2>2
  <1>5. f = [i \in 1 .. m + 1 |-> IF i = 1 THEN v ELSE After(f[i - 1], t[i - 1])]
    <2> SUFFICES ASSUME NEW i \in 1 .. m + 1, i # 1
                 PROVE  f[i] = After(f[i - 1], t[i - 1])
      BY <1>3
    <2>1. i - 1 \in 1 .. m /\ (i - 1) + 1 = i
      BY <1>1
    <2>2. QED BY <1>4, <2>1
  <1>6. due = [i \in 1 .. m + 1 |-> IF i = 1 THEN v ELSE After(due[i - 1], t[i - 1])]
    BY <1>5
  <1>7. Dues[t] = <<>> \o [i \in 1 .. m + 1 |-> due[i]]
    BY DEF Dues, v
  <1> HIDE DEF due, h
  <1>8. \A i \in 1 .. m : due[i] = f[i] => due[i + 1] = f[i + 1]
    <2> SUFFICES ASSUME NEW i \in 1 .. m, due[i] = f[i] PROVE due[i + 1] = f[i + 1]
      OBVIOUS
    <2>1. i + 1 \in 1 .. m + 1 /\ i + 1 # 1 /\ (i + 1) - 1 = i
      BY <1>1
    <2>2. due[i + 1] = After(due[i], t[i])
      BY <1>6, <2>1
    <2>3. QED BY <1>4, <2>2
  <1>9. due[1] = f[1]
    BY <1>1, <1>3, <1>6
  <1>10. \A i \in 1 .. m + 1 : due[i] = f[i]
    <2> DEFINE S == {i \in Nat : due[i] = f[i]}
    <2>1. 1 \in S /\ \A i \in 1 .. (m + 1) - 1 : i \in S => i + 1 \in S
      BY <1>1, <1>8, <1>9
    <2> HIDE DEF S, m
    <2>2. m + 1 \in Nat
      BY <1>1
    <2>3. \A i \in 1 .. m + 1 : i \in S
      BY <2>1, <2>2, Chain
    <2>4. QED BY <2>3 DEF S
  <1>11. [i \in 1 .. m + 1 |-> due[i]] = f
    BY <1>3, <1>10
  <1>12. Dues[t] = f
    BY <1>1, <1>3, <1>7, <1>11, AsTuple
  <1>13. f \in Seq(States) /\ Len(f) = m + 1
    BY <1>1, <1>3, AsTuple
  <1>14. QED BY <1>3, <1>4, <1>12, <1>13 DEF v

-----------------------------------------------------------------------------
(***************************************************************************)
(* The decoder, and the window.                                            *)
(***************************************************************************)
Modes == {"TYPE", "LENS", "STORED", "TABLE", "TREES", "START", "LEN", "LENEXT",
          "DIST", "DISTEXT", "COPY", "LIT", "WASH", "DRY", "DONE", "BAD",
          "FAST", "FASTDIST"}

Cells == [0 .. End - 1 -> Nat]

Decoders ==
  [base : Int, idx : Int, n : Int, n0 : Int, k : Int, i : Nat, mode : Modes,
   left : Nat, dist : Nat, last : BOOLEAN, win : Cells, read : 0 .. End - 1,
   write : 0 .. End, out : Seq(Nat), r : {"BUF", "OK", "END", "DATA"}]

Held(x) == x \in Decoders /\ Len(x.out) <= BufSize

\* What the window and the output buffer leave alone.
Core(x) == <<x.base, x.idx, x.n, x.n0, x.k, x.i, x.mode, x.left, x.dist, x.last>>

Pending(x) == x.write - x.read + IF x.read <= x.write THEN 0 ELSE End

LEMMA Sizes ==
  /\ Byte \in Nat /\ Byte > 0 /\ End \in Nat /\ End > 0 /\ BufSize \in Nat /\ BufSize > 0
  /\ MaxLen \in Nat /\ MaxLen > 0 /\ FastIn \in Nat
  /\ LitBits \in Nat /\ DistBits \in Nat /\ DistBits <= LitBits
  BY SizeAssumption

-----------------------------------------------------------------------------
(***************************************************************************)
(* Division.                                                               *)
(***************************************************************************)
LEMMA ModIs ==
  ASSUME NEW b \in Nat, b > 0, NEW q \in Nat, NEW r \in Nat, r < b
  PROVE  (q * b + r) % b = r
  OBVIOUS

LEMMA DivIs ==
  ASSUME NEW b \in Nat, b > 0, NEW q \in Nat, NEW r \in Nat, r < b
  PROVE  (q * b + r) \div b = q
  OBVIOUS

LEMMA Parts ==
  ASSUME NEW a \in Nat, NEW b \in Nat, b > 0
  PROVE  \E q, r \in Nat : a = q * b + r /\ r < b /\ r = a % b
  <1>1. a \div b \in Nat
    OBVIOUS
  <1>2. a % b \in Nat /\ a % b < b
    OBVIOUS
  <1>3. \A q, r \in Int : q = a \div b /\ r = a % b => a = q * b + r
    OBVIOUS
  <1>4. QED BY <1>1, <1>2, <1>3

LEMMA Dist2 ==
  \A a, b, c \in Int : (a + c) * b = a * b + c * b /\ a * b \in Int /\ c * b \in Int
  OBVIOUS

LEMMA Times ==
  \A a, b \in Nat : a * b \in Nat
  OBVIOUS

LEMMA ModAdd ==
  ASSUME NEW a \in Nat, NEW b \in Nat, b > 0, NEW c \in Nat
  PROVE  (a + c * b) % b = a % b
  <1>1. PICK q \in Nat, r \in Nat : a = q * b + r /\ r < b /\ r = a % b
    BY Parts
  <1>2. (q + c) * b = q * b + c * b /\ q + c \in Nat /\ q * b \in Int /\ c * b \in Int
    BY Dist2
  <1>3. ((q + c) * b + r) % b = r
    BY <1>1, <1>2, ModIs
  <1>4. a + c * b = (q + c) * b + r
    BY <1>1, <1>2
  <1>5. QED BY <1>1, <1>3, <1>4

LEMMA Mul ==
  ASSUME NEW p \in Nat, NEW q \in Nat, NEW b \in Nat, b > 0,
         q * b <= p * b, p * b < q * b + b
  PROVE  p = q
  <1>1. p * b < (q + 1) * b
    BY Dist2
  <1>2. p < q + 1
    BY <1>1
  <1>3. q <= p
    OBVIOUS
  <1>4. QED BY <1>2, <1>3

\* Multiples of b lie b apart.
LEMMA Multiples ==
  ASSUME NEW a \in Nat, NEW b \in Nat, b > 0, NEW e \in Nat,
         a % b = 0, e % b = 0, a <= e, e < a + b
  PROVE  a = e
  <1>1. PICK q \in Nat, r \in Nat : a = q * b + r /\ r = a % b
    BY Parts
  <1>2. PICK p \in Nat, t \in Nat : e = p * b + t /\ t = e % b
    BY Parts
  <1>3. a = q * b /\ e = p * b
    BY <1>1, <1>2, Times
  <1>4. p = q
    BY <1>3, Mul
  <1>5. QED BY <1>3, <1>4

LEMMA MinFacts ==
  ASSUME NEW a \in Int, NEW b \in Int
  PROVE  Min({a, b}) = IF a <= b THEN a ELSE b
  BY DEF Min

LEMMA HeldFields ==
  ASSUME NEW x, Held(x)
  PROVE  /\ x.base \in Int /\ x.idx \in Int /\ x.n \in Int /\ x.n0 \in Int /\ x.k \in Int
         /\ x.i \in Nat /\ x.mode \in Modes /\ x.left \in Nat /\ x.dist \in Nat
         /\ x.last \in BOOLEAN /\ x.win \in Cells
         /\ x.read \in Nat /\ x.read < End /\ x.write \in Nat /\ x.write <= End
         /\ x.out \in Seq(Nat) /\ Len(x.out) \in Nat /\ Len(x.out) <= BufSize
         /\ x.r \in {"BUF", "OK", "END", "DATA"}
  <1>1. x \in Decoders /\ Len(x.out) <= BufSize
    BY DEF Held
  <1>2. /\ x.base \in Int /\ x.idx \in Int /\ x.n \in Int /\ x.n0 \in Int /\ x.k \in Int
        /\ x.i \in Nat /\ x.mode \in Modes /\ x.left \in Nat /\ x.dist \in Nat
    BY <1>1 DEF Decoders
  <1>3. /\ x.last \in BOOLEAN /\ x.win \in Cells
        /\ x.read \in 0 .. End - 1 /\ x.write \in 0 .. End
        /\ x.out \in Seq(Nat) /\ x.r \in {"BUF", "OK", "END", "DATA"}
    BY <1>1 DEF Decoders
  <1>4. QED BY <1>1, <1>2, <1>3, Sizes, SMTT(30)

\* inflate_flush(): how much it copies, what it leaves alone.
GiveCount(x) == IF Pending(x) <= BufSize - Len(x.out) THEN Pending(x) ELSE BufSize - Len(x.out)

Given(x) == [j \in 1 .. GiveCount(x) |-> x.win[(x.read + j - 1) % End]]

LEMMA PendingFacts ==
  ASSUME NEW x, Held(x)
  PROVE  /\ Pending(x) \in Nat /\ Pending(x) <= End
         /\ GiveCount(x) \in Nat /\ GiveCount(x) <= Pending(x)
         /\ GiveCount(x) <= BufSize - Len(x.out)
  BY HeldFields, Sizes DEF Pending, GiveCount

LEMMA GivenFacts ==
  ASSUME NEW x, Held(x)
  PROVE  Given(x) \in Seq(Nat) /\ Len(Given(x)) = GiveCount(x)
  <1>1. ASSUME NEW j \in 1 .. GiveCount(x) PROVE x.win[(x.read + j - 1) % End] \in Nat
    <2>1. x.read + j - 1 \in Nat
      BY HeldFields, PendingFacts
    <2>2. (x.read + j - 1) % End \in 0 .. End - 1
      BY <2>1, Sizes
    <2>3. x.win \in [0 .. End - 1 -> Nat]
      BY HeldFields DEF Cells
    <2>4. QED BY <2>2, <2>3
  <1>2. Given(x) \in [1 .. GiveCount(x) -> Nat]
    BY <1>1 DEF Given
  <1>3. QED BY <1>2, PendingFacts, AsTuple

LEMMA FlushIs ==
  ASSUME NEW x, Held(x)
  PROVE  Flush(x) =
           [x EXCEPT !.out   = x.out \o Given(x),
                     !.read  = (x.read + GiveCount(x)) % End,
                     !.write = IF x.read + GiveCount(x) = End /\ x.write = End
                                 THEN 0 ELSE x.write,
                     !.r     = IF GiveCount(x) # 0 /\ x.r = "BUF" THEN "OK" ELSE x.r]
  <1>1. Min({Pending(x), BufSize - Len(x.out)}) = GiveCount(x)
    <2>1. Pending(x) \in Int /\ BufSize - Len(x.out) \in Int
      BY HeldFields, PendingFacts, Sizes
    <2> DEFINE a == Pending(x)
               b == BufSize - Len(x.out)
    <2> HIDE DEF a, b
    <2>2. Min({a, b}) = IF a <= b THEN a ELSE b
      BY <2>1, MinFacts DEF a, b
    <2>3. QED BY <2>2 DEF GiveCount, a, b
  <1>2. QED BY <1>1 DEF Flush, Give, Given, Pending

Copied(x, o, p, q, r) ==
  [x EXCEPT !.out = o, !.read = p, !.write = q, !.r = r]

LEMMA SetCopied ==
  ASSUME NEW x \in Decoders, NEW o, NEW p, NEW q, NEW r,
         NEW y, y = Copied(x, o, p, q, r)
  PROVE  /\ y.base = x.base /\ y.idx = x.idx /\ y.n = x.n /\ y.n0 = x.n0 /\ y.k = x.k
         /\ y.i = x.i /\ y.mode = x.mode /\ y.left = x.left /\ y.dist = x.dist
         /\ y.last = x.last /\ y.win = x.win
         /\ y.out = o /\ y.read = p /\ y.write = q /\ y.r = r
         /\ o \in Seq(Nat) /\ p \in 0 .. End - 1 /\ q \in 0 .. End
              /\ r \in {"BUF", "OK", "END", "DATA"} => y \in Decoders
  BY DEF Decoders, Copied

LEMMA SetWrite ==
  ASSUME NEW x \in Decoders, NEW q,
         NEW y, y = [x EXCEPT !.write = q]
  PROVE  /\ y.base = x.base /\ y.idx = x.idx /\ y.n = x.n /\ y.n0 = x.n0 /\ y.k = x.k
         /\ y.i = x.i /\ y.mode = x.mode /\ y.left = x.left /\ y.dist = x.dist
         /\ y.last = x.last /\ y.win = x.win
         /\ y.out = x.out /\ y.read = x.read /\ y.write = q /\ y.r = x.r
         /\ q \in 0 .. End => y \in Decoders
  BY DEF Decoders

LEMMA Around ==
  ASSUME NEW a \in Nat, NEW b \in Nat, NEW c \in Nat, c > 0, a + b < 2 * c
  PROVE  (a + b) % c = IF a + b < c THEN a + b ELSE a + b - c
  OBVIOUS

LEMMA FlushFacts ==
  ASSUME NEW x, Held(x)
  PROVE  LET y == Flush(x) IN
         /\ Held(y) /\ Core(y) = Core(x) /\ y.win = x.win
         /\ y.out = x.out \o Given(x) /\ Len(y.out) = Len(x.out) + GiveCount(x)
         /\ y.r = (IF GiveCount(x) # 0 /\ x.r = "BUF" THEN "OK" ELSE x.r)
         /\ Pending(y) = Pending(x) - GiveCount(x)
         /\ y.read # y.write => Len(y.out) = BufSize
         /\ (x.write # End \/ x.read = 0) /\ Len(y.out) # BufSize => Room(y) # 0
  <1> DEFINE y == Flush(x)
             g == GiveCount(x)
             o == x.out \o Given(x)
             p == (x.read + g) % End
             q == IF x.read + g = End /\ x.write = End THEN 0 ELSE x.write
             r == IF g # 0 /\ x.r = "BUF" THEN "OK" ELSE x.r
  <1>0. x \in Decoders /\ y = Copied(x, o, p, q, r)
    BY FlushIs DEF Held, Copied
  <1> HIDE DEF y, g, o, p, q, r
  <1>1. /\ y.base = x.base /\ y.idx = x.idx /\ y.n = x.n /\ y.n0 = x.n0 /\ y.k = x.k
        /\ y.i = x.i /\ y.mode = x.mode /\ y.left = x.left /\ y.dist = x.dist
        /\ y.last = x.last /\ y.win = x.win
        /\ y.out = o /\ y.read = p /\ y.write = q /\ y.r = r
        /\ o \in Seq(Nat) /\ p \in 0 .. End - 1 /\ q \in 0 .. End
              /\ r \in {"BUF", "OK", "END", "DATA"} => y \in Decoders
    BY <1>0, SetCopied
  <1> DEFINE rd == x.read
             wr == x.write
  <1>2. /\ g \in Nat /\ rd \in Nat /\ rd < End /\ wr \in Nat /\ wr <= End
        /\ g <= wr - rd + IF rd <= wr THEN 0 ELSE End
        /\ Pending(x) = wr - rd + IF rd <= wr THEN 0 ELSE End
        /\ q = IF rd + g = End /\ wr = End THEN 0 ELSE wr
        /\ End \in Nat
    BY HeldFields, PendingFacts, Sizes DEF Pending, g, q
  <1>3. p = IF rd + g < End THEN rd + g ELSE rd + g - End
    <2>1. p = (rd + g) % End
      BY DEF p
    <2> HIDE DEF rd, wr
    <2>2. rd + g \in Nat /\ rd + g < 2 * End
      BY <1>2
    <2>3. QED BY <1>2, <2>1, <2>2, Sizes, Around
  <1> HIDE DEF rd, wr
  <1>4. p \in 0 .. End - 1 /\ q \in 0 .. End
    BY <1>2, <1>3, Sizes
  <1>5. o \in Seq(Nat) /\ Len(o) = Len(x.out) + g
    <2>1. x.out \in Seq(Nat) /\ Given(x) \in Seq(Nat) /\ Len(Given(x)) = g
      BY HeldFields, GivenFacts DEF g
    <2> DEFINE u == x.out
               v == Given(x)
    <2> HIDE DEF u, v
    <2>2. u \o v \in Seq(Nat) /\ Len(u \o v) = Len(u) + Len(v)
      BY <2>1, SMTT(30) DEF u, v
    <2>3. QED BY <2>1, <2>2 DEF o, u, v
  <1>6. r \in {"BUF", "OK", "END", "DATA"}
    BY HeldFields DEF r
  <1>7. y \in Decoders
    BY <1>1, <1>4, <1>5, <1>6
  <1>8. Len(y.out) <= BufSize
    <2>1. g <= BufSize - Len(x.out)
      BY PendingFacts DEF g
    <2>2. QED BY <1>1, <1>2, <1>5, <2>1, HeldFields, Sizes
  <1>9. Pending(y) = Pending(x) - g
    BY <1>1, <1>2, <1>3 DEF Pending
  <1>10. Len(y.out) # BufSize => g = Pending(x)
    BY <1>1, <1>5, HeldFields, PendingFacts, Sizes DEF GiveCount, g
  <1>11. y.read # y.write => Len(y.out) = BufSize
    BY <1>1, <1>2, <1>3, <1>10
  <1>12. (x.write # End \/ x.read = 0) /\ Len(y.out) # BufSize => Room(y) # 0
    <2>1. (wr # End \/ rd = 0) /\ Len(y.out) # BufSize => y.write \in Nat /\ y.write < End /\ y.read = y.write
      BY <1>1, <1>2, <1>3, <1>10
    <2>2. (wr # End \/ rd = 0) /\ Len(y.out) # BufSize => Room(y) # 0
      BY <1>2, <2>1 DEF Room
    <2>3. QED BY <2>2 DEF rd, wr
  <1>13. Held(y) /\ Core(y) = Core(x)
    BY <1>1, <1>7, <1>8 DEF Held, Core
  <1>14. QED BY <1>1, <1>5, <1>9, <1>11, <1>12, <1>13 DEF g, y, o, r

LEMMA WrapFacts ==
  ASSUME NEW x, Held(x)
  PROVE  LET y == Wrap(x) IN
         /\ Held(y) /\ Core(y) = Core(x) /\ y.win = x.win
         /\ y.out = x.out /\ y.r = x.r /\ y.read = x.read
         /\ Pending(y) = Pending(x)
         /\ y.write # End \/ y.read = 0
  <1> DEFINE y == Wrap(x)
  <1>1. CASE x.write = End /\ x.read # 0
    <2>1. y = [x EXCEPT !.write = 0]
      BY <1>1 DEF Wrap
    <2>2. /\ y.base = x.base /\ y.idx = x.idx /\ y.n = x.n /\ y.n0 = x.n0 /\ y.k = x.k
          /\ y.i = x.i /\ y.mode = x.mode /\ y.left = x.left /\ y.dist = x.dist
          /\ y.last = x.last /\ y.win = x.win /\ y.out = x.out /\ y.r = x.r
          /\ y.read = x.read /\ y.write = 0
      BY <2>1, SetWrite DEF Held
    <2>3. y \in Decoders
      BY <2>1, SetWrite, Sizes DEF Held
    <2>4. Held(y) /\ Core(y) = Core(x)
      BY <2>2, <2>3 DEF Held, Core
    <2>5. Pending(y) = Pending(x)
      <3>1. x.read \in Nat /\ End \in Nat /\ x.read < End
        BY HeldFields, Sizes
      <3> HIDE DEF y
      <3>2. QED BY <1>1, <2>2, <3>1 DEF Pending
    <2>6. QED BY <1>1, <2>2, <2>4, <2>5, Sizes
  <1>2. CASE ~ (x.write = End /\ x.read # 0)
    <2>1. y = x
      BY <1>2 DEF Wrap
    <2>2. QED BY <1>2, <2>1
  <1>3. QED BY <1>1, <1>2

LEMMA MakeRoomFacts ==
  ASSUME NEW x, Held(x)
  PROVE  LET y == MakeRoom(x) IN
         /\ Held(y) /\ Core(y) = Core(x) /\ y.win = x.win
         /\ Room(y) \in Nat
         /\ Room(y) = 0 => Len(y.out) = BufSize
         /\ y.r = "BUF" => x.r = "BUF" /\ y.out = x.out
  <1> DEFINE w == Wrap(x)
             f == Flush(w)
             v == Wrap(f)
             y == MakeRoom(x)
  <1>1. \A u : Held(u) => Room(u) \in Nat
    BY HeldFields, Sizes DEF Room
  <1>2. Held(w) /\ Core(w) = Core(x) /\ w.win = x.win /\ w.r = x.r /\ w.out = x.out
        /\ (w.write # End \/ w.read = 0)
    BY WrapFacts
  <1>a. \/ y = x /\ Room(x) # 0
        \/ y = w /\ Room(w) # 0
        \/ y = v
    BY DEF MakeRoom
  <1>b. (f.write = End /\ f.read # 0) \/ v = f
    BY DEF Wrap
  <1> HIDE DEF w
  <1>3. /\ Held(f) /\ Core(f) = Core(w) /\ f.win = w.win
        /\ f.out = w.out \o Given(w)
        /\ f.r = (IF GiveCount(w) # 0 /\ w.r = "BUF" THEN "OK" ELSE w.r)
        /\ f.read # f.write => Len(f.out) = BufSize
        /\ Len(f.out) # BufSize => Room(f) # 0
    BY <1>2, FlushFacts
  <1>4. f.r = "BUF" => w.r = "BUF" /\ f.out = w.out
    <2>1. f.r = "BUF" => w.r = "BUF" /\ GiveCount(w) = 0
      BY <1>3
    <2>2. GiveCount(w) = 0 => Given(w) = <<>>
      BY <1>2, GivenFacts
    <2>3. w.out \in Seq(Nat)
      BY <1>2, HeldFields
    <2>4. w.out \o <<>> = w.out
      BY <2>3
    <2>5. QED BY <1>3, <2>1, <2>2, <2>4
  <1> HIDE DEF f
  <1>5. Held(v) /\ Core(v) = Core(f) /\ v.win = f.win /\ v.out = f.out /\ v.r = f.r
    BY <1>3, WrapFacts
  <1>6. Room(v) = 0 => Len(v.out) = BufSize
    <2> SUFFICES ASSUME Len(f.out) # BufSize PROVE Room(v) # 0
      BY <1>5
    <2>1. f.read < End /\ f.read = f.write /\ Room(f) # 0
      BY <1>3, HeldFields
    <2>2. v = f
      BY <1>b, <2>1, HeldFields, <1>3
    <2>3. QED BY <2>1, <2>2
  <1> HIDE DEF v, y
  <1>7. CASE y = x /\ Room(x) # 0
    BY <1>1, <1>7 DEF y
  <1>8. CASE y = w /\ Room(w) # 0
    BY <1>1, <1>2, <1>8 DEF y
  <1>9. CASE y = v
    BY <1>1, <1>2, <1>3, <1>4, <1>5, <1>6, <1>9 DEF y
  <1>10. QED BY <1>a, <1>7, <1>8, <1>9

-----------------------------------------------------------------------------
(***************************************************************************)
(* Where the decoder stands.                                               *)
(***************************************************************************)
Live(x) == x.mode \notin {"BAD", "DONE"}

\* The field that comes next, and what is due there.
Ahead(x) == s[x.i + 1]
DueAt(x) == Dues[s][x.i + 1]

Pos(x) == (x.base + x.idx) * Byte - x.k

Begun(x) == IF x.mode \in {"LENEXT", "DISTEXT"} THEN Ahead(x).bits ELSE 0

Place(x) ==
  /\ x.mode = "TYPE"    => DueAt(x).what = "block"
  /\ x.mode = "LENS"    => DueAt(x).what = "lens"
  /\ x.mode = "STORED"  => DueAt(x).what = "byte" /\ DueAt(x).left = x.left
  /\ x.mode = "TABLE"   => DueAt(x).what = "table"
  /\ x.mode = "TREES"   => IF x.left = 0
                             THEN DueAt(x).what = "code"
                             ELSE DueAt(x).what = "tree" /\ DueAt(x).left = x.left
  /\ x.mode \in {"START", "LEN", "LENEXT", "COPY", "LIT", "FAST"} =>
       DueAt(x).what = "code"
  /\ x.mode \in {"DIST", "DISTEXT", "FASTDIST"} =>
       DueAt(x).what = "dist" /\ x.left \in 2 .. MaxLen
  /\ x.mode = "LENEXT"  => Ahead(x).is = "len"
  /\ x.mode = "DISTEXT" => Ahead(x).is = "dist"
  /\ x.mode = "COPY"    => x.dist \in 1 .. End
  /\ x.mode = "LIT"     => x.i >= 1
  /\ x.mode = "WASH"    => DueAt(x).what = (IF x.last THEN "end" ELSE "block")
  /\ x.mode = "DRY"     => DueAt(x).what = "end"
  /\ DueAt(x).last = x.last

Amounts(x, g) ==
  /\ x.n >= 0 /\ x.k >= 0
  /\ x.base + x.idx + x.n = g
  /\ Pos(x) = At[s][x.i + 1] + Begun(x)
  /\ IF x.mode = "LENS"
       THEN Ahead(x).is = "lens" => x.k % Byte = 0 /\ x.k <= Ahead(x).bits
       ELSE x.k < LitBits + Byte
  /\ x.mode = "STORED" => x.k = 0

Quick(x) ==
  /\ x.mode \in {"FAST", "FASTDIST"} => x.n <= x.n0 /\ Room(x) >= MaxLen
  /\ x.mode = "FAST" => x.n >= FastIn
  /\ x.mode = "FASTDIST" => x.n >= FastIn - InBytes(LitBits)

Kept(x, g) == Held(x) /\ x.i <= Len(s) /\ (Live(x) => Place(x) /\ Amounts(x, g))

-----------------------------------------------------------------------------
LEMMA Places ==
  ASSUME s \in Streams, NEW x, Held(x), x.i <= Len(s)
  PROVE  /\ DueAt(x) \in States /\ At[s][x.i + 1] \in Nat
         /\ x.i + 1 \in 1 .. Len(s) + 1 /\ Len(s) \in Nat
  <1>1. x.i \in Nat /\ Len(s) \in Nat
    BY HeldFields, StreamTypes
  <1>2. x.i + 1 \in 1 .. Len(s) + 1
    BY <1>1
  <1>3. QED BY <1>1, <1>2, DuesFacts, AtFacts DEF DueAt

\* What is known of the next field, when one is due.
LEMMA FieldAhead ==
  ASSUME s \in Streams, NEW x, Held(x), x.i <= Len(s),
         DueAt(x).what \notin {"end", "nothing"}
  PROVE  /\ x.i + 1 <= Len(s) /\ x.i + 1 \in 1 .. Len(s)
         /\ Ahead(x) \in Fields
         /\ Fits(DueAt(x), Ahead(x), Out[s][x.i + 1])
         /\ Dues[s][x.i + 2] = After(DueAt(x), Ahead(x))
         /\ At[s][x.i + 2] = NextBit(At[s][x.i + 1], Ahead(x))
  <1>1. x.i \in Nat /\ Len(s) \in Nat
    BY HeldFields, StreamTypes
  <1>2. Dues[s][Len(s) + 1].what \in {"end", "nothing"}
    BY StreamAssumption
  <1>3. x.i # Len(s)
    BY <1>2 DEF DueAt
  <1>4. x.i + 1 \in 1 .. Len(s) /\ x.i + 2 = (x.i + 1) + 1
    BY <1>1, <1>3
  <1>5. Fits(DueAt(x), Ahead(x), Out[s][x.i + 1])
    BY <1>4, StreamAssumption DEF DueAt, Ahead
  <1> DEFINE i == x.i + 1
  <1>6. i \in 1 .. Len(s) /\ x.i + 2 = i + 1
    BY <1>4
  <1> HIDE DEF i
  <1>7. s[i] \in Fields
    BY <1>6, StreamTypes
  <1>8. Dues[s][i + 1] = After(Dues[s][i], s[i])
    BY <1>6, DuesFacts
  <1>9. At[s][i + 1] = NextBit(At[s][i], s[i])
    BY <1>6, AtFacts
  <1>10. QED BY <1>1, <1>4, <1>5, <1>6, <1>7, <1>8, <1>9 DEF DueAt, Ahead, i

LEMMA Distribute ==
  ASSUME NEW a \in Int, NEW b \in Int, NEW c \in Int
  PROVE  (a + b) * c = a * c + b * c
  OBVIOUS

Fetched(x, a, b, e, r) == [x EXCEPT !.idx = a, !.n = b, !.k = e, !.r = r]

LEMMA SetFetched ==
  ASSUME NEW x \in Decoders, NEW a \in Int, NEW b \in Int, NEW e \in Int,
         NEW r \in {"BUF", "OK", "END", "DATA"}
  PROVE  LET y == Fetched(x, a, b, e, r) IN
         /\ y.idx = a /\ y.n = b /\ y.k = e /\ y.r = r
         /\ y.base = x.base /\ y.n0 = x.n0
         /\ y.i = x.i /\ y.mode = x.mode /\ y.left = x.left /\ y.dist = x.dist
         /\ y.last = x.last /\ y.win = x.win
         /\ y.out = x.out /\ y.read = x.read /\ y.write = x.write
         /\ y \in Decoders
  BY DEF Fetched, Decoders

LEMMA FetchFields ==
  ASSUME NEW x, Held(x), NEW c \in Nat
  PROVE  LET y == Fetch(x, c) IN
         /\ y.idx = x.idx + c /\ y.n = x.n - c /\ y.k = x.k + c * Byte
         /\ y.base = x.base /\ y.n0 = x.n0
         /\ y.i = x.i /\ y.mode = x.mode /\ y.left = x.left /\ y.dist = x.dist
         /\ y.last = x.last /\ y.win = x.win
         /\ y.out = x.out /\ y.read = x.read /\ y.write = x.write
         /\ y.r = (IF c = 0 THEN x.r ELSE "OK")
         /\ Held(y)
  <1> DEFINE r == IF c = 0 THEN x.r ELSE "OK"
  <1>1. c * Byte \in Int
    BY Sizes
  <1>2. /\ x \in Decoders /\ x.idx + c \in Int /\ x.n - c \in Int
        /\ x.k + c * Byte \in Int /\ r \in {"BUF", "OK", "END", "DATA"}
    BY <1>1, HeldFields DEF Held
  <1>3. Fetch(x, c) = Fetched(x, x.idx + c, x.n - c, x.k + c * Byte, r)
    BY DEF Fetch, Fetched
  <1> HIDE DEF r
  <1>4. LET y == Fetch(x, c) IN
         /\ y.idx = x.idx + c /\ y.n = x.n - c /\ y.k = x.k + c * Byte /\ y.r = r
         /\ y.base = x.base /\ y.n0 = x.n0
         /\ y.i = x.i /\ y.mode = x.mode /\ y.left = x.left /\ y.dist = x.dist
         /\ y.last = x.last /\ y.win = x.win
         /\ y.out = x.out /\ y.read = x.read /\ y.write = x.write
         /\ y \in Decoders
    BY <1>2, <1>3, SetFetched
  <1>5. QED BY <1>4 DEF Held, r

\* What is fetched moves from the chunk to the bit buffer.
LEMMA FetchPos ==
  ASSUME NEW x, Held(x), NEW c \in Nat
  PROVE  Pos(Fetch(x, c)) = Pos(x)
  <1> DEFINE a == x.base + x.idx
             y == Fetch(x, c)
  <1>1. a \in Int /\ y.base + y.idx = a + c /\ y.k = x.k + c * Byte /\ x.k \in Int
    BY HeldFields, FetchFields
  <1> HIDE DEF a, y
  <1>2. (a + c) * Byte = a * Byte + c * Byte /\ a * Byte \in Int /\ c * Byte \in Int
    BY <1>1, Sizes, Distribute
  <1>3. Pos(y) = (a + c) * Byte - y.k
    BY <1>1 DEF Pos
  <1>4. Pos(y) = a * Byte - x.k
    BY <1>1, <1>2, <1>3
  <1>5. QED BY <1>4 DEF Pos, a, y

LEMMA FetchKept ==
  ASSUME s \in Streams, NEW g, NEW x, Kept(x, g), Live(x), NEW c \in Nat, c <= x.n,
         x.mode # "STORED",
         IF x.mode = "LENS"
           THEN Ahead(x).is = "lens" =>
                  (x.k + c * Byte) % Byte = 0 /\ x.k + c * Byte <= Ahead(x).bits
           ELSE x.k + c * Byte < LitBits + Byte
  PROVE  Kept(Fetch(x, c), g)
  <1> DEFINE y == Fetch(x, c)
  <1>1. Held(x) /\ x.i <= Len(s) /\ Place(x) /\ Amounts(x, g)
    BY DEF Kept
  <1>2. /\ y.idx = x.idx + c /\ y.n = x.n - c /\ y.k = x.k + c * Byte
        /\ y.base = x.base /\ y.i = x.i /\ y.mode = x.mode /\ y.left = x.left
        /\ y.dist = x.dist /\ y.last = x.last /\ Held(y)
    BY <1>1, FetchFields
  <1>3. Pos(y) = Pos(x)
    BY <1>1, FetchPos
  <1> HIDE DEF y
  <1>4. Place(y)
    BY <1>1, <1>2 DEF Place, DueAt, Ahead
  <1>5. y.n >= 0 /\ y.k >= 0 /\ y.base + y.idx + y.n = g
    <2> DEFINE e == c * Byte
    <2>1. e \in Nat /\ y.k = x.k + e
      BY <1>2, Sizes
    <2> HIDE DEF e
    <2>2. x.k >= 0 /\ x.n \in Int /\ x.k \in Int /\ x.base \in Int /\ x.idx \in Int
          /\ x.base + x.idx + x.n = g
      BY <1>1, HeldFields DEF Amounts
    <2>3. QED BY <1>2, <2>1, <2>2
  <1>6. Pos(y) = At[s][y.i + 1] + Begun(y)
    BY <1>1, <1>2, <1>3 DEF Amounts, Begun, Ahead
  <1>7. IF y.mode = "LENS"
          THEN Ahead(y).is = "lens" => y.k % Byte = 0 /\ y.k <= Ahead(y).bits
          ELSE y.k < LitBits + Byte
    BY <1>2 DEF Ahead
  <1>8. Amounts(y, g)
    BY <1>2, <1>5, <1>6, <1>7 DEF Amounts
  <1>9. QED BY <1>1, <1>2, <1>4, <1>8 DEF Kept, y

\* The bytes that are fetched for so many bits.
LEMMA WantFacts ==
  ASSUME NEW x, x.k \in Nat, NEW bits \in Nat
  PROVE  /\ Want(x, bits) \in Nat
         /\ x.k + Want(x, bits) * Byte >= bits
         /\ Want(x, bits) # 0 => x.k + Want(x, bits) * Byte < bits + Byte
         /\ Want(x, bits) <= InBytes(bits)
         /\ \A c \in Nat : c < Want(x, bits) => x.k + c * Byte < bits
  <1>1. CASE x.k >= bits
    <2>1. Want(x, bits) = 0
      BY <1>1 DEF Want
    <2>2. QED BY <1>1, <2>1, InBytesFacts, Sizes
  <1>2. CASE x.k < bits
    <2> DEFINE b == bits - x.k
               w == InBytes(b)
    <2>1. b \in Nat /\ b <= bits
      BY <1>2
    <2>2. Want(x, bits) = w
      BY <1>2 DEF Want
    <2>3. w \in Nat /\ b <= w * Byte /\ w * Byte < b + Byte
      BY <2>1, InBytesFacts
    <2>4. w * Byte \in Nat
      BY <2>3, Sizes
    <2>5. w <= InBytes(bits)
      BY <2>1, Sizes DEF InBytes
    <2>6. ASSUME NEW c \in Nat, c < w PROVE c * Byte < b
      <3>1. c + 1 <= w /\ (c + 1) * Byte <= w * Byte
        BY <2>3, <2>6, Sizes
      <3>2. (c + 1) * Byte = c * Byte + Byte
        BY Sizes
      <3>3. c * Byte \in Nat
        BY Sizes
      <3>4. QED BY <2>1, <2>3, <2>4, <3>1, <3>2, <3>3, Sizes
    <2>7. \A c \in Nat : c * Byte \in Nat
      BY Sizes
    <2> DEFINE e == w * Byte
    <2>8. x.k + e >= bits /\ e < b + Byte /\ x.k + e < bits + Byte
      <3> HIDE DEF e
      <3>1. e \in Nat /\ b <= e /\ e < b + Byte
        BY <2>3, <2>4 DEF e
      <3>2. QED BY <3>1, Sizes
    <2>9. \A c \in Nat : c < w => x.k + c * Byte < bits
      BY <2>6, <2>7
    <2>10. QED BY <2>2, <2>3, <2>5, <2>8, <2>9
  <1>3. QED BY <1>1, <1>2

Ready(x, g) == Kept(x, g) /\ (Live(x) => Quick(x)) /\ (x.r = "BUF" => x.out = <<>>)

Fastest == {"FAST", "FASTDIST"}

\* What of x the decoder goes on with, and where it stands.
At1(x, y) == y.base = x.base /\ y.idx = x.idx /\ y.n = x.n

Rest(x, y) == /\ y.win = x.win /\ y.read = x.read /\ y.write = x.write
              /\ y.out = x.out /\ y.r = x.r /\ y.n0 = x.n0

LEMMA Loaded ==
  ASSUME s \in Streams, NEW g, NEW x, Kept(x, g), Live(x), NEW bits \in Nat,
         x.mode # "STORED", x.mode # "LENS" => bits <= LitBits,
         x.mode = "LENS" /\ Ahead(x).is = "lens" =>
            Ahead(x).bits = bits /\ bits % Byte = 0
  PROVE  /\ Want(x, bits) <= x.n =>
              /\ Kept(Load(x, bits), g) /\ Load(x, bits).k >= bits
              /\ x.mode = "LENS" /\ Ahead(x).is = "lens" => Load(x, bits).k = bits
         /\ Want(x, bits) > x.n => Kept(Fetch(x, x.n), g) /\ Fetch(x, x.n).n = 0
  <1>1. Held(x) /\ Amounts(x, g)
    BY DEF Kept
  <1>2. x.n \in Nat /\ x.k \in Nat /\ x.mode \in Modes
    BY <1>1, HeldFields DEF Amounts
  <1> DEFINE w == Want(x, bits)
  <1>3. /\ w \in Nat
        /\ x.k + w * Byte >= bits
        /\ w # 0 => x.k + w * Byte < bits + Byte
        /\ \A c \in Nat : c < w => x.k + c * Byte < bits
    BY <1>2, WantFacts
  <1>4. \A c \in Nat : c * Byte \in Nat
    BY Sizes
  <1>5. x.mode # "LENS" => x.k < LitBits + Byte
    BY <1>1 DEF Amounts
  <1>6. x.mode = "LENS" /\ Ahead(x).is = "lens" =>
          x.k % Byte = 0 /\ x.k <= bits /\ bits % Byte = 0 /\ Ahead(x).bits = bits
    BY <1>1 DEF Amounts
  <1>7. x.k % Byte = 0 => \A c \in Nat : (x.k + c * Byte) % Byte = 0
    BY <1>2, Sizes, ModAdd
  <1> HIDE DEF w
  <1>8. ASSUME w <= x.n PROVE /\ Kept(Load(x, bits), g) /\ Load(x, bits).k >= bits
                              /\ x.mode = "LENS" /\ Ahead(x).is = "lens" => Load(x, bits).k = bits
    <2>1. Load(x, bits) = Fetch(x, w)
      BY DEF Load, w
    <2>2. x.mode # "LENS" => x.k + w * Byte < LitBits + Byte
      <3> DEFINE e == w * Byte
      <3>1. e \in Nat /\ (w # 0 => x.k + e < bits + Byte) /\ (w = 0 => e = 0)
        BY <1>3, <1>4, Sizes
      <3> HIDE DEF e
      <3>2. x.mode # "LENS" => x.k + e < LitBits + Byte
        BY <1>2, <1>5, <3>1, Sizes
      <3>3. QED BY <3>2 DEF e
    <2>3. ASSUME x.mode = "LENS", Ahead(x).is = "lens"
          PROVE  (x.k + w * Byte) % Byte = 0 /\ x.k + w * Byte = bits
      <3>1. (x.k + w * Byte) % Byte = 0
        BY <1>3, <1>6, <1>7, <2>3
      <3> DEFINE e == x.k + w * Byte
      <3>2. e \in Nat /\ e % Byte = 0 /\ bits % Byte = 0 /\ e >= bits /\ (w = 0 => e = x.k)
            /\ (w # 0 => e < bits + Byte)
        <4>1. e \in Nat /\ e >= bits /\ (w # 0 => e < bits + Byte)
          BY <1>2, <1>3, <1>4
        <4>2. w = 0 => e = x.k
          BY <1>2, Sizes
        <4>3. QED BY <1>6, <2>3, <3>1, <4>1, <4>2
      <3> HIDE DEF e
      <3>3. w # 0 => e = bits
        BY <3>2, Sizes, Multiples
      <3>4. w = 0 => e = bits
        BY <1>2, <1>6, <2>3, <3>2
      <3>5. QED BY <3>1, <3>3, <3>4 DEF e
    <2>4. Fetch(x, w).k = x.k + w * Byte
      BY <1>1, <1>3, FetchFields
    <2>5. Kept(Fetch(x, w), g)
      BY <1>3, <1>6, <1>8, <2>2, <2>3, FetchKept
    <2>6. QED BY <1>3, <2>1, <2>3, <2>4, <2>5
  <1>9. ASSUME w > x.n PROVE Kept(Fetch(x, x.n), g) /\ Fetch(x, x.n).n = 0
    <2>1. x.k + x.n * Byte < bits
      BY <1>2, <1>3, <1>9
    <2>2. x.mode # "LENS" => x.k + x.n * Byte < LitBits + Byte
      <3> DEFINE e == x.n * Byte
      <3>1. e \in Nat /\ x.k + e < bits
        BY <1>2, <1>4, <2>1
      <3> HIDE DEF e
      <3>2. x.mode # "LENS" => x.k + e < LitBits + Byte
        BY <1>2, <3>1, Sizes
      <3>3. QED BY <3>2 DEF e
    <2>3. x.mode = "LENS" /\ Ahead(x).is = "lens" =>
            (x.k + x.n * Byte) % Byte = 0 /\ x.k + x.n * Byte <= bits
      <3>1. x.k % Byte = 0 => (x.k + x.n * Byte) % Byte = 0
        BY <1>2, <1>7
      <3> DEFINE e == x.k + x.n * Byte
      <3>2. e \in Nat /\ e < bits
        BY <1>2, <1>4, <2>1
      <3> HIDE DEF e
      <3>3. e <= bits
        BY <3>2
      <3>4. QED BY <1>6, <3>1, <3>3 DEF e
    <2>4. Kept(Fetch(x, x.n), g)
      BY <1>2, <1>6, <2>2, <2>3, FetchKept
    <2>5. Fetch(x, x.n).n = x.n - x.n
      BY <1>1, <1>2, FetchFields
    <2>6. QED BY <1>2, <2>4, <2>5
  <1>10. QED BY <1>2, <1>3, <1>8, <1>9 DEF w

\* The next field is decoded, with b bits out of the bit buffer.
LEMMA Advance ==
  ASSUME s \in Streams, NEW g, NEW x, Kept(x, g), Live(x),
         DueAt(x).what \notin {"end", "nothing"}, Ahead(x).is # "stored",
         NEW b \in Nat, b <= x.k, Begun(x) + b = Ahead(x).bits + Ahead(x).extra,
         NEW y, Held(y), At1(x, y), y.i = x.i + 1, y.k = x.k - b,
         y.k < LitBits + Byte, y.mode = "STORED" => y.k = 0,
         y.mode \notin {"LENS", "LENEXT", "DISTEXT"}
  PROVE  /\ y.i <= Len(s) /\ Amounts(y, g)
         /\ DueAt(y) = After(DueAt(x), Ahead(x))
  <1>1. Held(x) /\ x.i <= Len(s) /\ Amounts(x, g)
    BY DEF Kept
  <1>2. /\ x.i + 1 <= Len(s) /\ Ahead(x) \in Fields
        /\ Dues[s][x.i + 2] = After(DueAt(x), Ahead(x))
        /\ At[s][x.i + 2] = NextBit(At[s][x.i + 1], Ahead(x))
    BY <1>1, FieldAhead
  <1>3. y.i + 1 = x.i + 2
    BY <1>1, HeldFields
  <1>4. At[s][y.i + 1] = At[s][x.i + 1] + Ahead(x).bits + Ahead(x).extra
    BY <1>2, <1>3 DEF NextBit
  <1>5. Pos(y) = Pos(x) + b
    <2> DEFINE a == (x.base + x.idx) * Byte
    <2>1. a \in Int /\ x.k \in Int
      BY <1>1, HeldFields, Sizes
    <2>2. Pos(y) = a - (x.k - b) /\ Pos(x) = a - x.k
      BY DEF Pos, At1
    <2> HIDE DEF a
    <2>3. QED BY <2>1, <2>2
  <1>6. Pos(y) = At[s][y.i + 1] + Begun(y)
    <2>1. Begun(y) = 0
      BY DEF Begun
    <2>2. Pos(x) = At[s][x.i + 1] + Begun(x)
      BY <1>1 DEF Amounts
    <2>3. /\ At[s][x.i + 1] \in Int /\ Ahead(x).bits \in Int /\ Ahead(x).extra \in Int
      BY <1>1, <1>2, Places DEF Fields
    <2>4. Begun(x) \in Int
      BY <2>3 DEF Begun
    <2>5. QED BY <1>4, <1>5, <2>1, <2>2, <2>3, <2>4
  <1>7. y.n >= 0 /\ y.k >= 0 /\ y.base + y.idx + y.n = g /\ y.k < LitBits + Byte
    <2>1. x.n >= 0 /\ x.k >= 0 /\ x.base + x.idx + x.n = g
      BY <1>1 DEF Amounts
    <2>2. QED BY <1>1, <2>1, HeldFields, Sizes DEF At1
  <1>8. Amounts(y, g)
    BY <1>6, <1>7 DEF Amounts
  <1>9. QED BY <1>1, <1>2, <1>3, <1>8 DEF DueAt

-----------------------------------------------------------------------------
(***************************************************************************)
(* Steps that leave input, window and output alone.                        *)
(***************************************************************************)
\* Steps that leave input, window and output alone.
Stepped(x, k, i, mode, left, dist, last) ==
  [x EXCEPT !.k = k, !.i = i, !.mode = mode, !.left = left, !.dist = dist, !.last = last]

Suits(k, i, mode, left, dist, last) ==
  /\ k \in Int /\ i \in Nat /\ mode \in Modes /\ left \in Nat /\ dist \in Nat
  /\ last \in BOOLEAN

\* y is what has become of x.
Became(x, y, k, i, mode, left, dist, last) ==
  /\ Held(y) /\ At1(x, y) /\ Rest(x, y)
  /\ y.k = k /\ y.i = i /\ y.mode = mode /\ y.left = left /\ y.dist = dist
  /\ y.last = last

LEMMA SetStepped ==
  ASSUME NEW x, Held(x), NEW k, NEW i, NEW mode, NEW left, NEW dist, NEW last,
         Suits(k, i, mode, left, dist, last)
  PROVE  Became(x, Stepped(x, k, i, mode, left, dist, last), k, i, mode, left, dist, last)
  <1>1. x \in Decoders /\ Len(x.out) <= BufSize
    BY DEF Held
  <1> DEFINE y == Stepped(x, k, i, mode, left, dist, last)
  <1>2. /\ y.k = k /\ y.i = i /\ y.mode = mode /\ y.left = left /\ y.dist = dist
        /\ y.last = last /\ y.base = x.base /\ y.idx = x.idx /\ y.n = x.n
        /\ y.win = x.win /\ y.read = x.read /\ y.write = x.write
        /\ y.out = x.out /\ y.r = x.r /\ y.n0 = x.n0 /\ y \in Decoders
    BY <1>1 DEF Stepped, Decoders, Suits
  <1>3. QED BY <1>1, <1>2 DEF At1, Rest, Held, Became

LEMMA ReadyIf ==
  ASSUME NEW g, NEW x, Ready(x, g), NEW y, Held(y), y.i <= Len(s), Rest(x, y),
         Live(y) => Place(y) /\ Amounts(y, g),
         y.mode \notin Fastest
  PROVE  Ready(y, g)
  BY DEF Ready, Kept, Quick, Rest, Fastest

LEMMA NeedReady ==
  ASSUME s \in Streams, NEW g, NEW x, Ready(x, g), Live(x), NEW bits \in Nat,
         x.mode # "STORED", x.mode \notin Fastest, x.mode # "LENS" => bits <= LitBits,
         x.mode = "LENS" /\ Ahead(x).is = "lens" =>
            Ahead(x).bits = bits /\ bits % Byte = 0
  PROVE  /\ Want(x, bits) <= x.n =>
              LET y == Load(x, bits) IN
              /\ Ready(y, g) /\ y.k >= bits
              /\ x.mode = "LENS" /\ Ahead(x).is = "lens" => y.k = bits
              /\ y.mode = x.mode /\ y.i = x.i /\ y.left = x.left /\ y.last = x.last
              /\ y.dist = x.dist
         /\ Want(x, bits) > x.n =>
              LET y == Fetch(x, x.n) IN
              Ready(y, g) /\ y.n = 0 /\ y.mode = x.mode
  <1>1. Kept(x, g) /\ Held(x) /\ (x.r = "BUF" => x.out = <<>>) /\ x.n \in Nat /\ x.k \in Nat
    BY HeldFields DEF Ready, Kept, Amounts
  <1>2. /\ Want(x, bits) <= x.n =>
              /\ Kept(Load(x, bits), g) /\ Load(x, bits).k >= bits
              /\ x.mode = "LENS" /\ Ahead(x).is = "lens" => Load(x, bits).k = bits
        /\ Want(x, bits) > x.n => Kept(Fetch(x, x.n), g) /\ Fetch(x, x.n).n = 0
    BY <1>1, Loaded
  <1>3. Want(x, bits) \in Nat
    BY <1>1, WantFacts
  <1>4. ASSUME NEW c \in Nat, Kept(Fetch(x, c), g)
        PROVE  LET y == Fetch(x, c) IN
               /\ Ready(y, g) /\ y.mode = x.mode /\ y.i = x.i /\ y.left = x.left
               /\ y.last = x.last /\ y.dist = x.dist
    <2> DEFINE y == Fetch(x, c)
    <2>1. /\ y.mode = x.mode /\ y.i = x.i /\ y.left = x.left /\ y.last = x.last
          /\ y.dist = x.dist /\ y.out = x.out
          /\ y.r = (IF c = 0 THEN x.r ELSE "OK")
      BY <1>1, FetchFields
    <2> HIDE DEF y
    <2>2. Ready(y, g)
      BY <1>1, <1>4, <2>1 DEF Ready, Quick, Fastest, y
    <2>3. QED BY <2>1, <2>2 DEF y
  <1>5. QED BY <1>1, <1>2, <1>3, <1>4 DEF Load

LEMMA FailReady ==
  ASSUME NEW g, NEW x, Held(x), x.i <= Len(s)
  PROVE  LET y == [x EXCEPT !.r = "DATA", !.mode = "BAD"] IN
         Ready(y, g) /\ y.mode = "BAD" /\ y.r = "DATA"
  <1> DEFINE y == [x EXCEPT !.r = "DATA", !.mode = "BAD"]
  <1>1. y \in Decoders /\ y.mode = "BAD" /\ y.r = "DATA" /\ y.out = x.out /\ y.i = x.i
    BY DEF Held, Decoders, Modes
  <1>2. Held(y)
    BY <1>1 DEF Held
  <1>3. QED BY <1>1, <1>2 DEF Ready, Kept, Live

\* The rest of the next field is taken out of the bit buffer.
Takes(x, b) ==
  /\ DueAt(x).what \notin {"end", "nothing"} /\ Ahead(x).is # "stored"
  /\ b \in Nat /\ b <= x.k /\ Begun(x) + b = Ahead(x).bits + Ahead(x).extra

Plain(mode) == mode \notin {"LENS", "STORED", "LENEXT", "DISTEXT"} \union Fastest

\* The field is decoded, and y comes of it.
Decodes(x, y, g, mode, left, dist, last) ==
  /\ Place(y) => Ready(y, g)
  /\ DueAt(y) = After(DueAt(x), Ahead(x))
  /\ y.i = x.i + 1 /\ y.mode = mode /\ y.left = left /\ y.dist = dist /\ y.last = last

LEMMA DropStep ==
  ASSUME s \in Streams, NEW g, NEW x, Ready(x, g), Live(x), x.mode # "LENS",
         NEW b, Takes(x, b), NEW mode, NEW left, NEW dist, NEW last,
         Suits(x.k - b, x.i + 1, mode, left, dist, last), Plain(mode)
  PROVE  Decodes(x, Stepped(x, x.k - b, x.i + 1, mode, left, dist, last), g,
                 mode, left, dist, last)
  <1> DEFINE y == Stepped(x, x.k - b, x.i + 1, mode, left, dist, last)
  <1>1. Held(x) /\ Kept(x, g)
    BY DEF Ready, Kept
  <1>2. Became(x, y, x.k - b, x.i + 1, mode, left, dist, last)
    BY <1>1, SetStepped
  <1> HIDE DEF y
  <1>3. /\ Held(y) /\ At1(x, y) /\ Rest(x, y)
        /\ y.k = x.k - b /\ y.i = x.i + 1 /\ y.mode = mode /\ y.left = left
        /\ y.dist = dist /\ y.last = last
    BY <1>2 DEF Became
  <1>4. /\ y.i <= Len(s) /\ Amounts(y, g)
        /\ DueAt(y) = After(DueAt(x), Ahead(x))
    <2>1. x.k < LitBits + Byte /\ x.k \in Int /\ LitBits + Byte \in Int
      BY <1>1, HeldFields, Sizes DEF Kept, Amounts
    <2>2. y.k < LitBits + Byte
      BY <1>3, <2>1 DEF Takes
    <2>3. y.mode # "STORED" /\ y.mode \notin {"LENS", "LENEXT", "DISTEXT"}
      BY <1>3 DEF Plain
    <2>4. QED BY <1>1, <1>3, <2>2, <2>3, Advance DEF Takes
  <1>5. Place(y) => Ready(y, g)
    BY <1>3, <1>4, ReadyIf DEF Plain
  <1>6. Decodes(x, y, g, mode, left, dist, last)
    BY <1>3, <1>4, <1>5 DEF Decodes
  <1>7. QED BY <1>6 DEF y

\* Nothing is taken or decoded.
LEMMA Recast ==
  ASSUME NEW g, NEW x, Kept(x, g), Live(x), NEW y, Held(y), At1(x, y),
         y.i = x.i, y.k = x.k,
         x.mode \notin {"LENS", "LENEXT", "DISTEXT"},
         y.mode \notin {"LENS", "LENEXT", "DISTEXT", "STORED"} \/ y.mode = x.mode
  PROVE  y.i <= Len(s) /\ Amounts(y, g) /\ DueAt(y) = DueAt(x)
  <1>1. Held(x) /\ x.i <= Len(s) /\ Amounts(x, g)
    BY DEF Kept
  <1>2. Pos(y) = Pos(x) /\ Begun(y) = 0 /\ Begun(x) = 0
    BY DEF Pos, At1, Begun
  <1>3. QED BY <1>1, <1>2 DEF Amounts, At1, DueAt

\* What is known before a field is decoded.
LEMMA FacingKept ==
  ASSUME s \in Streams, NEW g, NEW x, Kept(x, g), Live(x),
         DueAt(x).what \notin {"end", "nothing"}
  PROVE  /\ Held(x) /\ Place(x) /\ Amounts(x, g) /\ x.i + 1 <= Len(s)
         /\ DueAt(x) \in States /\ Ahead(x) \in Fields
         /\ Fits(DueAt(x), Ahead(x), Out[s][x.i + 1])
         /\ Ahead(x).bits \in Nat /\ Ahead(x).look \in Nat /\ Ahead(x).extra \in Nat
         /\ Ahead(x).val \in Nat
         /\ x.k \in Nat /\ x.n \in Nat
  <1>1. Held(x) /\ Place(x) /\ Amounts(x, g) /\ x.i <= Len(s)
    BY DEF Kept
  <1>2. /\ DueAt(x) \in States /\ Ahead(x) \in Fields /\ x.i + 1 <= Len(s)
        /\ Fits(DueAt(x), Ahead(x), Out[s][x.i + 1])
    BY <1>1, Places, FieldAhead
  <1>3. x.k \in Nat /\ x.n \in Nat
    BY <1>1, HeldFields DEF Amounts
  <1>4. QED BY <1>1, <1>2, <1>3 DEF Fields

LEMMA Facing ==
  ASSUME s \in Streams, NEW g, NEW x, Ready(x, g), Live(x),
         DueAt(x).what \notin {"end", "nothing"}
  PROVE  /\ Held(x) /\ Kept(x, g) /\ Place(x) /\ Amounts(x, g) /\ x.i + 1 <= Len(s)
         /\ DueAt(x) \in States /\ Ahead(x) \in Fields
         /\ Fits(DueAt(x), Ahead(x), Out[s][x.i + 1])
         /\ Ahead(x).bits \in Nat /\ Ahead(x).look \in Nat /\ Ahead(x).extra \in Nat
         /\ Ahead(x).val \in Nat
         /\ x.k \in Nat /\ x.n \in Nat
  <1>1. Kept(x, g)
    BY DEF Ready
  <1>2. QED BY <1>1, FacingKept

-----------------------------------------------------------------------------
(***************************************************************************)
(* The modes of the blocks and the codes.                                  *)
(***************************************************************************)
\* What After says of each kind of field.
LEMMA AfterIs ==
  ASSUME NEW d \in States, NEW f \in Fields, d.what # "nothing"
  PROVE  /\ f.is = "stored"  => After(d, f) = Due("lens", 0, f.val = 1)
         /\ f.is = "fixed"   => After(d, f) = Due("code", 0, f.val = 1)
         /\ f.is = "dynamic" => After(d, f) = Due("table", 0, f.val = 1)
         /\ f.is = "lens"    => After(d, f) = IF f.val > 0 THEN Due("byte", f.val, d.last)
                                                          ELSE EndOfBlock(d.last)
         /\ f.is = "byte"    => After(d, f) = IF d.left - 1 > 0 THEN Due("byte", d.left - 1, d.last)
                                                               ELSE EndOfBlock(d.last)
         /\ f.is = "table"   => After(d, f) = IF f.val > 0 THEN Due("tree", f.val, d.last)
                                                          ELSE Due("code", 0, d.last)
         /\ f.is = "tree"    => After(d, f) = IF d.left - 1 > 0 THEN Due("tree", d.left - 1, d.last)
                                                               ELSE Due("code", 0, d.last)
         /\ f.is = "len"     => After(d, f) = Due("dist", 0, d.last)
         /\ f.is = "lit"     => After(d, f) = Due("code", 0, d.last)
         /\ f.is = "dist"    => After(d, f) = Due("code", 0, d.last)
         /\ f.is = "eob"     => After(d, f) = EndOfBlock(d.last)
         /\ f.is \in {"lens", "byte"} => f.is # "eob"
  BY DEF After, Bad

LEMMA DueFields ==
  \A what, left, last : LET d == Due(what, left, last) IN
                        d.what = what /\ d.left = left /\ d.last = last
  BY DEF Due

LEMMA FieldFacts ==
  ASSUME NEW f \in Fields
  PROVE  f.bits \in Nat /\ f.look \in Nat /\ f.extra \in Nat /\ f.val \in Nat
         /\ (f.val = 1) \in BOOLEAN
  BY DEF Fields

\* The head of a block.
LEMMA HeadFits ==
  ASSUME NEW d \in States, NEW f \in Fields, NEW o, Fits(d, f, o), d.what = "block"
  PROVE  /\ f.look <= LitBits /\ f.bits <= f.look
         /\ f.is \in {"stored", "fixed", "dynamic"} => f.extra = 0
         /\ f.is \notin {"stored", "fixed", "dynamic"} => Bad(f)
  BY DEF Fits, Bad

LEMMA TypeFixed ==
  ASSUME s \in Streams, NEW g, NEW x, Ready(x, g), x.mode = "TYPE",
         Ahead(x).look <= x.k
  PROVE  LET f == Ahead(x)
             y == [Drop(x, f.bits) EXCEPT !.last = f.val = 1]
         IN  /\ f.is = "fixed"   => Ready(Done(y, "START"), g) /\ Done(y, "START").mode = "START"
             /\ f.is = "dynamic" => Ready(Done(y, "TABLE"), g) /\ Done(y, "TABLE").mode = "TABLE"
             /\ f.is \notin {"stored", "fixed", "dynamic"} => Ready([y EXCEPT !.r = "DATA", !.mode = "BAD"], g)
  <1> DEFINE f == Ahead(x)
             y == [Drop(x, f.bits) EXCEPT !.last = f.val = 1]
  <1>1. Held(x) /\ Kept(x, g) /\ Live(x) /\ Place(x) /\ x.i <= Len(s)
    BY DEF Ready, Kept, Live
  <1>2. DueAt(x).what = "block" /\ DueAt(x) \in States
    BY <1>1, Places DEF Place
  <1>3. f \in Fields /\ Fits(DueAt(x), f, Out[s][x.i + 1]) /\ x.i + 1 <= Len(s)
    BY <1>1, <1>2, FieldAhead
  <1>4. /\ f.bits <= x.k /\ f.bits \in Nat /\ f.look \in Nat /\ f.extra \in Nat
        /\ (f.val = 1) \in BOOLEAN
        /\ f.is \in {"stored", "fixed", "dynamic"} => f.extra = 0
    BY <1>1, <1>2, <1>3, HeadFits, FieldFacts, HeldFields
  <1>5. Begun(x) = 0
    BY DEF Begun
  <1>l. PICK l \in BOOLEAN : l = (f.val = 1)
    BY <1>4
  <1>6. ASSUME NEW mode \in {"START", "TABLE"}, f.is = (IF mode = "START" THEN "fixed" ELSE "dynamic")
        PROVE  Ready(Done(y, mode), g) /\ Done(y, mode).mode = mode
    <2> DEFINE v == Stepped(x, x.k - f.bits, x.i + 1, mode, x.left, x.dist, l)
    <2>1. Done(y, mode) = v
      BY <1>1, <1>l DEF Held, Decoders, Done, Drop, Stepped
    <2>2. /\ Plain(mode) /\ Takes(x, f.bits)
          /\ Suits(x.k - f.bits, x.i + 1, mode, x.left, x.dist, l)
      BY <1>1, <1>2, <1>4, <1>5, <1>6, HeldFields DEF Plain, Takes, Suits, Modes, Fastest
    <2>a. x.mode # "LENS"
      OBVIOUS
    <2>b. Decodes(x, v, g, mode, x.left, x.dist, l)
      BY <1>1, <2>2, <2>a, DropStep
    <2> HIDE DEF v
    <2>3. /\ Place(v) => Ready(v, g)
          /\ DueAt(v) = After(DueAt(x), f)
          /\ v.mode = mode /\ v.last = l
      BY <2>b DEF Decodes
    <2>4. Place(v)
      BY <1>2, <1>3, <1>6, <1>l, <2>3, AfterIs, DueFields DEF Place
    <2>5. QED BY <2>1, <2>3, <2>4
  <1>7. ASSUME f.is \notin {"stored", "fixed", "dynamic"}
        PROVE  Ready([y EXCEPT !.r = "DATA", !.mode = "BAD"], g)
    <2>1. y = Stepped(x, x.k - f.bits, x.i, x.mode, x.left, x.dist, l)
      BY <1>1, <1>l DEF Held, Decoders, Drop, Stepped
    <2>2. Held(y) /\ y.i = x.i
      <3>1. Suits(x.k - f.bits, x.i, x.mode, x.left, x.dist, l)
        BY <1>1, <1>4, HeldFields DEF Suits
      <3>2. Became(x, y, x.k - f.bits, x.i, x.mode, x.left, x.dist, l)
        BY <1>1, <2>1, <3>1, SetStepped
      <3>3. QED BY <3>2 DEF Became
    <2>3. QED BY <1>1, <2>2, FailReady
  <1>8. QED BY <1>6, <1>7

\* What the format says of the field, by what is due.
LEMMA FitsIs ==
  ASSUME NEW d \in States, NEW f \in Fields, NEW o, Fits(d, f, o), d.what # "nothing"
  PROVE  /\ f.bits <= f.look
         /\ f.is \notin {"len", "dist", "bad"} => f.extra = 0
         /\ d.what \notin {"lens", "byte"} /\ f.is \notin {"lens", "byte"} => f.look <= LitBits
         /\ d.what = "lens" => \/ Bad(f)
                               \/ /\ f.is = "lens" /\ f.look = f.bits /\ f.bits % Byte = 0
                                  /\ f.bits >= LitBits + Byte - 1
         /\ d.what = "byte"  => f.is = "byte" /\ f.bits = Byte /\ f.extra = 0
         /\ d.what = "table" => Bad(f) \/ f.is = "table"
         /\ d.what = "tree"  => Bad(f) \/ f.is = "tree"
         /\ d.what = "code"  => \/ Bad(f)
                                \/ /\ f.is \in {"lit", "len", "eob"}
                                   /\ f.bits + f.extra <= LitBits
                                   /\ (f.is = "len" => f.val \in 2 .. MaxLen)
         /\ d.what = "dist"  => \/ Bad(f)
                                \/ /\ f.is = "dist" /\ f.bits <= DistBits
                                   /\ f.extra <= LitBits
                                   /\ f.val \in 1 .. End /\ f.val <= Len(o)
                                   /\ InBytes(LitBits) + InBytes(DistBits)
                                        + InBytes(f.extra) <= FastIn
  <1>1. f.bits \in Nat /\ f.look \in Nat /\ DistBits \in Nat
    BY FieldFacts, Sizes
  <1>2. f.bits <= f.look /\ f.look <= DistBits => f.bits <= DistBits
    BY <1>1
  <1>3. QED BY <1>2 DEF Fits, Bad

LEMMA TableSteps ==
  ASSUME s \in Streams, NEW g, NEW x, Ready(x, g), x.mode = "TABLE", ~ Bad(Ahead(x)),
         Ahead(x).look <= x.k
  PROVE  LET y == Done([Drop(x, Ahead(x).bits) EXCEPT !.left = Ahead(x).val], "TREES") IN
         Ready(y, g) /\ y.mode = "TREES"
  <1> DEFINE f == Ahead(x)
             y == Done([Drop(x, f.bits) EXCEPT !.left = f.val], "TREES")
             v == Stepped(x, x.k - f.bits, x.i + 1, "TREES", f.val, x.dist, x.last)
  <1>1. DueAt(x).what = "table" /\ Live(x)
    BY DEF Ready, Kept, Live, Place
  <1>2. /\ Held(x) /\ Kept(x, g) /\ Place(x) /\ Amounts(x, g) /\ x.i + 1 <= Len(s)
        /\ DueAt(x) \in States /\ f \in Fields /\ Fits(DueAt(x), f, Out[s][x.i + 1])
        /\ f.bits \in Nat /\ f.look \in Nat /\ f.extra \in Nat /\ f.val \in Nat
        /\ x.k \in Nat
    BY <1>1, Facing
  <1>3. f.is = "table" /\ f.bits <= f.look /\ f.extra = 0
    BY <1>1, <1>2, FitsIs
  <1>4. y = v
    BY <1>2 DEF Held, Decoders, Done, Drop, Stepped
  <1>5. /\ Plain("TREES") /\ Takes(x, f.bits) /\ x.mode # "LENS"
        /\ Suits(x.k - f.bits, x.i + 1, "TREES", f.val, x.dist, x.last)
    BY <1>1, <1>2, <1>3, HeldFields DEF Plain, Takes, Suits, Modes, Fastest, Begun
  <1>6. Decodes(x, v, g, "TREES", f.val, x.dist, x.last)
    BY <1>1, <1>5, DropStep
  <1> HIDE DEF v
  <1>7. DueAt(v) = IF f.val > 0 THEN Due("tree", f.val, DueAt(x).last)
                                ELSE Due("code", 0, DueAt(x).last)
    BY <1>1, <1>2, <1>3, <1>6, AfterIs DEF Decodes
  <1>8. Place(v)
    BY <1>2, <1>6, <1>7, DueFields DEF Place, Decodes
  <1>9. QED BY <1>4, <1>6, <1>8 DEF Decodes

LEMMA TreesSteps ==
  ASSUME s \in Streams, NEW g, NEW x, Ready(x, g), x.mode = "TREES", x.left # 0,
         ~ Bad(Ahead(x)), Ahead(x).look <= x.k
  PROVE  LET y == Done([Drop(x, Ahead(x).bits) EXCEPT !.left = @ - 1], "TREES") IN
         Ready(y, g) /\ y.mode = "TREES"
  <1> DEFINE f == Ahead(x)
             y == Done([Drop(x, f.bits) EXCEPT !.left = @ - 1], "TREES")
             v == Stepped(x, x.k - f.bits, x.i + 1, "TREES", x.left - 1, x.dist, x.last)
  <1>1. DueAt(x).what = "tree" /\ DueAt(x).left = x.left /\ Live(x)
    BY DEF Ready, Kept, Live, Place
  <1>2. /\ Held(x) /\ Kept(x, g) /\ Place(x) /\ Amounts(x, g) /\ x.i + 1 <= Len(s)
        /\ DueAt(x) \in States /\ f \in Fields /\ Fits(DueAt(x), f, Out[s][x.i + 1])
        /\ f.bits \in Nat /\ f.look \in Nat /\ f.extra \in Nat /\ f.val \in Nat
        /\ x.k \in Nat
    BY <1>1, Facing
  <1>3. f.is = "tree" /\ f.bits <= f.look /\ f.extra = 0
    BY <1>1, <1>2, FitsIs
  <1>4. y = v
    BY <1>2 DEF Held, Decoders, Done, Drop, Stepped
  <1>5. /\ Plain("TREES") /\ Takes(x, f.bits) /\ x.mode # "LENS"
        /\ Suits(x.k - f.bits, x.i + 1, "TREES", x.left - 1, x.dist, x.last)
    BY <1>1, <1>2, <1>3, HeldFields, SMTT(30) DEF Plain, Takes, Suits, Modes, Fastest, Begun
  <1>6. Decodes(x, v, g, "TREES", x.left - 1, x.dist, x.last)
    BY <1>1, <1>5, DropStep
  <1> HIDE DEF v
  <1>7. DueAt(v) = IF x.left - 1 > 0 THEN Due("tree", x.left - 1, DueAt(x).last)
                                     ELSE Due("code", 0, DueAt(x).last)
    BY <1>1, <1>2, <1>3, <1>6, AfterIs DEF Decodes
  <1>8. Place(v)
    <2>1. x.left \in Nat /\ x.left # 0 /\ DueAt(x).last = x.last
      BY <1>2, HeldFields DEF Place
    <2>2. v.mode = "TREES" /\ v.left = x.left - 1 /\ v.last = x.last
      BY <1>6 DEF Decodes
    <2>3. CASE x.left - 1 > 0
      <3>1. DueAt(v) = Due("tree", x.left - 1, x.last)
        BY <1>7, <2>1, <2>3
      <3>2. QED BY <2>2, <2>3, <3>1, DueFields DEF Place
    <2>4. CASE ~ (x.left - 1 > 0)
      <3>1. DueAt(v) = Due("code", 0, x.last) /\ v.left = 0
        BY <1>7, <2>1, <2>2, <2>4
      <3>2. DueAt(v).what = "code" /\ DueAt(v).last = x.last
        BY <3>1, DueFields
      <3>3. QED BY <2>2, <3>1, <3>2 DEF Place
    <2>5. QED BY <2>3, <2>4
  <1>9. QED BY <1>4, <1>6, <1>8 DEF Decodes

LEMMA LenSteps ==
  ASSUME s \in Streams, NEW g, NEW x, Ready(x, g), x.mode = "LEN",
         Ahead(x).look <= x.k
  PROVE  LET y == Drop(x, Ahead(x).bits)
             f == Ahead(x)
         IN  /\ f.is = "lit" => Ready(Done(y, "LIT"), g) /\ Done(y, "LIT").mode = "LIT"
             /\ f.is = "eob" => Ready(Done(y, "WASH"), g) /\ Done(y, "WASH").mode = "WASH"
  <1> DEFINE f == Ahead(x)
             y == Drop(x, f.bits)
  <1>1. DueAt(x).what = "code" /\ Live(x)
    BY DEF Ready, Kept, Live, Place
  <1>2. /\ Held(x) /\ Kept(x, g) /\ Place(x) /\ Amounts(x, g) /\ x.i + 1 <= Len(s)
        /\ DueAt(x) \in States /\ f \in Fields /\ Fits(DueAt(x), f, Out[s][x.i + 1])
        /\ f.bits \in Nat /\ f.look \in Nat /\ f.extra \in Nat /\ f.val \in Nat
        /\ x.k \in Nat
    BY <1>1, Facing
  <1>3. f.bits <= f.look /\ (f.is \in {"lit", "eob"} => f.extra = 0)
    BY <1>1, <1>2, FitsIs
  <1>4. ASSUME NEW mode \in {"LIT", "WASH"}, f.is = (IF mode = "LIT" THEN "lit" ELSE "eob")
        PROVE  Ready(Done(y, mode), g) /\ Done(y, mode).mode = mode
    <2> DEFINE v == Stepped(x, x.k - f.bits, x.i + 1, mode, x.left, x.dist, x.last)
    <2>4. Done(y, mode) = v
      BY <1>2 DEF Held, Decoders, Done, Drop, Stepped
    <2>5. /\ Plain(mode) /\ Takes(x, f.bits) /\ x.mode # "LENS"
          /\ Suits(x.k - f.bits, x.i + 1, mode, x.left, x.dist, x.last)
      BY <1>1, <1>2, <1>3, <1>4, HeldFields, SMTT(30) DEF Plain, Takes, Suits, Modes, Fastest, Begun
    <2>6. Decodes(x, v, g, mode, x.left, x.dist, x.last)
      BY <1>1, <2>5, DropStep
    <2> HIDE DEF v
    <2>7. DueAt(v) = IF mode = "LIT" THEN Due("code", 0, DueAt(x).last)
                                     ELSE EndOfBlock(DueAt(x).last)
      BY <1>1, <1>2, <1>4, <2>6, AfterIs DEF Decodes
    <2>8. Place(v)
      BY <1>2, <1>4, <2>6, <2>7, HeldFields, DueFields DEF Place, Decodes, EndOfBlock
    <2>9. QED BY <2>4, <2>6, <2>8 DEF Decodes
  <1>5. QED BY <1>4

LEMMA LenExtSteps ==
  ASSUME s \in Streams, NEW g, NEW x, Ready(x, g), x.mode = "LENEXT",
         Ahead(x).extra <= x.k
  PROVE  LET y == Done([Drop(x, Ahead(x).extra) EXCEPT !.left = Ahead(x).val], "DIST") IN
         Ready(y, g) /\ y.mode = "DIST"
  <1> DEFINE f == Ahead(x)
             y == Done([Drop(x, f.extra) EXCEPT !.left = f.val], "DIST")
             v == Stepped(x, x.k - f.extra, x.i + 1, "DIST", f.val, x.dist, x.last)
  <1>1. DueAt(x).what = "code" /\ Live(x) /\ f.is = "len"
    BY DEF Ready, Kept, Live, Place
  <1>2. /\ Held(x) /\ Kept(x, g) /\ Place(x) /\ Amounts(x, g) /\ x.i + 1 <= Len(s)
        /\ DueAt(x) \in States /\ f \in Fields /\ Fits(DueAt(x), f, Out[s][x.i + 1])
        /\ f.bits \in Nat /\ f.look \in Nat /\ f.extra \in Nat /\ f.val \in Nat
        /\ x.k \in Nat
    BY <1>1, Facing
  <1>3. f.val \in 2 .. MaxLen
    BY <1>1, <1>2, FitsIs DEF Bad
  <1>4. y = v
    BY <1>2 DEF Held, Decoders, Done, Drop, Stepped
  <1>5. /\ Plain("DIST") /\ Takes(x, f.extra) /\ x.mode # "LENS"
        /\ Suits(x.k - f.extra, x.i + 1, "DIST", f.val, x.dist, x.last)
    BY <1>1, <1>2, <1>3, HeldFields DEF Plain, Takes, Suits, Modes, Fastest, Begun
  <1>6. Decodes(x, v, g, "DIST", f.val, x.dist, x.last)
    BY <1>1, <1>5, DropStep
  <1> HIDE DEF v
  <1>7. DueAt(v) = Due("dist", 0, DueAt(x).last)
    BY <1>1, <1>2, <1>3, <1>6, AfterIs DEF Decodes
  <1>8. Place(v)
    BY <1>2, <1>3, <1>6, <1>7, DueFields DEF Place, Decodes
  <1>9. QED BY <1>4, <1>6, <1>8 DEF Decodes

LEMMA DistExtSteps ==
  ASSUME s \in Streams, NEW g, NEW x, Ready(x, g), x.mode = "DISTEXT",
         Ahead(x).extra <= x.k
  PROVE  LET y == Done([Drop(x, Ahead(x).extra) EXCEPT !.dist = Ahead(x).val], "COPY") IN
         Ready(y, g) /\ y.mode = "COPY"
  <1> DEFINE f == Ahead(x)
             y == Done([Drop(x, f.extra) EXCEPT !.dist = f.val], "COPY")
             v == Stepped(x, x.k - f.extra, x.i + 1, "COPY", x.left, f.val, x.last)
  <1>1. DueAt(x).what = "dist" /\ Live(x) /\ f.is = "dist"
    BY DEF Ready, Kept, Live, Place
  <1>2. /\ Held(x) /\ Kept(x, g) /\ Place(x) /\ Amounts(x, g) /\ x.i + 1 <= Len(s)
        /\ DueAt(x) \in States /\ f \in Fields /\ Fits(DueAt(x), f, Out[s][x.i + 1])
        /\ f.bits \in Nat /\ f.look \in Nat /\ f.extra \in Nat /\ f.val \in Nat
        /\ x.k \in Nat
    BY <1>1, Facing
  <1>3. f.val \in 1 .. End
    BY <1>1, <1>2, FitsIs DEF Bad
  <1>4. y = v
    BY <1>2 DEF Held, Decoders, Done, Drop, Stepped
  <1>5. /\ Plain("COPY") /\ Takes(x, f.extra) /\ x.mode # "LENS"
        /\ Suits(x.k - f.extra, x.i + 1, "COPY", x.left, f.val, x.last)
    BY <1>1, <1>2, <1>3, HeldFields DEF Plain, Takes, Suits, Modes, Fastest, Begun
  <1>6. Decodes(x, v, g, "COPY", x.left, f.val, x.last)
    BY <1>1, <1>5, DropStep
  <1> HIDE DEF v
  <1>7. DueAt(v) = Due("code", 0, DueAt(x).last)
    BY <1>1, <1>2, <1>3, <1>6, AfterIs DEF Decodes
  <1>8. Place(v)
    BY <1>2, <1>3, <1>6, <1>7, DueFields DEF Place, Decodes
  <1>9. QED BY <1>4, <1>6, <1>8 DEF Decodes

\* The code of a field is taken, its extra bits are still to come.
LEMMA HalfKept ==
  ASSUME s \in Streams, NEW g, NEW x, Kept(x, g), Live(x),
         x.mode \notin {"LENS", "LENEXT", "DISTEXT"},
         DueAt(x).what \notin {"end", "nothing"},
         Ahead(x).bits <= x.k, NEW mode \in {"LENEXT", "DISTEXT"},
         mode = "LENEXT" => DueAt(x).what = "code" /\ Ahead(x).is = "len",
         mode = "DISTEXT" => DueAt(x).what = "dist" /\ Ahead(x).is = "dist"
                                /\ x.left \in 2 .. MaxLen
  PROVE  LET y == [Drop(x, Ahead(x).bits) EXCEPT !.mode = mode] IN
         /\ Kept(y, g) /\ Held(y) /\ At1(x, y) /\ Rest(x, y)
         /\ y.k = x.k - Ahead(x).bits /\ y.i = x.i /\ y.mode = mode /\ y.left = x.left
         /\ y.last = x.last /\ y.dist = x.dist
  <1> DEFINE f == Ahead(x)
             y == [Drop(x, f.bits) EXCEPT !.mode = mode]
             v == Stepped(x, x.k - f.bits, x.i, mode, x.left, x.dist, x.last)
  <1>1. /\ Held(x) /\ Kept(x, g) /\ Place(x) /\ Amounts(x, g) /\ x.i + 1 <= Len(s)
        /\ f.bits \in Nat /\ x.k \in Nat
    BY FacingKept
  <1>2. y = v
    BY <1>1 DEF Held, Decoders, Drop, Stepped
  <1>3. Suits(x.k - f.bits, x.i, mode, x.left, x.dist, x.last)
    BY <1>1, HeldFields DEF Suits, Modes
  <1>4. Became(x, v, x.k - f.bits, x.i, mode, x.left, x.dist, x.last)
    BY <1>1, <1>3, SetStepped
  <1> HIDE DEF v
  <1>5. /\ Held(v) /\ v.base = x.base /\ v.idx = x.idx /\ v.n = x.n
        /\ v.k = x.k - f.bits /\ v.i = x.i /\ v.mode = mode /\ v.left = x.left
        /\ v.last = x.last /\ v.dist = x.dist /\ Rest(x, v) /\ At1(x, v)
    BY <1>4 DEF Became, At1
  <1>6. Place(v)
    BY <1>1, <1>5 DEF Place, DueAt, Ahead
  <1>7. Amounts(v, g)
    <2> DEFINE a == (x.base + x.idx) * Byte
    <2>1. a \in Int
      BY <1>1, HeldFields, Sizes
    <2>2. Pos(v) = a - (x.k - f.bits) /\ Pos(x) = a - x.k
      BY <1>5 DEF Pos
    <2> HIDE DEF a
    <2>3. Pos(v) = Pos(x) + f.bits /\ Pos(x) \in Int
      BY <1>1, <2>1, <2>2
    <2>4. Begun(v) = f.bits /\ Begun(x) = 0
      BY <1>5 DEF Begun, Ahead
    <2>5. Pos(x) = At[s][x.i + 1] /\ At[s][x.i + 1] \in Nat
      <3>1. At[s][x.i + 1] \in Nat /\ Pos(x) = At[s][x.i + 1] + Begun(x)
        BY <1>1, Places DEF Kept, Amounts
      <3>2. QED BY <3>1, <2>4
    <2>6. Pos(v) = At[s][v.i + 1] + Begun(v)
      BY <1>5, <2>3, <2>4, <2>5
    <2>7. v.k >= 0 /\ v.k < LitBits + Byte
      <3>1. x.k < LitBits + Byte
        BY <1>1 DEF Amounts
      <3>2. QED BY <1>1, <1>5, <3>1, Sizes
    <2>8. QED BY <1>1, <1>5, <2>6, <2>7 DEF Amounts
  <1>8. Kept(v, g)
    BY <1>1, <1>5, <1>6, <1>7 DEF Kept
  <1>9. QED BY <1>2, <1>5, <1>8

LEMMA HalfWay ==
  ASSUME s \in Streams, NEW g, NEW x, Ready(x, g), Live(x),
         x.mode \notin {"LENS", "LENEXT", "DISTEXT"},
         DueAt(x).what \notin {"end", "nothing"},
         Ahead(x).bits <= x.k, NEW mode \in {"LENEXT", "DISTEXT"},
         mode = "LENEXT" => DueAt(x).what = "code" /\ Ahead(x).is = "len",
         mode = "DISTEXT" => DueAt(x).what = "dist" /\ Ahead(x).is = "dist"
                                /\ x.left \in 2 .. MaxLen
  PROVE  LET y == [Drop(x, Ahead(x).bits) EXCEPT !.mode = mode] IN
         Ready(y, g) /\ y.mode = mode
  <1> DEFINE y == [Drop(x, Ahead(x).bits) EXCEPT !.mode = mode]
  <1>1. Kept(x, g)
    BY DEF Ready
  <1>2. Kept(y, g) /\ Rest(x, y) /\ y.mode = mode
    BY <1>1, HalfKept
  <1> HIDE DEF y
  <1>3. Ready(y, g)
    BY <1>2 DEF Ready, Quick, Rest
  <1>4. QED BY <1>2, <1>3 DEF y

\* The length of a stored block begins at a byte.
LEMMA UpIs ==
  ASSUME NEW p \in Nat, NEW a \in Int, NEW k \in Nat, p = a * Byte - k
  PROVE  Up(p) = a * Byte - (k - (k % Byte)) /\ k % Byte \in Nat /\ k % Byte <= k
         /\ (k - (k % Byte)) % Byte = 0
  <1>1. PICK q \in Nat, r \in Nat : k = q * Byte + r /\ r < Byte /\ r = k % Byte
    BY Sizes, Parts
  <1>2. (a - q) * Byte = a * Byte - q * Byte /\ a * Byte \in Int /\ q * Byte \in Nat
    BY Sizes
  <1>3. p = (a - q) * Byte - r
    BY <1>1, <1>2
  <1>4. a - q \in Nat
    <2>1. PICK c \in Int : c = a - q
      OBVIOUS
    <2>2. c * Byte \in Int /\ c * Byte = p + r
      BY <1>1, <1>2, <1>3, <2>1, Sizes
    <2>3. c * Byte >= 0
      BY <1>1, <2>2
    <2>4. c >= 0
      BY <2>1, <2>3, Sizes
    <2>5. QED BY <2>1, <2>4
  <1>5. PICK c \in Nat : c = a - q
    BY <1>4
  <1>6. InBytes(p) = c
    <2>1. p + Byte - 1 = c * Byte + (Byte - 1 - r)
      BY <1>1, <1>3, <1>5, Sizes
    <2>2. Byte - 1 - r \in Nat /\ Byte - 1 - r < Byte
      BY <1>1, Sizes
    <2>3. QED BY <2>1, <2>2, Sizes, DivIs DEF InBytes
  <1>7. Up(p) = a * Byte - q * Byte
    BY <1>2, <1>5, <1>6 DEF Up
  <1>8. k - (k % Byte) = q * Byte
    BY <1>1, <1>2
  <1>9. (q * Byte) % Byte = 0
    <2>1. (q * Byte + 0) % Byte = 0
      BY Sizes, ModIs
    <2>2. QED BY <1>2, <2>1
  <1>10. QED BY <1>1, <1>2, <1>7, <1>8, <1>9

LEMMA TypeStored ==
  ASSUME s \in Streams, NEW g, NEW x, Ready(x, g), x.mode = "TYPE",
         Ahead(x).look <= x.k, Ahead(x).is = "stored"
  PROVE  LET f == Ahead(x)
             w == [Drop(x, f.bits) EXCEPT !.last = f.val = 1]
             y == Done([w EXCEPT !.k = @ - (@ % Byte)], "LENS")
         IN  Ready(y, g) /\ y.mode = "LENS"
  <1> DEFINE f == Ahead(x)
             w == [Drop(x, f.bits) EXCEPT !.last = f.val = 1]
             y == Done([w EXCEPT !.k = @ - (@ % Byte)], "LENS")
             k == x.k - f.bits
  <1>1. DueAt(x).what = "block" /\ Live(x)
    BY DEF Ready, Kept, Live, Place
  <1>2. /\ Held(x) /\ Kept(x, g) /\ Place(x) /\ Amounts(x, g) /\ x.i + 1 <= Len(s)
        /\ DueAt(x) \in States /\ f \in Fields /\ Fits(DueAt(x), f, Out[s][x.i + 1])
        /\ f.bits \in Nat /\ f.look \in Nat /\ f.extra \in Nat /\ f.val \in Nat
        /\ x.k \in Nat
    BY <1>1, Facing
  <1>3. f.bits <= x.k /\ f.extra = 0 /\ k \in Nat /\ (f.val = 1) \in BOOLEAN
    BY <1>1, <1>2, HeadFits
  <1>4. PICK l \in BOOLEAN : l = (f.val = 1)
    BY <1>3
  <1> DEFINE v == Stepped(x, k - (k % Byte), x.i + 1, "LENS", x.left, x.dist, l)
  <1>5. y = v
    BY <1>2, <1>4 DEF Held, Decoders, Done, Drop, Stepped
  <1>6. /\ k % Byte \in Nat /\ k % Byte <= k /\ (k - (k % Byte)) % Byte = 0
        /\ Up(At[s][x.i + 1] + f.bits + f.extra) =
             (x.base + x.idx) * Byte - (k - (k % Byte))
    <2> DEFINE a == x.base + x.idx
               p == At[s][x.i + 1] + f.bits + f.extra
    <2>1. At[s][x.i + 1] \in Nat /\ a \in Int /\ Begun(x) = 0 /\ x.k \in Int
      BY <1>2, Places, HeldFields DEF Kept, Begun
    <2>2. a * Byte - x.k = At[s][x.i + 1]
      BY <1>2, <2>1 DEF Amounts, Pos
    <2>3. a * Byte \in Int
      BY <2>1, Sizes
    <2>4. p \in Nat /\ p = a * Byte - k
      BY <1>2, <1>3, <2>1, <2>2, <2>3, SMTT(30)
    <2> HIDE DEF a, p, k
    <2>5. /\ k % Byte \in Nat /\ k % Byte <= k /\ (k - (k % Byte)) % Byte = 0
          /\ Up(p) = a * Byte - (k - (k % Byte))
      BY <1>3, <2>1, <2>4, UpIs
    <2>6. QED BY <2>5 DEF a, p
  <1> HIDE DEF k
  <1> DEFINE c == k - (k % Byte)
  <1>7. c \in Nat /\ c <= k /\ c % Byte = 0
    BY <1>3, <1>6
  <1>8. Suits(c, x.i + 1, "LENS", x.left, x.dist, l)
    BY <1>2, <1>7, HeldFields DEF Suits, Modes
  <1>9. Became(x, v, c, x.i + 1, "LENS", x.left, x.dist, l)
    BY <1>2, <1>8, SetStepped
  <1> HIDE DEF v, c
  <1>10. /\ Held(v) /\ v.base = x.base /\ v.idx = x.idx /\ v.n = x.n
         /\ v.k = c /\ v.i = x.i + 1 /\ v.mode = "LENS" /\ v.left = x.left
         /\ v.last = l /\ Rest(x, v)
    BY <1>9 DEF Became, At1
  <1>11. v.i <= Len(s) /\ v.i + 1 = x.i + 2
    BY <1>2, <1>10, HeldFields
  <1>12. /\ Dues[s][x.i + 2] = After(DueAt(x), f)
         /\ At[s][x.i + 2] = NextBit(At[s][x.i + 1], f)
    BY <1>1, <1>2, FieldAhead DEF Kept
  <1>13. DueAt(v) = Due("lens", 0, l)
    BY <1>1, <1>2, <1>4, <1>11, <1>12, AfterIs DEF DueAt
  <1>14. Place(v)
    BY <1>10, <1>13, DueFields DEF Place
  <1>15. Amounts(v, g)
    <2>1. Pos(v) = At[s][v.i + 1] + Begun(v)
      <3>1. Begun(v) = 0
        BY <1>10 DEF Begun
      <3>2. Pos(v) = (x.base + x.idx) * Byte - c
        BY <1>10 DEF Pos
      <3>3. At[s][v.i + 1] = Pos(v)
        BY <1>6, <1>11, <1>12, <3>2 DEF NextBit, c
      <3>4. At[s][v.i + 1] \in Int
        BY <1>10, <1>11, Places
      <3>5. QED BY <3>1, <3>3, <3>4
    <2>2. c < LitBits + Byte
      <3>1. x.k < LitBits + Byte
        BY <1>2 DEF Amounts
      <3>2. k <= x.k
        BY <1>2, <1>3 DEF k
      <3>3. QED BY <1>2, <1>3, <1>7, <3>1, <3>2, Sizes
    <2>3. Ahead(v).is = "lens" => v.k % Byte = 0 /\ v.k <= Ahead(v).bits
      <3> SUFFICES ASSUME Ahead(v).is = "lens" PROVE v.k <= Ahead(v).bits
        BY <1>7, <1>10
      <3>1. DueAt(v).what = "lens"
        BY <1>13, DueFields
      <3>2. /\ DueAt(v) \in States /\ Ahead(v) \in Fields
            /\ Fits(DueAt(v), Ahead(v), Out[s][v.i + 1])
        BY <1>10, <1>11, <3>1, Places, FieldAhead
      <3>3. Ahead(v).bits >= LitBits + Byte - 1 /\ Ahead(v).bits \in Nat
        BY <3>1, <3>2, FitsIs, FieldFacts DEF Bad
      <3>4. QED BY <1>7, <1>10, <2>2, <3>3, Sizes
    <2>4. QED BY <1>2, <1>7, <1>10, <2>1, <2>3 DEF Amounts
  <1>16. Ready(v, g)
    BY <1>10, <1>11, <1>14, <1>15, ReadyIf DEF Fastest
  <1>17. QED BY <1>5, <1>10, <1>16 DEF c

LEMMA LensSteps ==
  ASSUME s \in Streams, NEW g, NEW x, Ready(x, g), x.mode = "LENS",
         ~ Bad(Ahead(x)), x.k = Ahead(x).bits
  PROVE  LET f == Ahead(x)
             y == Done([x EXCEPT !.k = 0, !.left = f.val],
                       IF f.val # 0 THEN "STORED" ELSE NextBlock(x))
         IN  Ready(y, g) /\ y.mode # "BAD"
  <1> DEFINE f == Ahead(x)
             mode == IF f.val # 0 THEN "STORED" ELSE NextBlock(x)
             y == Done([x EXCEPT !.k = 0, !.left = f.val], mode)
             v == Stepped(x, 0, x.i + 1, mode, f.val, x.dist, x.last)
  <1>1. DueAt(x).what = "lens" /\ Live(x)
    BY DEF Ready, Kept, Live, Place
  <1>2. /\ Held(x) /\ Kept(x, g) /\ Place(x) /\ Amounts(x, g) /\ x.i + 1 <= Len(s)
        /\ DueAt(x) \in States /\ f \in Fields /\ Fits(DueAt(x), f, Out[s][x.i + 1])
        /\ f.bits \in Nat /\ f.look \in Nat /\ f.extra \in Nat /\ f.val \in Nat
        /\ x.k \in Nat
    BY <1>1, Facing
  <1>3. f.is = "lens" /\ f.extra = 0
    BY <1>1, <1>2, FitsIs
  <1>4. y = v
    BY <1>2 DEF Held, Decoders, Done, Stepped
  <1>5. mode \in {"STORED", "DRY", "TYPE"} /\ mode \in Modes
    BY DEF NextBlock, Modes
  <1>6. f.val # 0 <=> mode = "STORED"
    BY DEF NextBlock
  <1>7. mode = "DRY" => x.last = TRUE
    BY DEF NextBlock
  <1>8. mode = "TYPE" => x.last # TRUE
    BY DEF NextBlock
  <1> HIDE DEF mode
  <1>9. Suits(0, x.i + 1, mode, f.val, x.dist, x.last)
    BY <1>2, <1>5, HeldFields DEF Suits
  <1>10. Became(x, v, 0, x.i + 1, mode, f.val, x.dist, x.last)
    BY <1>2, <1>9, SetStepped
  <1> HIDE DEF v
  <1>11. /\ Held(v) /\ At1(x, v) /\ Rest(x, v)
         /\ v.k = 0 /\ v.i = x.i + 1 /\ v.mode = mode /\ v.left = f.val
         /\ v.last = x.last
    BY <1>10 DEF Became
  <1>12. v.i <= Len(s) /\ Amounts(v, g) /\ DueAt(v) = After(DueAt(x), f)
    <2>1. Begun(x) + x.k = f.bits + f.extra
      BY <1>2, <1>3 DEF Begun
    <2>2. v.k = x.k - x.k /\ v.k < LitBits + Byte
      BY <1>2, <1>11, Sizes
    <2>3. DueAt(x).what \notin {"end", "nothing"} /\ f.is # "stored" /\ x.k <= x.k
      BY <1>1, <1>2, <1>3
    <2>4. v.mode \notin {"LENS", "LENEXT", "DISTEXT"}
      BY <1>5, <1>11
    <2>5. QED BY <1>1, <1>2, <1>11, <2>1, <2>2, <2>3, <2>4, Advance
  <1>13. DueAt(v) = IF f.val > 0 THEN Due("byte", f.val, DueAt(x).last)
                                 ELSE EndOfBlock(DueAt(x).last)
    BY <1>1, <1>2, <1>3, <1>12, AfterIs
  <1>14. x.last \in BOOLEAN /\ DueAt(x).last = x.last
    BY <1>2, HeldFields DEF Place
  <1>15. Place(v)
    <2>1. CASE mode = "STORED"
      <3>1. DueAt(v) = Due("byte", f.val, x.last)
        BY <1>2, <1>6, <1>13, <1>14, <2>1
      <3>2. QED BY <1>11, <2>1, <3>1, DueFields DEF Place
    <2>2. CASE mode # "STORED"
      <3>1. DueAt(v) = EndOfBlock(x.last)
        BY <1>2, <1>6, <1>13, <1>14, <2>2
      <3>2. DueAt(v).what = (IF x.last THEN "end" ELSE "block") /\ DueAt(v).last = x.last
        BY <3>1, DueFields DEF EndOfBlock
      <3>3. QED BY <1>5, <1>7, <1>8, <1>11, <1>14, <2>2, <3>2 DEF Place
    <2>3. QED BY <2>1, <2>2
  <1>16. Ready(v, g)
    <2>1. v.mode \notin Fastest
      BY <1>5, <1>11 DEF Fastest
    <2>2. QED BY <1>2, <1>11, <1>12, <1>15, <2>1, ReadyIf
  <1>17. QED BY <1>4, <1>5, <1>11, <1>16 DEF mode

\* Only the mode changes, and the next field is the same.
LEMMA ModeSteps ==
  ASSUME s \in Streams, NEW g, NEW x, Ready(x, g), Live(x),
         x.mode \notin {"LENS", "LENEXT", "DISTEXT"},
         NEW mode, mode \in {"START", "LEN"}, DueAt(x).what = "code",
         NEW y, y = [x EXCEPT !.mode = mode]
  PROVE  Ready(y, g) /\ y.mode = mode
  <1>1. Held(x) /\ Kept(x, g) /\ Place(x) /\ Amounts(x, g) /\ x.i <= Len(s)
    BY DEF Ready, Kept
  <1>2. y = Stepped(x, x.k, x.i, mode, x.left, x.dist, x.last)
    BY <1>1 DEF Held, Decoders, Stepped
  <1>3. Suits(x.k, x.i, mode, x.left, x.dist, x.last)
    BY <1>1, HeldFields DEF Suits, Modes
  <1>4. Became(x, y, x.k, x.i, mode, x.left, x.dist, x.last)
    BY <1>1, <1>2, <1>3, SetStepped
  <1>5. /\ Held(y) /\ At1(x, y) /\ Rest(x, y) /\ y.k = x.k /\ y.i = x.i /\ y.mode = mode
        /\ y.left = x.left /\ y.last = x.last /\ y.dist = x.dist
    BY <1>4 DEF Became
  <1>6. y.i <= Len(s) /\ Amounts(y, g) /\ DueAt(y) = DueAt(x)
    BY <1>1, <1>5, Recast, ZenonT(30)
  <1>7. Place(y)
    BY <1>1, <1>5, <1>6 DEF Place
  <1>8. QED BY <1>5, <1>6, <1>7, ReadyIf DEF Fastest

LEMMA Starts ==
  ASSUME s \in Streams, NEW g, NEW x, Ready(x, g), Live(x),
         x.mode = "START", Ample(x)
  PROVE  LET y == [x EXCEPT !.mode = "FAST", !.n0 = x.n] IN
         Ready(y, g) /\ y.mode = "FAST"
  <1> DEFINE y == [x EXCEPT !.mode = "FAST", !.n0 = x.n]
  <1>1. Held(x) /\ Kept(x, g) /\ Place(x) /\ Amounts(x, g) /\ x.i <= Len(s)
    BY DEF Ready, Kept
  <1>a. x.n \in Int /\ x \in Decoders
    BY <1>1, HeldFields DEF Held
  <1>2. /\ y.mode = "FAST" /\ y.n0 = x.n /\ y.base = x.base /\ y.idx = x.idx /\ y.n = x.n
        /\ y.k = x.k /\ y.i = x.i /\ y.left = x.left /\ y.last = x.last /\ y.dist = x.dist
        /\ y.read = x.read /\ y.write = x.write /\ y.out = x.out /\ y.r = x.r
        /\ y \in Decoders
    BY <1>a DEF Decoders, Modes
  <1> HIDE DEF y
  <1>3. Held(y) /\ At1(x, y)
    BY <1>1, <1>2 DEF Held, At1
  <1>4. y.i <= Len(s) /\ Amounts(y, g) /\ DueAt(y) = DueAt(x)
    BY <1>1, <1>2, <1>3, Recast
  <1>5. Place(y)
    BY <1>1, <1>2, <1>4 DEF Place
  <1>6. Quick(y)
    BY <1>a, <1>2 DEF Quick, Ample, Room
  <1>7. QED BY <1>2, <1>3, <1>4, <1>5, <1>6 DEF Ready, Kept, y

-----------------------------------------------------------------------------
(***************************************************************************)
(* Bytes that go back, and the loop of the fast path.                      *)
(***************************************************************************)
\* Whole bytes go back from the bit buffer to the chunk.
BackBy(x, y, c) ==
  /\ y.base = x.base /\ y.idx = x.idx - c /\ y.n = x.n + c /\ y.k = x.k - c * Byte
  /\ y.i = x.i /\ y.left = x.left /\ y.dist = x.dist /\ y.last = x.last
  /\ y.win = x.win /\ y.read = x.read /\ y.write = x.write /\ y.out = x.out
  /\ y.n0 = x.n0

LEMMA BackAmounts ==
  ASSUME NEW g, NEW x, Held(x), Amounts(x, g), NEW y, NEW c \in Nat, BackBy(x, y, c),
         c * Byte <= x.k,
         x.mode \notin {"LENS", "LENEXT", "DISTEXT"},
         y.mode \notin {"LENS", "LENEXT", "DISTEXT", "STORED"}
  PROVE  Amounts(y, g)
  <1> DEFINE a == x.base + x.idx
             e == c * Byte
  <1>1. a \in Int /\ x.n \in Int /\ x.k \in Int /\ e \in Nat /\ a * Byte \in Int
    BY HeldFields, Sizes
  <1>2. (a - c) * Byte = a * Byte - e
    BY <1>1, Sizes
  <1>3. y.base + y.idx = a - c
    BY HeldFields DEF BackBy
  <1>4. Pos(y) = (a - c) * Byte - (x.k - e)
    BY <1>3 DEF Pos, BackBy
  <1>5. Pos(x) = a * Byte - x.k
    BY DEF Pos
  <1>6. y.base + y.idx + y.n = x.base + x.idx + x.n
    BY HeldFields DEF BackBy
  <1>7. y.n >= 0 /\ y.k >= 0 /\ y.k < LitBits + Byte
    <2>1. y.n = x.n + c /\ y.k = x.k - e
      BY DEF BackBy
    <2>2. x.n >= 0 /\ x.k < LitBits + Byte /\ e <= x.k
      BY DEF Amounts
    <2> HIDE DEF e
    <2>3. QED BY <1>1, <2>1, <2>2, Sizes
  <1> HIDE DEF a, e
  <1>8. Pos(y) = Pos(x)
    BY <1>1, <1>2, <1>4, <1>5
  <1>9. Begun(x) = 0 /\ Begun(y) = 0
    BY DEF Begun
  <1>10. QED BY <1>6, <1>7, <1>8, <1>9 DEF Amounts, BackBy

\* inflate_fast() gives back what it has loaded too much.
LEMMA GiveBackFacts ==
  ASSUME NEW x, Held(x)
  PROVE  LET y == GiveBack(x) IN
         /\ Held(y) /\ y.mode = x.mode /\ y.r = x.r /\ y.i = x.i
         /\ x.k >= 0 /\ x.n <= x.n0 =>
              \E c \in Nat : BackBy(x, y, c) /\ c * Byte <= x.k /\ x.n + c <= x.n0
  <1>1. x.k \in Int /\ x.n \in Int /\ x.n0 \in Int /\ x.idx \in Int /\ x \in Decoders
    BY HeldFields DEF Held
  <1>2. x.k \div Byte \in Int
    BY <1>1, Sizes
  <1>3. x.n0 - x.n \in Int
    BY <1>1
  <1>4. PICK c : c = Min({x.k \div Byte, x.n0 - x.n})
    OBVIOUS
  <1>5. c \in Int /\ (c = x.k \div Byte \/ c = x.n0 - x.n)
        /\ c <= x.k \div Byte /\ c <= x.n0 - x.n
    <2>1. PICK a \in Int, b \in Int : a = x.k \div Byte /\ b = x.n0 - x.n
      BY <1>2, <1>3
    <2>2. c = IF a <= b THEN a ELSE b
      BY <1>4, <2>1, MinFacts
    <2>3. QED BY <2>1, <2>2
  <1>6. c * Byte \in Int
    BY <1>5, Sizes
  <1> DEFINE y == GiveBack(x)
  <1>7. y = [x EXCEPT !.n = x.n + c, !.idx = x.idx - c, !.k = x.k - c * Byte]
    BY <1>4 DEF GiveBack
  <1>8. x.n + c \in Int /\ x.idx - c \in Int /\ x.k - c * Byte \in Int
    BY <1>1, <1>5, <1>6
  <1>9. y \in Decoders /\ y.mode = x.mode /\ y.r = x.r /\ y.out = x.out /\ BackBy(x, y, c)
    <2>1. PICK p \in Int, q \in Int, e \in Int :
            p = x.n + c /\ q = x.idx - c /\ e = x.k - c * Byte
      BY <1>8
    <2>2. y = [x EXCEPT !.n = p, !.idx = q, !.k = e]
      BY <1>7, <2>1
    <2> HIDE DEF y
    <2>3. QED BY <1>1, <2>1, <2>2 DEF Decoders, BackBy
  <1> HIDE DEF y
  <1>10. Held(y) /\ y.i = x.i
    BY <1>9 DEF Held, BackBy
  <1>11. ASSUME x.k >= 0, x.n <= x.n0
         PROVE  c \in Nat /\ c * Byte <= x.k /\ x.n + c <= x.n0
    <2>0. PICK k \in Nat : k = x.k
      BY <1>1, <1>11
    <2>a. PICK q \in Nat, r \in Nat : k = q * Byte + r /\ r < Byte /\ r = k % Byte
      BY Sizes, Parts
    <2>1. x.k = q * Byte + r /\ r < Byte
      BY <2>0, <2>a
    <2>2. x.k \div Byte = q
      BY <2>1, Sizes, DivIs
    <2>3. c \in Nat /\ c <= q
      BY <1>1, <1>5, <1>11, <2>2
    <2>4. c * Byte <= q * Byte /\ c * Byte \in Nat /\ q * Byte \in Nat
      BY <2>3, Sizes
    <2>5. c * Byte <= x.k
      BY <2>1, <2>4
    <2>6. QED BY <1>1, <1>5, <2>3, <2>5
  <1>12. QED BY <1>9, <1>10, <1>11 DEF y

\* The loop of inflate_fast() goes on, or ends for want of input or window.
LEMMA OnSteps ==
  ASSUME NEW g, NEW x, Held(x), x.i <= Len(s), x.mode = "FAST", Place(x), Amounts(x, g),
         x.n <= x.n0, x.r = "BUF" => x.out = <<>>
  PROVE  /\ Ample(x) => Ready([x EXCEPT !.mode = "FAST"], g)
         /\ Ready([GiveBack(x) EXCEPT !.mode = "LEN", !.r = "OK"], g)
  <1>1. ASSUME Ample(x) PROVE Ready([x EXCEPT !.mode = "FAST"], g)
    <2>1. [x EXCEPT !.mode = "FAST"] = x
      BY DEF Held, Decoders
    <2>2. Quick(x)
      BY <1>1, HeldFields, Sizes DEF Quick, Ample
    <2>3. Ready(x, g)
      BY <2>2 DEF Ready, Kept
    <2>4. QED BY <2>1, <2>3
  <1>2. Ready([GiveBack(x) EXCEPT !.mode = "LEN", !.r = "OK"], g)
    <2> DEFINE v == GiveBack(x)
               y == [v EXCEPT !.mode = "LEN", !.r = "OK"]
    <2>0. x.k >= 0
      BY DEF Amounts
    <2>1. Held(v) /\ \E c \in Nat : BackBy(x, v, c) /\ c * Byte <= x.k
      BY <2>0, GiveBackFacts
    <2>2. PICK c \in Nat : BackBy(x, v, c) /\ c * Byte <= x.k
      BY <2>1
    <2> HIDE DEF v
    <2>3. /\ y.base = v.base /\ y.idx = v.idx /\ y.n = v.n /\ y.k = v.k /\ y.n0 = v.n0
          /\ y.i = v.i /\ y.left = v.left /\ y.dist = v.dist /\ y.last = v.last
          /\ y.win = v.win /\ y.read = v.read /\ y.write = v.write /\ y.out = v.out
          /\ y.mode = "LEN" /\ y.r = "OK" /\ y \in Decoders
      BY <2>1 DEF Held, Decoders, Modes
    <2> HIDE DEF y
    <2>4. Held(y) /\ BackBy(x, y, c)
      BY <2>1, <2>2, <2>3 DEF Held, BackBy
    <2>5. Amounts(y, g)
      BY <2>2, <2>3, <2>4, BackAmounts
    <2>6. y.i = x.i /\ y.last = x.last
      BY <2>4 DEF BackBy
    <2>7. Place(y)
      BY <2>3, <2>6 DEF Place, DueAt
    <2>8. Ready(y, g)
      BY <2>3, <2>4, <2>5, <2>6, <2>7 DEF Ready, Kept, Quick
    <2>9. QED BY <2>8 DEF y, v
  <1>3. QED BY <1>1, <1>2

-----------------------------------------------------------------------------
(***************************************************************************)
(* Bytes that go into the window.                                          *)
(***************************************************************************)
\* Bytes that go into the window.
LEMMA PutFacts ==
  ASSUME NEW x, Held(x), x.write < End, NEW val \in Nat
  PROVE  LET y == Put(x, val) IN
         /\ Held(y) /\ Core(y) = Core(x) /\ y.r = x.r /\ y.out = x.out
         /\ y.read = x.read /\ y.write = x.write + 1
         /\ y.win = [x.win EXCEPT ![x.write] = val]
  <1>1. /\ x \in Decoders /\ x.write \in 0 .. End - 1 /\ x.win \in [0 .. End - 1 -> Nat]
        /\ x.write + 1 \in 0 .. End
    BY HeldFields, Sizes DEF Held, Cells
  <1>2. [x.win EXCEPT ![x.write] = val] \in Cells
    BY <1>1 DEF Cells
  <1>3. PICK w \in Cells, q \in 0 .. End :
          w = [x.win EXCEPT ![x.write] = val] /\ q = x.write + 1
    BY <1>1, <1>2
  <1>4. Put(x, val) = [x EXCEPT !.win = w, !.write = q]
    BY <1>1, <1>3 DEF Put, Decoders
  <1> DEFINE y == Put(x, val)
  <1>5. /\ y.base = x.base /\ y.idx = x.idx /\ y.n = x.n /\ y.n0 = x.n0 /\ y.k = x.k
        /\ y.i = x.i /\ y.mode = x.mode /\ y.left = x.left /\ y.dist = x.dist
        /\ y.last = x.last /\ y.win = w /\ y.read = x.read /\ y.write = q
        /\ y.out = x.out /\ y.r = x.r /\ y \in Decoders
    BY <1>1, <1>3, <1>4 DEF Decoders
  <1>6. Held(y)
    BY <1>5 DEF Held
  <1>7. QED BY <1>3, <1>5, <1>6 DEF Core

LEMMA MoveType ==
  ASSUME NEW win \in Cells, NEW from \in Nat, NEW to \in Nat, NEW c \in Nat,
         IF from < to THEN to <= End ELSE from + c <= End
  PROVE  Move(win, from, to, c) \in Cells
  <1>1. win \in [0 .. End - 1 -> Nat] /\ End \in Nat
    BY Sizes DEF Cells
  <1>2. ASSUME NEW w \in 0 .. End - 1, w \in to .. to + c - 1
        PROVE  from + ((w - to) % IF from < to THEN to - from ELSE c) \in 0 .. End - 1
    <2>1. w - to \in Nat /\ w - to < c
      BY <1>1, <1>2
    <2>2. CASE from < to
      <3>1. PICK m \in Nat : m = to - from /\ m > 0
        BY <2>2
      <3>2. (w - to) % m \in Nat /\ (w - to) % m < m
        BY <2>1, <3>1
      <3>3. from + ((w - to) % m) \in 0 .. End - 1
        BY <1>1, <2>2, <3>1, <3>2
      <3>4. QED BY <2>2, <3>1, <3>3
    <2>3. CASE ~ (from < to)
      <3>1. (w - to) % c \in Nat /\ (w - to) % c < c
        BY <2>1
      <3>2. QED BY <1>1, <2>3, <3>1
    <2>4. QED BY <2>2, <2>3
  <1>3. Move(win, from, to, c) \in [0 .. End - 1 -> Nat]
    BY <1>1, <1>2 DEF Move
  <1>4. QED BY <1>3 DEF Cells

LEMMA FastCopyFacts ==
  ASSUME NEW x, Held(x), NEW d \in 1 .. End, NEW c \in Nat, c >= 2, x.write + c <= End
  PROVE  LET y == FastCopy(x, d, c) IN
         /\ Held(y) /\ Core(y) = Core(x) /\ y.r = x.r /\ y.out = x.out
         /\ y.read = x.read /\ y.write = x.write + c
  <1> DEFINE q    == x.write
             from == IF q >= d THEN q - d ELSE q - d + End
             head == IF q >= d THEN 2 ELSE IF c > End - from THEN End - from ELSE 0
             w1   == Move(x.win, from, q, head)
             rest == IF q < d /\ head > 0 THEN 0 ELSE from + head
             w2   == Move(w1, rest, q + head, c - head)
  <1>1. /\ q \in Nat /\ End \in Nat /\ d \in Nat /\ d >= 1 /\ d <= End /\ x.win \in Cells
        /\ q + c <= End /\ x \in Decoders
    BY HeldFields, Sizes DEF Held
  <1>2. from \in Nat /\ (q >= d => from < q) /\ (q < d => q <= from /\ from < End)
    BY <1>1
  <1>3. head \in Nat /\ head <= c /\ (q < d => from + head <= End)
    BY <1>1, <1>2
  <1>4. w1 \in Cells
    <2> HIDE DEF from, head
    <2>1. IF from < q THEN q <= End ELSE from + head <= End
      BY <1>1, <1>2, <1>3
    <2> HIDE DEF q
    <2>2. QED BY <1>1, <1>2, <1>3, <2>1, MoveType
  <1>5. /\ rest \in Nat
        /\ IF rest < q + head THEN q + head <= End ELSE rest + (c - head) <= End
    <2>1. CASE q >= d
      BY <1>1, <1>2, <2>1
    <2>2. CASE q < d
      BY <1>1, <1>2, <2>2
    <2>3. QED BY <1>1, <2>1, <2>2
  <1>6. w2 \in Cells
    <2> HIDE DEF w1, rest, head, q
    <2>1. PICK t \in Nat, m \in Nat : t = q + head /\ m = c - head
      BY <1>1, <1>3
    <2>2. IF rest < t THEN t <= End ELSE rest + m <= End
      BY <1>5, <2>1
    <2>3. Move(w1, rest, t, m) \in Cells
      BY <1>4, <1>5, <2>2, MoveType
    <2>4. QED BY <2>1, <2>3
  <1> HIDE DEF w2
  <1> DEFINE y == FastCopy(x, d, c)
             p == q + c
  <1>7. y = [x EXCEPT !.win = w2, !.write = p]
    BY DEF FastCopy, w2
  <1>8. p \in 0 .. End
    BY <1>1
  <1> HIDE DEF y, p
  <1>9. /\ y.base = x.base /\ y.idx = x.idx /\ y.n = x.n /\ y.n0 = x.n0 /\ y.k = x.k
        /\ y.i = x.i /\ y.mode = x.mode /\ y.left = x.left /\ y.dist = x.dist
        /\ y.last = x.last /\ y.win = w2 /\ y.read = x.read /\ y.write = p
        /\ y.out = x.out /\ y.r = x.r /\ y \in Decoders
    BY <1>1, <1>6, <1>7, <1>8 DEF Decoders
  <1>10. Held(y)
    BY <1>9 DEF Held
  <1>11. QED BY <1>9, <1>10 DEF Core, y, p

CoreOf(x, y) ==
  /\ y.base = x.base /\ y.idx = x.idx /\ y.n = x.n /\ y.n0 = x.n0 /\ y.k = x.k
  /\ y.i = x.i /\ y.mode = x.mode /\ y.left = x.left /\ y.dist = x.dist /\ y.last = x.last

LEMMA CoreIs ==
  ASSUME NEW x, NEW y, Core(y) = Core(x)
  PROVE  CoreOf(x, y)
  BY DEF Core, CoreOf

LEMMA CoreKept ==
  ASSUME NEW g, NEW x, NEW y, Held(y), CoreOf(x, y)
  PROVE  /\ x.i <= Len(s) => y.i <= Len(s)
         /\ Live(y) = Live(x) /\ DueAt(y) = DueAt(x) /\ Ahead(y) = Ahead(x)
         /\ Place(x) => Place(y)
         /\ Amounts(x, g) => Amounts(y, g)
         /\ Kept(x, g) => Kept(y, g)
  <1>1. Live(y) = Live(x) /\ DueAt(y) = DueAt(x) /\ Ahead(y) = Ahead(x)
    BY DEF Live, DueAt, Ahead, CoreOf
  <1>2. Place(x) => Place(y)
    BY <1>1 DEF Place, CoreOf
  <1>3. Amounts(x, g) => Amounts(y, g)
    BY <1>1 DEF Amounts, CoreOf, Pos, Begun
  <1>4. Kept(x, g) => Kept(y, g)
    BY <1>1, <1>2, <1>3 DEF Kept, CoreOf
  <1>5. QED BY <1>1, <1>2, <1>3, <1>4 DEF CoreOf

LEMMA FlushReady ==
  ASSUME NEW g, NEW x, Ready(x, g), x.mode \notin Fastest
  PROVE  LET y == Flush(x) IN
         /\ Ready(y, g) /\ CoreOf(x, y)
         /\ y.read # y.write => Len(y.out) = BufSize
         /\ Len(x.out) = BufSize => Len(y.out) = BufSize
         /\ x.r # "BUF" => y.r = x.r
  <1> DEFINE y == Flush(x)
  <1>1. Held(x) /\ Kept(x, g)
    BY DEF Ready, Kept
  <1>2. /\ Held(y) /\ Core(y) = Core(x) /\ y.win = x.win
        /\ y.out = x.out \o Given(x) /\ Len(y.out) = Len(x.out) + GiveCount(x)
        /\ y.r = (IF GiveCount(x) # 0 /\ x.r = "BUF" THEN "OK" ELSE x.r)
        /\ y.read # y.write => Len(y.out) = BufSize
    BY <1>1, FlushFacts
  <1> HIDE DEF y
  <1>3. CoreOf(x, y)
    BY <1>2, CoreIs
  <1>4. y.r = "BUF" => y.out = <<>>
    <2> SUFFICES ASSUME y.r = "BUF" PROVE y.out = <<>>
      OBVIOUS
    <2>1. x.r = "BUF" /\ GiveCount(x) = 0
      BY <1>2
    <2>2. x.out = <<>>
      BY <2>1 DEF Ready
    <2>3. Given(x) = <<>>
      BY <1>1, <2>1, GivenFacts
    <2>4. QED BY <1>2, <2>2, <2>3
  <1>5. Len(x.out) = BufSize => Len(y.out) = BufSize
    BY <1>1, <1>2, HeldFields, PendingFacts, Sizes
  <1>6. Kept(y, g)
    BY <1>1, <1>2, <1>3, CoreKept
  <1>7. Ready(y, g)
    BY <1>3, <1>4, <1>6 DEF Ready, Quick, CoreOf, Fastest
  <1>8. QED BY <1>2, <1>3, <1>5, <1>7 DEF y

LEMMA RoomReady ==
  ASSUME NEW g, NEW x, Ready(x, g), x.mode \notin Fastest
  PROVE  LET y == MakeRoom(x) IN
         /\ Ready(y, g) /\ CoreOf(x, y) /\ y.win = x.win /\ Held(y)
         /\ Room(y) = 0 => Len(y.out) = BufSize
         /\ Room(y) # 0 => y.write < End
         /\ Room(y) \in Nat /\ y.write + Room(y) <= End
  <1>1. Held(x) /\ Kept(x, g)
    BY DEF Ready, Kept
  <1>2. PICK y : y = MakeRoom(x)
    OBVIOUS
  <1>3. /\ Held(y) /\ Core(y) = Core(x) /\ y.win = x.win
        /\ Room(y) \in Nat
        /\ Room(y) = 0 => Len(y.out) = BufSize
        /\ y.r = "BUF" => x.r = "BUF" /\ y.out = x.out
    BY <1>1, <1>2, MakeRoomFacts
  <1>4. CoreOf(x, y)
    BY <1>3, CoreIs
  <1>5. y.write + Room(y) <= End /\ (Room(y) # 0 => y.write < End)
    BY <1>3, HeldFields, Sizes DEF Room
  <1>6. Kept(y, g)
    BY <1>1, <1>3, <1>4, CoreKept
  <1>7. Ready(y, g)
    BY <1>3, <1>4, <1>6 DEF Ready, Quick, CoreOf, Fastest
  <1>8. QED BY <1>2, <1>3, <1>4, <1>5, <1>7

LEMMA DropFacts ==
  ASSUME NEW x, Held(x), NEW b, b \in Nat
  PROVE  Became(x, Drop(x, b), x.k - b, x.i, x.mode, x.left, x.dist, x.last)
  <1>1. Suits(x.k - b, x.i, x.mode, x.left, x.dist, x.last)
    BY HeldFields DEF Suits
  <1>2. Drop(x, b) = Stepped(x, x.k - b, x.i, x.mode, x.left, x.dist, x.last)
    BY DEF Held, Decoders, Drop, Stepped
  <1>3. QED BY <1>1, <1>2, SetStepped

LEMMA DoneFacts ==
  ASSUME NEW x, Held(x), NEW mode, mode \in Modes
  PROVE  Became(x, Done(x, mode), x.k, x.i + 1, mode, x.left, x.dist, x.last)
  <1>1. Suits(x.k, x.i + 1, mode, x.left, x.dist, x.last)
    BY HeldFields DEF Suits
  <1>2. Done(x, mode) = Stepped(x, x.k, x.i + 1, mode, x.left, x.dist, x.last)
    BY DEF Held, Decoders, Done, Stepped
  <1>3. QED BY <1>1, <1>2, SetStepped

\* What the fast path loads before a literal or a length.
LEMMA FastLoads ==
  ASSUME s \in Streams, NEW g, NEW x, Ready(x, g), x.mode = "FAST"
  PROVE  LET y == Load(x, LitBits) IN
         /\ Kept(y, g) /\ Held(y) /\ y.k >= LitBits
         /\ y.n >= FastIn - InBytes(LitBits) /\ y.n <= y.n0
         /\ y.i = x.i /\ y.mode = x.mode /\ y.left = x.left /\ y.dist = x.dist
         /\ y.last = x.last /\ y.win = x.win /\ y.read = x.read /\ y.write = x.write
         /\ y.out = x.out /\ (y.r = "BUF" => y.out = <<>>) /\ y.n0 = x.n0
         /\ Room(y) >= MaxLen
  <1> DEFINE y == Load(x, LitBits)
             w == Want(x, LitBits)
  <1>1. Kept(x, g) /\ Held(x) /\ Live(x) /\ Quick(x) /\ Amounts(x, g)
        /\ (x.r = "BUF" => x.out = <<>>)
    BY DEF Ready, Kept, Live
  <1>2. x.k \in Nat /\ x.n \in Nat /\ x.n0 \in Int
    BY <1>1, HeldFields DEF Amounts
  <1>3. w \in Nat /\ w <= InBytes(LitBits) /\ InBytes(LitBits) \in Nat
    <2>1. PICK b \in Nat : b = LitBits
      BY Sizes
    <2>2. QED BY <1>2, <2>1, WantFacts, InBytesFacts
  <1>4. x.n >= FastIn /\ x.n <= x.n0 /\ Room(x) >= MaxLen
    BY <1>1 DEF Quick, Fastest
  <1>5. w <= x.n /\ x.n - w >= FastIn - InBytes(LitBits)
    <2>1. InBytes(DistBits) \in Nat
      BY Sizes, InBytesFacts
    <2>2. InBytes(LitBits) + InBytes(DistBits) <= FastIn
      BY SizeAssumption
    <2>3. QED BY <1>2, <1>3, <1>4, <2>1, <2>2, Sizes
  <1>6. Kept(y, g) /\ y.k >= LitBits
    BY <1>1, <1>5, Sizes, Loaded
  <1>7. y = Fetch(x, w)
    BY DEF Load
  <1> HIDE DEF w, y
  <1>8. /\ y.n = x.n - w /\ y.n0 = x.n0
        /\ y.i = x.i /\ y.mode = x.mode /\ y.left = x.left /\ y.dist = x.dist
        /\ y.last = x.last /\ y.win = x.win
        /\ y.out = x.out /\ y.read = x.read /\ y.write = x.write
        /\ y.r = (IF w = 0 THEN x.r ELSE "OK")
        /\ Held(y)
    BY <1>1, <1>3, <1>7, FetchFields
  <1>9. y.n <= y.n0
    BY <1>2, <1>3, <1>4, <1>8
  <1>10. Room(y) >= MaxLen
    BY <1>4, <1>8 DEF Room
  <1>11. QED BY <1>1, <1>5, <1>6, <1>8, <1>9, <1>10 DEF y

-----------------------------------------------------------------------------
(***************************************************************************)
(* What may come of a step.                                                *)
(***************************************************************************)
\* What may come of a step of the decoder.
Comes(y, p, g) ==
  /\ Ready(y, g)
  /\ p \in {"inflate", "check", "astray"}
  /\ y.mode = "BAD" => p = "check" /\ y.r = "DATA"
  /\ p = "check" /\ Live(y) => y.n = 0 \/ Len(y.out) = BufSize

LEMMA ResetReady ==
  ASSUME NEW g, NEW x, Ready(x, g), x.mode = "DONE"
  PROVE  LET y == [x EXCEPT !.read = 0, !.write = 0, !.k = 0] IN
         Ready(y, g) /\ y.mode = "DONE"
  <1> DEFINE y == [x EXCEPT !.read = 0, !.write = 0, !.k = 0]
  <1>1. /\ Held(x) /\ x.i <= Len(s) /\ (x.r = "BUF" => x.out = <<>>)
    BY DEF Ready, Kept
  <1>2. 0 \in 0 .. End - 1 /\ 0 \in 0 .. End
    BY Sizes
  <1>3. y \in Decoders /\ y.mode = "DONE" /\ y.out = x.out /\ y.i = x.i /\ y.r = x.r
    <2>1. x \in Decoders
      BY <1>1 DEF Held
    <2>2. PICK p \in 0 .. End - 1, q \in 0 .. End, e \in Int : p = 0 /\ q = 0 /\ e = 0
      BY <1>2
    <2>3. y = [x EXCEPT !.read = p, !.write = q, !.k = e]
      BY <2>2
    <2> HIDE DEF y
    <2>4. QED BY <2>1, <2>3 DEF Decoders
  <1> HIDE DEF y
  <1>4. Held(y)
    BY <1>1, <1>3 DEF Held
  <1>5. QED BY <1>1, <1>3, <1>4 DEF Ready, Kept, Live, y

LEMMA ReturnGoes ==
  ASSUME NEW g, NEW x, Ready(x, g), x.mode \notin Fastest,
         x.mode = "BAD" => x.r = "DATA",
         Live(x) => x.n = 0 \/ Len(Flush(x).out) = BufSize,
         Return(x)
  PROVE  Comes(z', pc', g)
  <1>1. PICK y : y = Flush(x)
    OBVIOUS
  <1>2. /\ Ready(y, g) /\ CoreOf(x, y)
        /\ x.r # "BUF" => y.r = x.r
    BY <1>1, FlushReady
  <1>3. pc' = "check" /\ z' = IF y.mode = "DONE" THEN [y EXCEPT !.read = 0, !.write = 0, !.k = 0]
                             ELSE y
    BY <1>1 DEF Return
  <1>4. y.n = x.n /\ y.mode = x.mode
    BY <1>2 DEF CoreOf
  <1>5. CASE y.mode = "DONE"
    <2>1. Ready(z', g) /\ z'.mode = "DONE"
      BY <1>2, <1>3, <1>5, ResetReady
    <2>2. QED BY <1>3, <2>1 DEF Comes, Live
  <1>6. CASE y.mode # "DONE"
    <2>1. z' = y
      BY <1>3, <1>6
    <2>2. Live(y) = Live(x)
      BY <1>4 DEF Live
    <2>3. QED BY <1>1, <1>2, <1>3, <1>4, <2>1, <2>2 DEF Comes
  <1>7. QED BY <1>5, <1>6

LEMMA FailGoes ==
  ASSUME NEW g, NEW x, Held(x), x.i <= Len(s), Fail(x)
  PROVE  Comes(z', pc', g)
  <1> DEFINE y == [x EXCEPT !.r = "DATA", !.mode = "BAD"]
  <1>1. Ready(y, g) /\ y.mode = "BAD" /\ y.r = "DATA"
    BY FailReady
  <1>2. Return(y)
    BY DEF Fail
  <1> HIDE DEF y
  <1>3. ~ Live(y) /\ y.mode \notin Fastest
    BY <1>1 DEF Live, Fastest
  <1>4. QED BY <1>1, <1>2, <1>3, ReturnGoes

LEMMA GoGoes ==
  ASSUME NEW g, NEW x, Ready(x, g), x.mode # "BAD", Go(x), pc = "inflate"
  PROVE  Comes(z', pc', g)
  BY DEF Go, Comes

LEMMA AstrayGoes ==
  ASSUME NEW g, Ready(z, g), z.mode # "BAD", Astray
  PROVE  Comes(z', pc', g)
  BY DEF Astray, Comes

LEMMA NeedGoes ==
  ASSUME s \in Streams, NEW g, Ready(z, g), Live(z), NEW bits \in Nat,
         z.mode # "STORED", z.mode \notin Fastest, z.mode # "LENS" => bits <= LitBits,
         z.mode = "LENS" /\ Ahead(z).is = "lens" =>
            Ahead(z).bits = bits /\ bits % Byte = 0,
         Want(z, bits) > z.n, Return(Fetch(z, z.n))
  PROVE  Comes(z', pc', g)
  <1>1. PICK y : y = Fetch(z, z.n)
    OBVIOUS
  <1>2. Ready(y, g) /\ y.n = 0 /\ y.mode = z.mode
    BY <1>1, NeedReady
  <1>3. y.mode \notin Fastest /\ y.mode # "BAD"
    BY <1>2 DEF Live
  <1>4. QED BY <1>1, <1>2, <1>3, ReturnGoes

LEMMA NeedLoads ==
  ASSUME s \in Streams, NEW g, Ready(z, g), Live(z), NEW bits \in Nat,
         z.mode # "STORED", z.mode \notin Fastest, z.mode # "LENS" => bits <= LitBits,
         z.mode = "LENS" /\ Ahead(z).is = "lens" =>
            Ahead(z).bits = bits /\ bits % Byte = 0,
         Want(z, bits) <= z.n
  PROVE  LET y == Load(z, bits) IN
              /\ Ready(y, g) /\ y.k >= bits /\ Held(y) /\ y.i <= Len(s)
              /\ z.mode = "LENS" /\ Ahead(z).is = "lens" => y.k = bits
              /\ y.mode = z.mode /\ y.i = z.i /\ y.left = z.left /\ y.last = z.last
              /\ y.dist = z.dist /\ Ahead(y) = Ahead(z) /\ DueAt(y) = DueAt(z) /\ Live(y)
  <1>1. PICK y : y = Load(z, bits)
    OBVIOUS
  <1>2. /\ Ready(y, g) /\ y.k >= bits
        /\ z.mode = "LENS" /\ Ahead(z).is = "lens" => y.k = bits
        /\ y.mode = z.mode /\ y.i = z.i /\ y.left = z.left /\ y.last = z.last
        /\ y.dist = z.dist
    BY <1>1, NeedReady
  <1>3. QED BY <1>1, <1>2 DEF Ready, Kept, Ahead, DueAt, Live

\* The number of bits it takes to look the next field up.
LEMMA Lookup ==
  ASSUME s \in Streams, NEW g, NEW x, Ready(x, g), Live(x),
         DueAt(x).what \notin {"end", "nothing"}
  PROVE  /\ Ahead(x).look \in Nat /\ Ahead(x).bits \in Nat /\ Ahead(x).extra \in Nat
         /\ Ahead(x).bits <= Ahead(x).look
         /\ DueAt(x).what \notin {"lens", "byte"} => Ahead(x).look <= LitBits
         /\ DueAt(x).what = "lens" /\ Ahead(x).is = "lens" =>
              Ahead(x).look = Ahead(x).bits /\ Ahead(x).bits % Byte = 0
         /\ DueAt(x).what = "lens" => Bad(Ahead(x)) \/ Ahead(x).is = "lens"
         /\ DueAt(x).what = "code" => Bad(Ahead(x)) \/ Ahead(x).is \in {"lit", "len", "eob"}
         /\ DueAt(x).what = "code" /\ ~ Bad(Ahead(x)) => Ahead(x).extra <= LitBits
         /\ DueAt(x).what = "dist" => Bad(Ahead(x)) \/ Ahead(x).is = "dist"
         /\ DueAt(x).what = "dist" /\ ~ Bad(Ahead(x)) => Ahead(x).extra <= LitBits
  <1>1. PICK f : f = Ahead(x)
    OBVIOUS
  <1>2. PICK d : d = DueAt(x)
    OBVIOUS
  <1>o. PICK o : o = Out[s][x.i + 1]
    OBVIOUS
  <1>3. /\ d \in States /\ f \in Fields /\ Fits(d, f, o)
        /\ f.bits \in Nat /\ f.look \in Nat /\ f.extra \in Nat /\ f.val \in Nat
    BY <1>1, <1>2, <1>o, Facing
  <1>4. d.what # "nothing" /\ d.what # "end"
    BY <1>2
  <1>6. d.what \notin {"lens", "byte"} => f.look <= LitBits
    BY <1>3, <1>4 DEF Fits, Bad
  <1>7. /\ f.bits <= f.look
        /\ d.what = "lens" => \/ Bad(f)
                              \/ f.is = "lens" /\ f.look = f.bits /\ f.bits % Byte = 0
        /\ d.what = "code" => Bad(f) \/ (f.is \in {"lit", "len", "eob"} /\ f.bits + f.extra <= LitBits)
        /\ d.what = "dist" => Bad(f) \/ (f.is = "dist" /\ f.extra <= LitBits)
    BY <1>3, <1>4, FitsIs
  <1>8. d.what = "lens" /\ f.is = "lens" => f.look = f.bits /\ f.bits % Byte = 0
    BY <1>7 DEF Bad
  <1>9. d.what = "code" /\ ~ Bad(f) => f.extra <= LitBits
    BY <1>3, <1>7, Sizes
  <1>10. QED BY <1>1, <1>2, <1>3, <1>6, <1>7, <1>8, <1>9

-----------------------------------------------------------------------------
(***************************************************************************)
(* The modes that read a field.                                            *)
(***************************************************************************)
\* What the modes that read a field have in common.
Looks(g, bits) ==
  /\ s \in Streams /\ Ready(z, g) /\ Live(z) /\ bits \in Nat
  /\ z.mode # "STORED" /\ z.mode \notin Fastest /\ (z.mode # "LENS" => bits <= LitBits)
  /\ (z.mode = "LENS" /\ Ahead(z).is = "lens" =>
            Ahead(z).bits = bits /\ bits % Byte = 0)

\* x is the decoder with the bits in its buffer.
Has(x, g, bits) ==
  /\ Ready(x, g) /\ x.k >= bits /\ Held(x) /\ x.i <= Len(s)
  /\ z.mode = "LENS" /\ Ahead(z).is = "lens" => x.k = bits
  /\ x.mode = z.mode /\ x.i = z.i /\ x.left = z.left /\ x.last = z.last
  /\ x.dist = z.dist /\ Ahead(x) = F /\ DueAt(x) = DueAt(z) /\ Live(x)

LEMMA NeedCases ==
  ASSUME NEW g, NEW bits, Looks(g, bits), pc = "inflate"
  PROVE  /\ Astray => Comes(z', pc', g)
         /\ Want(z, bits) > z.n /\ Return(Fetch(z, z.n)) => Comes(z', pc', g)
         /\ Want(z, bits) <= z.n => Has(Load(z, bits), g, bits)
  <1>1. Astray => Comes(z', pc', g)
    BY AstrayGoes DEF Looks, Live
  <1>2. Want(z, bits) > z.n /\ Return(Fetch(z, z.n)) => Comes(z', pc', g)
    BY NeedGoes DEF Looks
  <1>3. Want(z, bits) <= z.n => Has(Load(z, bits), g, bits)
    <2> SUFFICES ASSUME Want(z, bits) <= z.n PROVE Has(Load(z, bits), g, bits)
      OBVIOUS
    <2>1. F = Ahead(z)
      BY DEF Ahead, F
    <2>2. QED BY <2>1, NeedLoads DEF Looks, Has
  <1>4. QED BY <1>1, <1>2, <1>3

\* Either the one or the other.
LEMMA Either ==
  ASSUME NEW g, NEW bits, Looks(g, bits)
  PROVE  Want(z, bits) > z.n \/ Want(z, bits) <= z.n
  <1>1. Held(z) /\ Kept(z, g) /\ Live(z) /\ bits \in Nat
    BY DEF Looks, Ready, Kept
  <1>2. z.n \in Nat /\ z.k \in Nat
    BY <1>1, HeldFields DEF Kept, Amounts
  <1>3. Want(z, bits) \in Nat
    BY <1>1, <1>2, WantFacts
  <1>4. QED BY <1>2, <1>3

LEMMA TypeGoes ==
  ASSUME s \in Streams, NEW g, Ready(z, g), Type
  PROVE  Comes(z', pc', g)
  <1>1. pc = "inflate" /\ z.mode = "TYPE" /\ Live(z) /\ Kept(z, g) /\ Place(z)
    BY DEF Type, In, Live, Ready, Kept
  <1>2. DueAt(z).what = "block" /\ Ahead(z) = F
    BY <1>1 DEF Place, Ahead, F
  <1>3. F.look \in Nat /\ F.look <= LitBits /\ F.bits <= F.look /\ F.bits \in Nat
    BY <1>1, <1>2, Lookup
  <1>4. Looks(g, F.look)
    BY <1>1, <1>3 DEF Looks, Fastest
  <1>5. PICK x : x = Load(z, F.look)
    OBVIOUS
  <1> DEFINE y == [Drop(x, F.bits) EXCEPT !.last = F.val = 1]
             w == [y EXCEPT !.k = @ - (@ % Byte)]
  <1>6. \/ Astray
        \/ Want(z, F.look) > z.n /\ Return(Fetch(z, z.n))
        \/ /\ ~ (Want(z, F.look) > z.n)
           /\ \/ F.is = "stored" /\ Go(Done(w, "LENS"))
              \/ F.is = "fixed" /\ Go(Done(y, "START"))
              \/ F.is = "dynamic" /\ Go(Done(y, "TABLE"))
              \/ F.is \notin {"stored", "fixed", "dynamic"} /\ Fail(y)
    BY <1>5 DEF Type, Need
  <1>7. ASSUME Want(z, F.look) <= z.n,
               \/ F.is = "stored" /\ Go(Done(w, "LENS"))
               \/ F.is = "fixed" /\ Go(Done(y, "START"))
               \/ F.is = "dynamic" /\ Go(Done(y, "TABLE"))
               \/ F.is \notin {"stored", "fixed", "dynamic"} /\ Fail(y)
        PROVE  Comes(z', pc', g)
    <2>1. Has(x, g, F.look)
      BY <1>1, <1>4, <1>5, <1>7, NeedCases
    <2>2. /\ Ready(x, g) /\ x.mode = "TYPE" /\ Ahead(x) = F /\ F.look <= x.k
          /\ Held(x) /\ x.i <= Len(s)
      BY <1>1, <1>3, <2>1, HeldFields DEF Has
    <2>3. F.is = "stored" => Ready(Done(w, "LENS"), g) /\ Done(w, "LENS").mode = "LENS"
      BY <2>2, TypeStored, ZenonT(30)
    <2>4. /\ F.is = "fixed" => Ready(Done(y, "START"), g) /\ Done(y, "START").mode = "START"
          /\ F.is = "dynamic" => Ready(Done(y, "TABLE"), g) /\ Done(y, "TABLE").mode = "TABLE"
          /\ F.is \notin {"stored", "fixed", "dynamic"} => Ready([y EXCEPT !.r = "DATA", !.mode = "BAD"], g)
      BY <2>2, TypeFixed
    <2>5. CASE F.is = "stored" /\ Go(Done(w, "LENS"))
      BY <1>1, <2>3, <2>5, GoGoes
    <2>6. CASE F.is = "fixed" /\ Go(Done(y, "START"))
      BY <1>1, <2>4, <2>6, GoGoes
    <2>7. CASE F.is = "dynamic" /\ Go(Done(y, "TABLE"))
      BY <1>1, <2>4, <2>7, GoGoes
    <2>8. CASE F.is \notin {"stored", "fixed", "dynamic"} /\ Fail(y)
      <3>1. PICK v : v = [y EXCEPT !.r = "DATA", !.mode = "BAD"]
        OBVIOUS
      <3>2. Ready(v, g) /\ Return(v)
        BY <2>4, <2>8, <3>1 DEF Fail
      <3>3. v.mode = "BAD" /\ v.r = "DATA"
        BY <2>2, <3>1 DEF Held, Decoders, Drop
      <3>4. QED BY <3>2, <3>3, ReturnGoes DEF Fastest, Live
    <2>9. QED BY <1>7, <2>5, <2>6, <2>7, <2>8
  <1>8. QED BY <1>1, <1>4, <1>6, <1>7, NeedCases, Either

LEMMA LensGoes ==
  ASSUME s \in Streams, NEW g, Ready(z, g), Lens
  PROVE  Comes(z', pc', g)
  <1>1. pc = "inflate" /\ z.mode = "LENS" /\ Live(z) /\ Kept(z, g) /\ Place(z)
    BY DEF Lens, In, Live, Ready, Kept
  <1>2. DueAt(z).what = "lens" /\ Ahead(z) = F
    BY <1>1 DEF Place, Ahead, F
  <1>3. /\ F.look \in Nat
        /\ F.is = "lens" => F.look = F.bits /\ F.bits % Byte = 0
        /\ Bad(F) \/ F.is = "lens"
    BY <1>1, <1>2, Lookup
  <1>4. Looks(g, F.look)
    BY <1>1, <1>2, <1>3 DEF Looks, Fastest
  <1>5. PICK x : x = Load(z, F.look)
    OBVIOUS
  <1> DEFINE y == Done([x EXCEPT !.k = 0, !.left = F.val],
                       IF F.val # 0 THEN "STORED" ELSE NextBlock(x))
  <1>6. \/ Astray
        \/ Want(z, F.look) > z.n /\ Return(Fetch(z, z.n))
        \/ /\ ~ (Want(z, F.look) > z.n)
           /\ \/ Bad(F) /\ Fail(x)
              \/ ~ Bad(F) /\ Go(y)
    BY <1>5 DEF Lens, Need
  <1>7. ASSUME Want(z, F.look) <= z.n,
               \/ Bad(F) /\ Fail(x)
               \/ ~ Bad(F) /\ Go(y)
        PROVE  Comes(z', pc', g)
    <2>1. Has(x, g, F.look)
      BY <1>1, <1>4, <1>5, <1>7, NeedCases
    <2>2. /\ Ready(x, g) /\ x.mode = "LENS" /\ Ahead(x) = F
          /\ Held(x) /\ x.i <= Len(s)
          /\ F.is = "lens" => x.k = F.look
      BY <1>1, <1>2, <2>1 DEF Has
    <2>3. CASE Bad(F) /\ Fail(x)
      BY <2>2, <2>3, FailGoes
    <2>4. CASE ~ Bad(F) /\ Go(y)
      <3>1. x.k = Ahead(x).bits /\ ~ Bad(Ahead(x))
        BY <1>3, <2>2, <2>4
      <3>2. Ready(y, g) /\ y.mode # "BAD"
        BY <2>2, <3>1, LensSteps
      <3> HIDE DEF y
      <3>3. QED BY <1>1, <2>4, <3>2, GoGoes
    <2>5. QED BY <1>7, <2>3, <2>4
  <1>8. QED BY <1>1, <1>4, <1>6, <1>7, NeedCases, Either

LEMMA TableGoes ==
  ASSUME s \in Streams, NEW g, Ready(z, g), Table
  PROVE  Comes(z', pc', g)
  <1>1. pc = "inflate" /\ z.mode = "TABLE" /\ Live(z) /\ Kept(z, g) /\ Place(z)
    BY DEF Table, In, Live, Ready, Kept
  <1>2. DueAt(z).what = "table" /\ Ahead(z) = F
    BY <1>1 DEF Place, Ahead, F
  <1>3. F.look \in Nat /\ F.look <= LitBits
    BY <1>1, <1>2, Lookup
  <1>4. Looks(g, F.look)
    BY <1>1, <1>2, <1>3 DEF Looks, Fastest
  <1>5. PICK x : x = Load(z, F.look)
    OBVIOUS
  <1> DEFINE y == Done([Drop(x, F.bits) EXCEPT !.left = F.val], "TREES")
  <1>6. \/ Astray
        \/ Want(z, F.look) > z.n /\ Return(Fetch(z, z.n))
        \/ /\ ~ (Want(z, F.look) > z.n)
           /\ \/ Bad(F) /\ Fail(x)
              \/ ~ Bad(F) /\ Go(y)
    BY <1>5 DEF Table, Need
  <1>7. ASSUME Want(z, F.look) <= z.n,
               \/ Bad(F) /\ Fail(x)
               \/ ~ Bad(F) /\ Go(y)
        PROVE  Comes(z', pc', g)
    <2>1. Has(x, g, F.look)
      BY <1>1, <1>4, <1>5, <1>7, NeedCases
    <2>2. /\ Ready(x, g) /\ x.mode = "TABLE" /\ Ahead(x) = F
          /\ Held(x) /\ x.i <= Len(s) /\ F.look <= x.k
      BY <1>1, <1>3, <2>1, HeldFields DEF Has
    <2>3. CASE Bad(F) /\ Fail(x)
      BY <2>2, <2>3, FailGoes
    <2>4. CASE ~ Bad(F) /\ Go(y)
      <3>1. Ready(y, g) /\ y.mode = "TREES"
        BY <2>2, <2>4, TableSteps
      <3> HIDE DEF y
      <3>2. QED BY <1>1, <2>4, <3>1, GoGoes
    <2>5. QED BY <1>7, <2>3, <2>4
  <1>8. QED BY <1>1, <1>4, <1>6, <1>7, NeedCases, Either

LEMMA TreesGoes ==
  ASSUME s \in Streams, NEW g, Ready(z, g), Trees
  PROVE  Comes(z', pc', g)
  <1>1. pc = "inflate" /\ z.mode = "TREES" /\ Live(z) /\ Kept(z, g) /\ Place(z)
    BY DEF Trees, In, Live, Ready, Kept
  <1>2. CASE z.left = 0
    <2>1. PICK y : y = [z EXCEPT !.mode = "START"]
      OBVIOUS
    <2>2. Go(y)
      BY <1>2, <2>1 DEF Trees
    <2>3. DueAt(z).what = "code"
      BY <1>1, <1>2 DEF Place
    <2>4. PICK mode : mode = "START"
      OBVIOUS
    <2>5. Ready(y, g) /\ y.mode = "START"
      BY <1>1, <2>1, <2>3, <2>4, ModeSteps
    <2>6. QED BY <1>1, <2>2, <2>5, GoGoes
  <1>3. CASE z.left # 0
    <2>1. DueAt(z).what = "tree" /\ Ahead(z) = F
      BY <1>1, <1>3 DEF Place, Ahead, F
    <2>2. F.look \in Nat /\ F.look <= LitBits
      BY <1>1, <2>1, Lookup
    <2>3. Looks(g, F.look)
      BY <1>1, <2>1, <2>2 DEF Looks, Fastest
    <2>4. PICK x : x = Load(z, F.look)
      OBVIOUS
    <2> DEFINE y == Done([Drop(x, F.bits) EXCEPT !.left = @ - 1], "TREES")
    <2>5. \/ Astray
          \/ Want(z, F.look) > z.n /\ Return(Fetch(z, z.n))
          \/ /\ ~ (Want(z, F.look) > z.n)
             /\ \/ Bad(F) /\ Fail(x)
                \/ ~ Bad(F) /\ Go(y)
      BY <1>3, <2>4 DEF Trees, Need
    <2>6. ASSUME Want(z, F.look) <= z.n,
                 \/ Bad(F) /\ Fail(x)
                 \/ ~ Bad(F) /\ Go(y)
          PROVE  Comes(z', pc', g)
      <3>1. Has(x, g, F.look)
        BY <1>1, <2>3, <2>4, <2>6, NeedCases
      <3>2. /\ Ready(x, g) /\ x.mode = "TREES" /\ Ahead(x) = F /\ x.left # 0
            /\ Held(x) /\ x.i <= Len(s) /\ F.look <= x.k
        BY <1>1, <1>3, <2>2, <3>1, HeldFields DEF Has
      <3>3. CASE Bad(F) /\ Fail(x)
        BY <3>2, <3>3, FailGoes
      <3>4. CASE ~ Bad(F) /\ Go(y)
        <4>1. Ready(y, g) /\ y.mode = "TREES"
          BY <3>2, <3>4, TreesSteps
        <4> HIDE DEF y
        <4>2. QED BY <1>1, <3>4, <4>1, GoGoes
      <3>5. QED BY <2>6, <3>3, <3>4
    <2>7. QED BY <1>1, <2>3, <2>5, <2>6, NeedCases, Either
  <1>4. QED BY <1>2, <1>3

LEMMA LenCodeGoes ==
  ASSUME s \in Streams, NEW g, Ready(z, g), LenCode
  PROVE  Comes(z', pc', g)
  <1>1. pc = "inflate" /\ z.mode = "LEN" /\ Live(z) /\ Kept(z, g) /\ Place(z)
    BY DEF LenCode, In, Live, Ready, Kept
  <1>2. DueAt(z).what = "code" /\ Ahead(z) = F
    BY <1>1 DEF Place, Ahead, F
  <1>3. /\ F.look \in Nat /\ F.look <= LitBits /\ F.bits \in Nat /\ F.bits <= F.look
    BY <1>1, <1>2, Lookup
  <1>4. Looks(g, F.look)
    BY <1>1, <1>2, <1>3 DEF Looks, Fastest
  <1>5. PICK x : x = Load(z, F.look)
    OBVIOUS
  <1> DEFINE y == Drop(x, F.bits)
             C == \/ F.is = "lit" /\ Go(Done(y, "LIT"))
                  \/ F.is = "len" /\ Go([y EXCEPT !.mode = "LENEXT"])
                  \/ F.is = "eob" /\ Go(Done(y, "WASH"))
                  \/ F.is \notin {"lit", "len", "eob"} /\ Fail(y)
  <1>6. \/ Astray
        \/ Want(z, F.look) > z.n /\ Return(Fetch(z, z.n))
        \/ ~ (Want(z, F.look) > z.n) /\ C
    BY <1>5 DEF LenCode, Need
  <1>7. ASSUME Want(z, F.look) <= z.n, C
        PROVE  Comes(z', pc', g)
    <2>1. Has(x, g, F.look)
      BY <1>1, <1>4, <1>5, <1>7, NeedCases
    <2>2. /\ Ready(x, g) /\ x.mode = "LEN" /\ Ahead(x) = F /\ Live(x) /\ DueAt(x).what = "code"
          /\ Held(x) /\ x.i <= Len(s) /\ F.look <= x.k /\ F.bits <= x.k
      BY <1>1, <1>2, <1>3, <2>1, HeldFields DEF Has
    <2>3. /\ F.is = "lit" => Ready(Done(y, "LIT"), g) /\ Done(y, "LIT").mode = "LIT"
          /\ F.is = "eob" => Ready(Done(y, "WASH"), g) /\ Done(y, "WASH").mode = "WASH"
      BY <2>2, LenSteps
    <2>4. CASE F.is = "lit" /\ Go(Done(y, "LIT"))
      BY <1>1, <2>3, <2>4, GoGoes
    <2>5. CASE F.is = "eob" /\ Go(Done(y, "WASH"))
      BY <1>1, <2>3, <2>5, GoGoes
    <2>6. CASE F.is = "len" /\ Go([y EXCEPT !.mode = "LENEXT"])
      <3>1. PICK mode : mode = "LENEXT"
        OBVIOUS
      <3>2. PICK v : v = [Drop(x, Ahead(x).bits) EXCEPT !.mode = mode]
        OBVIOUS
      <3>3. Ready(v, g) /\ v.mode = mode
        BY <2>2, <2>6, <3>1, <3>2, HalfWay
      <3>4. Go(v)
        BY <2>2, <2>6, <3>1, <3>2
      <3>5. QED BY <1>1, <3>1, <3>3, <3>4, GoGoes
    <2>7. CASE F.is \notin {"lit", "len", "eob"} /\ Fail(y)
      <3>1. Held(y) /\ y.i <= Len(s)
        BY <1>3, <2>2, DropFacts DEF Became
      <3>2. QED BY <2>7, <3>1, FailGoes
    <2>8. QED BY <1>7, <2>4, <2>5, <2>6, <2>7
  <1>8. QED BY <1>1, <1>4, <1>6, <1>7, NeedCases, Either

LEMMA LenExtGoes ==
  ASSUME s \in Streams, NEW g, Ready(z, g), LenExt
  PROVE  Comes(z', pc', g)
  <1>1. pc = "inflate" /\ z.mode = "LENEXT" /\ Live(z) /\ Kept(z, g) /\ Place(z)
    BY DEF LenExt, In, Live, Ready, Kept
  <1>2. DueAt(z).what = "code" /\ Ahead(z) = F /\ F.is = "len"
    BY <1>1 DEF Place, Ahead, F
  <1>3. F.extra \in Nat /\ F.extra <= LitBits
    BY <1>1, <1>2, Lookup DEF Bad
  <1>4. Looks(g, F.extra)
    BY <1>1, <1>2, <1>3 DEF Looks, Fastest
  <1>5. PICK x : x = Load(z, F.extra)
    OBVIOUS
  <1> DEFINE y == Done([Drop(x, F.extra) EXCEPT !.left = F.val], "DIST")
  <1>6. \/ Astray
        \/ Want(z, F.extra) > z.n /\ Return(Fetch(z, z.n))
        \/ ~ (Want(z, F.extra) > z.n) /\ Go(y)
    BY <1>5 DEF LenExt, Need
  <1>7. ASSUME Want(z, F.extra) <= z.n, Go(y)
        PROVE  Comes(z', pc', g)
    <2>1. Has(x, g, F.extra)
      BY <1>1, <1>4, <1>5, <1>7, NeedCases
    <2>2. /\ Ready(x, g) /\ x.mode = "LENEXT" /\ Ahead(x) = F /\ F.extra <= x.k
      BY <1>1, <1>2, <1>3, <2>1, HeldFields DEF Has
    <2>3. Ready(y, g) /\ y.mode = "DIST"
      BY <2>2, LenExtSteps
    <2> HIDE DEF y
    <2>4. QED BY <1>1, <1>7, <2>3, GoGoes
  <1>8. QED BY <1>1, <1>4, <1>6, <1>7, NeedCases, Either

LEMMA DistGoes ==
  ASSUME s \in Streams, NEW g, Ready(z, g), Dist
  PROVE  Comes(z', pc', g)
  <1>1. pc = "inflate" /\ z.mode = "DIST" /\ Live(z) /\ Kept(z, g) /\ Place(z)
    BY DEF Dist, In, Live, Ready, Kept
  <1>2. DueAt(z).what = "dist" /\ Ahead(z) = F /\ z.left \in 2 .. MaxLen
    BY <1>1 DEF Place, Ahead, F
  <1>3. /\ F.look \in Nat /\ F.look <= LitBits /\ F.bits \in Nat /\ F.bits <= F.look
        /\ Bad(F) \/ F.is = "dist"
    BY <1>1, <1>2, Lookup
  <1>4. Looks(g, F.look)
    BY <1>1, <1>2, <1>3 DEF Looks, Fastest
  <1>5. PICK x : x = Load(z, F.look)
    OBVIOUS
  <1> DEFINE y == Drop(x, F.bits)
  <1>6. \/ Astray
        \/ Want(z, F.look) > z.n /\ Return(Fetch(z, z.n))
        \/ /\ ~ (Want(z, F.look) > z.n)
           /\ \/ Bad(F) /\ Fail(y)
              \/ ~ Bad(F) /\ Go([y EXCEPT !.mode = "DISTEXT"])
    BY <1>5 DEF Dist, Need
  <1>7. ASSUME Want(z, F.look) <= z.n,
               \/ Bad(F) /\ Fail(y)
               \/ ~ Bad(F) /\ Go([y EXCEPT !.mode = "DISTEXT"])
        PROVE  Comes(z', pc', g)
    <2>1. Has(x, g, F.look)
      BY <1>1, <1>4, <1>5, <1>7, NeedCases
    <2>2. /\ Ready(x, g) /\ x.mode = "DIST" /\ Ahead(x) = F /\ Live(x) /\ DueAt(x).what = "dist"
          /\ Held(x) /\ x.i <= Len(s) /\ F.bits <= x.k /\ x.left \in 2 .. MaxLen
      BY <1>1, <1>2, <1>3, <2>1, HeldFields DEF Has
    <2>3. CASE Bad(F) /\ Fail(y)
      <3>1. Held(y) /\ y.i <= Len(s)
        BY <1>3, <2>2, DropFacts DEF Became
      <3>2. QED BY <2>3, <3>1, FailGoes
    <2>4. CASE ~ Bad(F) /\ Go([y EXCEPT !.mode = "DISTEXT"])
      <3>1. PICK mode : mode = "DISTEXT"
        OBVIOUS
      <3>2. PICK v : v = [Drop(x, Ahead(x).bits) EXCEPT !.mode = mode]
        OBVIOUS
      <3>3. Ready(v, g) /\ v.mode = mode
        BY <1>3, <2>2, <2>4, <3>1, <3>2, HalfWay
      <3>4. Go(v)
        BY <2>2, <2>4, <3>1, <3>2
      <3>5. QED BY <1>1, <3>1, <3>3, <3>4, GoGoes
    <2>5. QED BY <1>7, <2>3, <2>4
  <1>8. QED BY <1>1, <1>4, <1>6, <1>7, NeedCases, Either

LEMMA DistExtGoes ==
  ASSUME s \in Streams, NEW g, Ready(z, g), DistExt
  PROVE  Comes(z', pc', g)
  <1>1. pc = "inflate" /\ z.mode = "DISTEXT" /\ Live(z) /\ Kept(z, g) /\ Place(z)
    BY DEF DistExt, In, Live, Ready, Kept
  <1>2. DueAt(z).what = "dist" /\ Ahead(z) = F /\ F.is = "dist"
    BY <1>1 DEF Place, Ahead, F
  <1>3. F.extra \in Nat /\ F.extra <= LitBits
    BY <1>1, <1>2, Lookup DEF Bad
  <1>4. Looks(g, F.extra)
    BY <1>1, <1>2, <1>3 DEF Looks, Fastest
  <1>5. PICK x : x = Load(z, F.extra)
    OBVIOUS
  <1> DEFINE y == Done([Drop(x, F.extra) EXCEPT !.dist = F.val], "COPY")
  <1>6. \/ Astray
        \/ Want(z, F.extra) > z.n /\ Return(Fetch(z, z.n))
        \/ ~ (Want(z, F.extra) > z.n) /\ Go(y)
    BY <1>5 DEF DistExt, Need
  <1>7. ASSUME Want(z, F.extra) <= z.n, Go(y)
        PROVE  Comes(z', pc', g)
    <2>1. Has(x, g, F.extra)
      BY <1>1, <1>4, <1>5, <1>7, NeedCases
    <2>2. /\ Ready(x, g) /\ x.mode = "DISTEXT" /\ Ahead(x) = F /\ F.extra <= x.k
      BY <1>1, <1>2, <1>3, <2>1, HeldFields DEF Has
    <2>3. Ready(y, g) /\ y.mode = "COPY"
      BY <2>2, DistExtSteps
    <2> HIDE DEF y
    <2>4. QED BY <1>1, <1>7, <2>3, GoGoes
  <1>8. QED BY <1>1, <1>4, <1>6, <1>7, NeedCases, Either

-----------------------------------------------------------------------------
(***************************************************************************)
(* The modes that write, and the end.                                      *)
(***************************************************************************)
Set(x, r, mode) == [x EXCEPT !.r = r, !.mode = mode]

LEMMA SetFacts ==
  ASSUME NEW x, Held(x), NEW r, r \in {"BUF", "OK", "END", "DATA"}, NEW mode, mode \in Modes
  PROVE  LET y == Set(x, r, mode) IN
         /\ Held(y) /\ At1(x, y) /\ y.k = x.k /\ y.i = x.i /\ y.n0 = x.n0
         /\ y.left = x.left /\ y.dist = x.dist /\ y.last = x.last
         /\ y.win = x.win /\ y.read = x.read /\ y.write = x.write /\ y.out = x.out
         /\ y.r = r /\ y.mode = mode
  BY DEF Set, Held, Decoders, At1

\* Nothing is read or decoded, and the mode changes.
LEMMA SetReady ==
  ASSUME NEW g, NEW x, Kept(x, g), Live(x), x.mode \notin {"LENS", "LENEXT", "DISTEXT"},
         NEW r, r \in {"OK", "END", "DATA"},
         NEW mode, mode \in {"START", "WASH", "DRY", "TYPE", "COPY"}
  PROVE  LET y == Set(x, r, mode) IN
         /\ Place(y) => Ready(y, g)
         /\ DueAt(y) = DueAt(x) /\ y.mode = mode /\ y.last = x.last /\ y.i = x.i
         /\ y.dist = x.dist
  <1>1. PICK y : y = Set(x, r, mode)
    OBVIOUS
  <1>2. Held(x) /\ mode \in Modes
    BY DEF Kept, Modes
  <1>3. /\ Held(y) /\ At1(x, y) /\ y.k = x.k /\ y.i = x.i
        /\ y.left = x.left /\ y.dist = x.dist /\ y.last = x.last
        /\ y.r = r /\ y.mode = mode
    BY <1>1, <1>2, SetFacts
  <1>4. y.i <= Len(s) /\ Amounts(y, g) /\ DueAt(y) = DueAt(x)
    BY <1>3, Recast
  <1>5. Place(y) => Ready(y, g)
    BY <1>3, <1>4 DEF Ready, Kept, Quick
  <1>6. QED BY <1>1, <1>3, <1>4, <1>5

LEMMA EndReady ==
  ASSUME NEW g, NEW x, Ready(x, g), NEW y, y = [x EXCEPT !.mode = "DONE", !.r = "END"]
  PROVE  Ready(y, g) /\ y.mode = "DONE"
  <1>1. Held(x) /\ x.i <= Len(s)
    BY DEF Ready, Kept
  <1>2. /\ y.mode = "DONE" /\ y.r = "END" /\ y.out = x.out /\ y.i = x.i /\ y \in Decoders
    BY <1>1 DEF Held, Decoders, Modes
  <1>3. QED BY <1>1, <1>2 DEF Ready, Kept, Held, Live

LEMMA AfterEndGoes ==
  ASSUME NEW g, Ready(z, g), AfterEnd
  PROVE  Comes(z', pc', g)
  <1>1. Held(z) /\ z.i <= Len(s) /\ z.mode = "DONE" /\ pc' = "check"
        /\ z' = [z EXCEPT !.r = "END"]
    BY DEF AfterEnd, In, Ready, Kept
  <1>2. PICK y : y = z'
    OBVIOUS
  <1>3. /\ y.mode = "DONE" /\ y.r = "END" /\ y.out = z.out /\ y.i = z.i /\ y \in Decoders
    BY <1>1, <1>2 DEF Held, Decoders
  <1>4. Ready(y, g)
    BY <1>1, <1>3 DEF Ready, Kept, Held, Live
  <1>5. QED BY <1>1, <1>2, <1>3, <1>4 DEF Comes, Live

LEMMA DryGoes ==
  ASSUME NEW g, Ready(z, g), Dry
  PROVE  Comes(z', pc', g)
  <1>1. z.mode = "DRY"
    BY DEF Dry, In
  <1>2. PICK y : y = Flush(z)
    OBVIOUS
  <1>3. /\ Ready(y, g) /\ CoreOf(z, y)
        /\ y.read # y.write => Len(y.out) = BufSize
    BY <1>1, <1>2, FlushReady DEF Fastest
  <1>4. y.mode = "DRY"
    BY <1>1, <1>3 DEF CoreOf
  <1>5. CASE y.read # y.write /\ Return(y)
    <2>1. Len(Flush(y).out) = BufSize
      BY <1>3, <1>4, <1>5, FlushReady DEF Fastest
    <2>2. QED BY <1>3, <1>4, <1>5, <2>1, ReturnGoes DEF Fastest
  <1>6. CASE Return([y EXCEPT !.mode = "DONE", !.r = "END"])
    <2>1. PICK v : v = [y EXCEPT !.mode = "DONE", !.r = "END"]
      OBVIOUS
    <2>2. Ready(v, g) /\ v.mode = "DONE" /\ Return(v)
      BY <1>3, <1>6, <2>1, EndReady
    <2>3. QED BY <2>2, ReturnGoes DEF Fastest, Live
  <1>7. QED BY <1>2, <1>5, <1>6 DEF Dry

LEMMA StartGoes ==
  ASSUME s \in Streams, NEW g, Ready(z, g), StartCodes
  PROVE  Comes(z', pc', g)
  <1>1. pc = "inflate" /\ z.mode = "START" /\ Live(z) /\ Kept(z, g) /\ Place(z)
    BY DEF StartCodes, In, Live, Ready, Kept
  <1>2. DueAt(z).what = "code"
    BY <1>1 DEF Place
  <1>3. CASE Ample(z)
    <2>1. PICK y : y = [z EXCEPT !.mode = "FAST", !.n0 = z.n]
      OBVIOUS
    <2>2. Ready(y, g) /\ y.mode = "FAST"
      BY <1>1, <1>3, <2>1, Starts
    <2>3. Go(y)
      BY <1>3, <2>1 DEF StartCodes
    <2>4. QED BY <1>1, <2>2, <2>3, GoGoes
  <1>4. CASE ~ Ample(z)
    <2>1. PICK y : y = [z EXCEPT !.mode = "LEN"]
      OBVIOUS
    <2>2. PICK mode : mode = "LEN"
      OBVIOUS
    <2>3. Ready(y, g) /\ y.mode = "LEN"
      BY <1>1, <1>2, <2>1, <2>2, ModeSteps
    <2>4. Go(y)
      BY <1>4, <2>1 DEF StartCodes
    <2>5. QED BY <1>1, <2>3, <2>4, GoGoes
  <1>5. QED BY <1>3, <1>4

LEMMA CopyGoes ==
  ASSUME s \in Streams, NEW g, Ready(z, g), Copy
  PROVE  Comes(z', pc', g)
  <1>1. pc = "inflate" /\ z.mode = "COPY" /\ Live(z) /\ Kept(z, g) /\ Place(z) /\ Held(z)
    BY DEF Copy, In, Live, Ready, Kept
  <1>2. DueAt(z).what = "code" /\ z.dist \in 1 .. End
    BY <1>1 DEF Place
  <1>3. PICK x : x = MakeRoom(z)
    OBVIOUS
  <1>4. /\ Ready(x, g) /\ CoreOf(z, x) /\ Held(x)
        /\ Room(x) = 0 => Len(x.out) = BufSize
        /\ Room(x) # 0 => x.write < End
    BY <1>1, <1>3, RoomReady DEF Fastest
  <1>5. x.mode = "COPY" /\ x.left = z.left /\ x.dist = z.dist
    BY <1>1, <1>4 DEF CoreOf
  <1>6. \/ z.left = 0 /\ Go([z EXCEPT !.mode = "START"])
        \/ z.left # 0 /\ Room(x) = 0 /\ Return(x)
        \/ z.left # 0 /\ Room(x) # 0
             /\ Go([Put(x, x.win[(x.write - x.dist + End) % End]) EXCEPT !.left = @ - 1])
    BY <1>3 DEF Copy
  <1>7. CASE z.left = 0 /\ Go([z EXCEPT !.mode = "START"])
    <2>1. PICK y : y = [z EXCEPT !.mode = "START"]
      OBVIOUS
    <2>2. PICK mode : mode = "START"
      OBVIOUS
    <2>3. Ready(y, g) /\ y.mode = "START"
      BY <1>1, <1>2, <2>1, <2>2, ModeSteps
    <2>4. QED BY <1>1, <1>7, <2>1, <2>3, GoGoes
  <1>8. CASE z.left # 0 /\ Room(x) = 0 /\ Return(x)
    <2>1. Len(Flush(x).out) = BufSize
      BY <1>4, <1>5, <1>8, FlushReady DEF Fastest
    <2>2. QED BY <1>4, <1>5, <1>8, <2>1, ReturnGoes DEF Fastest
  <1>9. CASE z.left # 0 /\ Room(x) # 0
               /\ Go([Put(x, x.win[(x.write - x.dist + End) % End]) EXCEPT !.left = @ - 1])
    <2>1. PICK val : val = x.win[(x.write - x.dist + End) % End]
      OBVIOUS
    <2>2. val \in Nat
      <3>1. x.write - x.dist + End \in Nat /\ End \in Nat /\ End > 0 /\ x.win \in [0 .. End - 1 -> Nat]
        BY <1>2, <1>4, <1>5, HeldFields, Sizes, SMTT(30) DEF Cells
      <3>2. (x.write - x.dist + End) % End \in 0 .. End - 1
        BY <3>1
      <3>3. QED BY <2>1, <3>1, <3>2
    <2>3. PICK u : u = Put(x, val)
      OBVIOUS
    <2>4. /\ Held(u) /\ Core(u) = Core(x) /\ u.r = x.r /\ u.out = x.out
      BY <1>4, <1>9, <2>2, <2>3, PutFacts
    <2>5. CoreOf(x, u)
      BY <2>4, CoreIs
    <2>6. Kept(u, g) /\ Live(u) /\ u.mode = "COPY" /\ u.left = z.left /\ u.left # 0 /\ DueAt(u) = DueAt(x)
      BY <1>4, <1>5, <1>9, <2>4, <2>5, CoreKept DEF Ready, CoreOf, Live
    <2>7. PICK y : y = [u EXCEPT !.left = @ - 1]
      OBVIOUS
    <2>8. y = Stepped(u, u.k, u.i, u.mode, u.left - 1, u.dist, u.last)
      BY <2>4, <2>7 DEF Stepped, Held, Decoders
    <2>9. Suits(u.k, u.i, u.mode, u.left - 1, u.dist, u.last)
      BY <2>4, <2>6, HeldFields DEF Suits
    <2>10. Became(u, y, u.k, u.i, u.mode, u.left - 1, u.dist, u.last)
      BY <2>4, <2>8, <2>9, SetStepped
    <2>11. /\ Held(y) /\ At1(u, y) /\ Rest(u, y) /\ y.k = u.k /\ y.i = u.i /\ y.mode = u.mode
           /\ y.dist = u.dist /\ y.last = u.last
      BY <2>10 DEF Became
    <2>12. y.i <= Len(s) /\ Amounts(y, g) /\ DueAt(y) = DueAt(u)
      BY <2>6, <2>11, Recast
    <2>13. Place(y)
      BY <2>6, <2>11, <2>12 DEF Place, Kept
    <2>14. Ready(y, g)
      BY <1>4, <2>4, <2>6, <2>11, <2>12, <2>13 DEF Ready, Kept, Quick, Rest
    <2>15. y.mode = "COPY" /\ Go(y)
      BY <1>9, <2>1, <2>3, <2>6, <2>7, <2>11
    <2>16. QED BY <1>1, <2>14, <2>15, GoGoes
  <1>10. QED BY <1>6, <1>7, <1>8, <1>9

LEMMA LitGoes ==
  ASSUME s \in Streams, NEW g, Ready(z, g), Lit
  PROVE  Comes(z', pc', g)
  <1>1. pc = "inflate" /\ z.mode = "LIT" /\ Live(z) /\ Kept(z, g) /\ Place(z) /\ Held(z)
    BY DEF Lit, In, Live, Ready, Kept
  <1>2. DueAt(z).what = "code" /\ z.i >= 1
    BY <1>1 DEF Place
  <1>3. PICK x : x = MakeRoom(z)
    OBVIOUS
  <1>4. /\ Ready(x, g) /\ CoreOf(z, x) /\ Held(x)
        /\ Room(x) = 0 => Len(x.out) = BufSize
        /\ Room(x) # 0 => x.write < End
    BY <1>1, <1>3, RoomReady DEF Fastest
  <1>5. x.mode = "LIT"
    BY <1>1, <1>4 DEF CoreOf
  <1>6. \/ Room(x) = 0 /\ Return(x)
        \/ Room(x) # 0 /\ Go([Put(x, s[z.i].val) EXCEPT !.r = "OK", !.mode = "START"])
    BY <1>3 DEF Lit
  <1>7. CASE Room(x) = 0 /\ Return(x)
    <2>1. Len(Flush(x).out) = BufSize
      BY <1>4, <1>5, <1>7, FlushReady DEF Fastest
    <2>2. QED BY <1>4, <1>5, <1>7, <2>1, ReturnGoes DEF Fastest
  <1>8. CASE Room(x) # 0 /\ Go([Put(x, s[z.i].val) EXCEPT !.r = "OK", !.mode = "START"])
    <2>1. PICK val : val = s[z.i].val
      OBVIOUS
    <2>2. val \in Nat
      <3>1. z.i \in 1 .. Len(s)
        BY <1>1, <1>2, HeldFields, StreamTypes DEF Kept
      <3>2. QED BY <2>1, <3>1, StreamTypes, FieldFacts
    <2>3. PICK u : u = Put(x, val)
      OBVIOUS
    <2>4. Held(u) /\ Core(u) = Core(x)
      BY <1>4, <1>8, <2>2, <2>3, PutFacts
    <2>5. CoreOf(x, u)
      BY <2>4, CoreIs
    <2>6. Kept(u, g) /\ Live(u) /\ u.mode = "LIT" /\ DueAt(u) = DueAt(x) /\ Place(u)
      BY <1>4, <1>5, <2>4, <2>5, CoreKept DEF Ready, CoreOf, Live, Kept
    <2>7. PICK r, mode : r = "OK" /\ mode = "START"
      OBVIOUS
    <2>8. PICK y : y = Set(u, r, mode)
      OBVIOUS
    <2>9. /\ Place(y) => Ready(y, g)
          /\ DueAt(y) = DueAt(u) /\ y.mode = mode /\ y.last = u.last
      BY <2>6, <2>7, <2>8, SetReady
    <2>10. Place(y)
      BY <2>6, <2>7, <2>9 DEF Place
    <2>11. Go(y)
      BY <1>8, <2>1, <2>3, <2>7, <2>8 DEF Set
    <2>12. QED BY <1>1, <2>7, <2>9, <2>10, <2>11, GoGoes
  <1>9. QED BY <1>6, <1>7, <1>8

LEMMA WashGoes ==
  ASSUME s \in Streams, NEW g, Ready(z, g), Wash
  PROVE  Comes(z', pc', g)
  <1>1. pc = "inflate" /\ z.mode = "WASH" /\ Live(z) /\ Kept(z, g) /\ Place(z) /\ Held(z)
        /\ Amounts(z, g)
    BY DEF Wash, In, Live, Ready, Kept
  <1>2. PICK x : x = IF z.k >= Byte
             THEN [z EXCEPT !.k = @ - Byte, !.n = @ + 1, !.idx = @ - 1]
             ELSE z
    OBVIOUS
  <1>3. Ready(x, g) /\ x.mode = "WASH"
    <2>1. CASE z.k >= Byte
      <3>1. /\ z \in Decoders /\ z.n + 1 \in Int /\ z.idx - 1 \in Int /\ z.k - Byte \in Int
            /\ Byte \in Nat
        BY <1>1, HeldFields, Sizes DEF Held
      <3>2. PICK p \in Int, q \in Int, e \in Int :
              p = z.n + 1 /\ q = z.idx - 1 /\ e = z.k - Byte
        BY <3>1
      <3>3. x = [z EXCEPT !.k = e, !.n = p, !.idx = q]
        BY <1>2, <2>1, <3>2
      <3>4. /\ x \in Decoders /\ x.mode = "WASH" /\ x.r = z.r
            /\ x.base = z.base /\ x.idx = z.idx - 1 /\ x.n = z.n + 1 /\ x.k = z.k - Byte
            /\ x.i = z.i /\ x.left = z.left /\ x.dist = z.dist /\ x.last = z.last
            /\ x.win = z.win /\ x.read = z.read /\ x.write = z.write /\ x.out = z.out
            /\ x.n0 = z.n0
        BY <1>1, <3>1, <3>2, <3>3 DEF Decoders
      <3>5. PICK c \in Nat : c = 1
        OBVIOUS
      <3>6. c * Byte = Byte
        BY <3>1, <3>5
      <3>7. BackBy(z, x, c) /\ c * Byte <= z.k
        BY <2>1, <3>4, <3>5, <3>6 DEF BackBy
      <3>8. Amounts(x, g)
        BY <1>1, <3>4, <3>7, BackAmounts
      <3>9. Held(x) /\ x.i <= Len(s)
        BY <1>1, <3>4 DEF Held, Kept
      <3>10. Place(x)
        BY <1>1, <3>4 DEF Place, DueAt
      <3>11. QED BY <3>4, <3>8, <3>9, <3>10 DEF Ready, Kept, Quick
    <2>2. CASE ~ (z.k >= Byte)
      BY <1>1, <1>2, <2>2
    <2>3. QED BY <2>1, <2>2
  <1>4. PICK y : y = Flush(x)
    OBVIOUS
  <1>5. /\ Ready(y, g) /\ CoreOf(x, y)
        /\ y.read # y.write => Len(y.out) = BufSize
    BY <1>3, <1>4, FlushReady DEF Fastest
  <1>6. y.mode = "WASH"
    BY <1>3, <1>5 DEF CoreOf
  <1>7. \/ y.read # y.write /\ Return(y)
        \/ Go([y EXCEPT !.r = "OK", !.mode = NextBlock(y)])
    BY <1>2, <1>4 DEF Wash
  <1>8. CASE y.read # y.write /\ Return(y)
    <2>1. Len(Flush(y).out) = BufSize
      BY <1>5, <1>6, <1>8, FlushReady DEF Fastest
    <2>2. QED BY <1>5, <1>6, <1>8, <2>1, ReturnGoes DEF Fastest
  <1>9. CASE Go([y EXCEPT !.r = "OK", !.mode = NextBlock(y)])
    <2>1. PICK r, mode : r = "OK" /\ mode = NextBlock(y)
      OBVIOUS
    <2>2. mode \in {"DRY", "TYPE"} /\ (mode = "DRY" <=> y.last)
      BY <2>1 DEF NextBlock
    <2>3. PICK v : v = Set(y, r, mode)
      OBVIOUS
    <2>4. Kept(y, g) /\ Live(y) /\ Place(y) /\ Held(y)
      BY <1>5, <1>6 DEF Ready, Kept, Live
    <2>5. /\ Place(v) => Ready(v, g)
          /\ DueAt(v) = DueAt(y) /\ v.mode = mode /\ v.last = y.last
      BY <1>6, <2>1, <2>2, <2>3, <2>4, SetReady
    <2>6. DueAt(y).what = (IF y.last THEN "end" ELSE "block") /\ DueAt(y).last = y.last
      BY <1>6, <2>4 DEF Place
    <2>7. Place(v)
      BY <2>2, <2>5, <2>6 DEF Place
    <2>8. Go(v)
      BY <1>9, <2>1, <2>3 DEF Set
    <2>9. v.mode # "BAD"
      BY <2>2, <2>5
    <2>10. QED BY <1>1, <2>5, <2>7, <2>8, <2>9, GoGoes
  <1>10. QED BY <1>7, <1>8, <1>9

-----------------------------------------------------------------------------
(***************************************************************************)
(* The fast path.                                                          *)
(***************************************************************************)
LEMMA OnGoes ==
  ASSUME NEW g, NEW x, Held(x), x.i <= Len(s), x.mode = "FAST", Place(x), Amounts(x, g),
         x.n <= x.n0, x.r = "BUF" => x.out = <<>>, On(x), pc = "inflate"
  PROVE  Comes(z', pc', g)
  <1>1. PICK v : v = [x EXCEPT !.mode = "FAST"]
    OBVIOUS
  <1>2. PICK u : u = GiveBack(x)
    OBVIOUS
  <1>3. PICK w : w = [u EXCEPT !.mode = "LEN", !.r = "OK"]
    OBVIOUS
  <1>4. (Ample(x) => Ready(v, g)) /\ Ready(w, g)
    BY <1>1, <1>2, <1>3, OnSteps
  <1>5. Held(u)
    BY <1>2, GiveBackFacts
  <1>6. v.mode = "FAST" /\ w.mode = "LEN"
    BY <1>1, <1>3, <1>5 DEF Held, Decoders
  <1>7. (Ample(x) /\ Go(v)) \/ Go(w)
    BY <1>1, <1>2, <1>3 DEF On
  <1>8. QED BY <1>4, <1>6, <1>7, GoGoes

LEMMA BackFails ==
  ASSUME NEW g, NEW x, Held(x), x.i <= Len(s), Fail(GiveBack(x))
  PROVE  Comes(z', pc', g)
  <1>1. PICK u : u = GiveBack(x)
    OBVIOUS
  <1>2. Held(u) /\ u.i = x.i
    BY <1>1, GiveBackFacts
  <1>3. QED BY <1>1, <1>2, FailGoes

LEMMA RoomWrite ==
  ASSUME NEW x, Held(x), Room(x) >= MaxLen
  PROVE  x.write + MaxLen <= End /\ x.write < End
  BY HeldFields, Sizes DEF Room

\* The bits that the fast path takes at once.
LEMMA FastTakes ==
  ASSUME s \in Streams, NEW g, NEW x, Kept(x, g), x.mode = "FAST", x.k >= LitBits
  PROVE  LET f == Ahead(x)
             b == f.bits + f.extra
         IN  /\ b \in Nat /\ f.val \in Nat /\ DueAt(x).what = "code" /\ Live(x)
             /\ Bad(f) \/ (f.is \in {"lit", "len", "eob"} /\ b <= x.k
                             /\ (f.is = "len" => f.val \in 2 .. MaxLen))
             /\ DueAt(x).last = x.last
             /\ f.is = "len" => After(DueAt(x), f) = Due("dist", 0, x.last)
             /\ f.is = "lit" => After(DueAt(x), f) = Due("code", 0, x.last)
             /\ f.is = "eob" => After(DueAt(x), f) = EndOfBlock(x.last)
             /\ Begun(x) = 0
  <1>1. DueAt(x).what = "code" /\ Live(x) /\ DueAt(x).last = x.last /\ Begun(x) = 0
    BY DEF Kept, Live, Place, Begun
  <1>2. PICK f : f = Ahead(x)
    OBVIOUS
  <1>3. PICK d : d = DueAt(x)
    OBVIOUS
  <1>4. PICK o : o = Out[s][x.i + 1]
    OBVIOUS
  <1>5. /\ d \in States /\ f \in Fields /\ Fits(d, f, o) /\ d.what = "code"
        /\ f.bits \in Nat /\ f.look \in Nat /\ f.extra \in Nat /\ f.val \in Nat
        /\ x.k \in Nat
    BY <1>1, <1>2, <1>3, <1>4, FacingKept
  <1>6. \/ Bad(f)
        \/ /\ f.is \in {"lit", "len", "eob"}
           /\ f.bits + f.extra <= LitBits
           /\ (f.is = "len" => f.val \in 2 .. MaxLen)
    BY <1>5, FitsIs
  <1>7. /\ f.is = "len" => After(d, f) = Due("dist", 0, d.last)
        /\ f.is = "lit" => After(d, f) = Due("code", 0, d.last)
        /\ f.is = "eob" => After(d, f) = EndOfBlock(d.last)
    BY <1>5, AfterIs
  <1>8. f.bits + f.extra \in Nat /\ (f.bits + f.extra <= LitBits => f.bits + f.extra <= x.k)
    BY <1>5, Sizes
  <1>9. QED BY <1>1, <1>2, <1>3, <1>5, <1>6, <1>7, <1>8

LEMMA FastGoes ==
  ASSUME s \in Streams, NEW g, Ready(z, g), Fast
  PROVE  Comes(z', pc', g)
  <1>1. pc = "inflate" /\ z.mode = "FAST" /\ Live(z) /\ Kept(z, g)
    BY DEF Fast, In, Live, Ready, Kept
  <1>2. PICK l : l = Load(z, LitBits)
    OBVIOUS
  <1>3. /\ Kept(l, g) /\ Held(l) /\ l.k >= LitBits
        /\ l.n >= FastIn - InBytes(LitBits) /\ l.n <= l.n0
        /\ l.i = z.i /\ l.mode = "FAST"
        /\ (l.r = "BUF" => l.out = <<>>)
        /\ Room(l) >= MaxLen
    BY <1>1, <1>2, FastLoads
  <1>4. Ahead(l) = F /\ l.i <= Len(s) /\ Place(l) /\ Live(l)
    BY <1>3 DEF Ahead, F, Kept, Live
  <1>5. PICK b : b = F.bits + F.extra
    OBVIOUS
  <1>6. /\ b \in Nat /\ F.val \in Nat /\ DueAt(l).what = "code"
        /\ Bad(F) \/ (F.is \in {"lit", "len", "eob"} /\ b <= l.k
                         /\ (F.is = "len" => F.val \in 2 .. MaxLen))
        /\ DueAt(l).last = l.last
        /\ F.is = "len" => After(DueAt(l), F) = Due("dist", 0, l.last)
        /\ F.is = "lit" => After(DueAt(l), F) = Due("code", 0, l.last)
        /\ F.is = "eob" => After(DueAt(l), F) = EndOfBlock(l.last)
        /\ Begun(l) = 0
    BY <1>3, <1>4, <1>5, FastTakes
  <1>7. PICK x : x = Drop(l, b)
    OBVIOUS
  <1>8. Became(l, x, l.k - b, l.i, l.mode, l.left, l.dist, l.last)
    BY <1>3, <1>6, <1>7, DropFacts
  <1>9. /\ Held(x) /\ At1(l, x) /\ Rest(l, x) /\ x.k = l.k - b /\ x.i = l.i /\ x.mode = l.mode
        /\ x.left = l.left /\ x.dist = l.dist /\ x.last = l.last
    BY <1>8 DEF Became
  <1>10. \/ F.is = "lit" /\ On(Done(Put(x, F.val), "FAST"))
         \/ F.is = "len" /\ Go(Done([x EXCEPT !.left = F.val], "FASTDIST"))
         \/ F.is = "eob" /\ Go([Done(GiveBack(x), "WASH") EXCEPT !.r = "END"])
         \/ F.is \notin {"lit", "len", "eob"} /\ Fail(GiveBack(x))
    BY <1>2, <1>5, <1>7 DEF Fast
  \* What comes of l when the field is taken.
  <1>11. ASSUME ~ Bad(F), NEW y, Held(y), At1(l, y), y.i = l.i + 1, y.k = l.k - b,
                y.mode \notin {"STORED", "LENS", "LENEXT", "DISTEXT"}
         PROVE  y.i <= Len(s) /\ Amounts(y, g) /\ DueAt(y) = After(DueAt(l), F)
    <2>1. b <= l.k /\ F.is # "stored"
      BY <1>6, <1>11 DEF Bad
    <2>2. l.k < LitBits + Byte /\ l.k \in Int
      BY <1>3, <1>4, HeldFields DEF Kept, Amounts
    <2>3. y.k < LitBits + Byte
      BY <1>6, <1>11, <2>2, Sizes
    <2>4. Begun(l) + b = F.bits + F.extra
      BY <1>5, <1>6
    <2>5. QED BY <1>3, <1>4, <1>6, <1>11, <2>1, <2>3, <2>4, Advance
  <1>12. CASE F.is = "lit" /\ On(Done(Put(x, F.val), "FAST"))
    <2>0. PICK val : val = F.val
      OBVIOUS
    <2>1. PICK u : u = Put(x, val)
      OBVIOUS
    <2>2. x.write < End
      BY <1>3, <1>9, RoomWrite DEF Rest
    <2>3. Held(u) /\ Core(u) = Core(x) /\ u.r = x.r /\ u.out = x.out
      BY <1>6, <1>9, <2>0, <2>1, <2>2, PutFacts
    <2>4. CoreOf(x, u)
      BY <2>3, CoreIs
    <2>5. PICK mode : mode = "FAST" /\ mode \in Modes
      BY DEF Modes
    <2>6. PICK y : y = Done(u, mode)
      OBVIOUS
    <2>7. Became(u, y, u.k, u.i + 1, mode, u.left, u.dist, u.last)
      BY <2>3, <2>5, <2>6, DoneFacts
    <2>8. /\ Held(y) /\ At1(u, y) /\ Rest(u, y) /\ y.k = u.k /\ y.i = u.i + 1 /\ y.mode = "FAST"
          /\ y.last = u.last
      BY <2>5, <2>7 DEF Became
    <2>9. At1(l, y) /\ y.i = l.i + 1 /\ y.k = l.k - b /\ y.last = l.last /\ y.n0 = l.n0
          /\ y.r = l.r /\ y.out = l.out /\ y.n = l.n
      BY <1>9, <2>3, <2>4, <2>8 DEF At1, CoreOf, Rest
    <2>10. y.i <= Len(s) /\ Amounts(y, g) /\ DueAt(y) = Due("code", 0, l.last)
      BY <1>6, <1>11, <1>12, <2>8, <2>9 DEF Bad
    <2>11. Place(y)
      BY <2>8, <2>9, <2>10, DueFields DEF Place
    <2>12. y.n <= y.n0 /\ (y.r = "BUF" => y.out = <<>>) /\ On(y)
      BY <1>3, <1>12, <2>0, <2>1, <2>5, <2>6, <2>9
    <2>13. QED BY <1>1, <2>8, <2>10, <2>11, <2>12, OnGoes
  <1>13. CASE F.is = "len" /\ Go(Done([x EXCEPT !.left = F.val], "FASTDIST"))
    <2>1. PICK mode, left : mode = "FASTDIST" /\ left = F.val
      OBVIOUS
    <2>2. PICK y : y = Stepped(l, l.k - b, l.i + 1, mode, left, l.dist, l.last)
      OBVIOUS
    <2>3. y = Done([x EXCEPT !.left = F.val], "FASTDIST")
      BY <1>3, <1>7, <2>1, <2>2 DEF Stepped, Done, Drop, Held, Decoders
    <2>4. Suits(l.k - b, l.i + 1, mode, left, l.dist, l.last)
      BY <1>3, <1>6, <2>1, HeldFields DEF Suits, Modes
    <2>5. Became(l, y, l.k - b, l.i + 1, mode, left, l.dist, l.last)
      BY <1>3, <2>2, <2>4, SetStepped
    <2>6. /\ Held(y) /\ At1(l, y) /\ Rest(l, y) /\ y.k = l.k - b /\ y.i = l.i + 1
          /\ y.mode = "FASTDIST" /\ y.left = F.val /\ y.last = l.last
      BY <2>1, <2>5 DEF Became
    <2>7. y.i <= Len(s) /\ Amounts(y, g) /\ DueAt(y) = Due("dist", 0, l.last)
      BY <1>6, <1>11, <1>13, <2>6 DEF Bad
    <2>8. F.val \in 2 .. MaxLen
      BY <1>6, <1>13 DEF Bad
    <2>9. Place(y)
      BY <2>6, <2>7, <2>8, DueFields DEF Place
    <2>10. Quick(y)
      BY <1>3, <2>6 DEF Quick, At1, Rest, Room
    <2>11. Ready(y, g)
      BY <1>3, <2>6, <2>7, <2>9, <2>10 DEF Ready, Kept, Rest
    <2>12. QED BY <1>1, <1>13, <2>3, <2>6, <2>11, GoGoes
  <1>14. CASE F.is = "eob" /\ Go([Done(GiveBack(x), "WASH") EXCEPT !.r = "END"])
    <2>1. PICK u : u = GiveBack(x)
      OBVIOUS
    <2>2. x.k >= 0 /\ x.n <= x.n0 /\ x.k \in Int
      BY <1>3, <1>6, <1>9, <1>14, HeldFields, Sizes DEF At1, Rest, Bad
    <2>3. Held(u) /\ u.i = x.i /\ \E c \in Nat : BackBy(x, u, c) /\ c * Byte <= x.k
      BY <1>9, <2>1, <2>2, GiveBackFacts
    <2>4. PICK c \in Nat : BackBy(x, u, c) /\ c * Byte <= x.k
      BY <2>3
    <2>5. PICK mode : mode = "WASH" /\ mode \in Modes
      BY DEF Modes
    <2>6. PICK w : w = Done(x, mode)
      OBVIOUS
    <2>7. Became(x, w, x.k, x.i + 1, mode, x.left, x.dist, x.last)
      BY <1>9, <2>5, <2>6, DoneFacts
    <2>8. /\ Held(w) /\ At1(x, w) /\ Rest(x, w) /\ w.k = x.k /\ w.i = x.i + 1 /\ w.mode = "WASH"
          /\ w.left = x.left /\ w.dist = x.dist /\ w.last = x.last
      BY <2>5, <2>7 DEF Became
    <2>9. w.i <= Len(s) /\ Amounts(w, g) /\ DueAt(w) = EndOfBlock(l.last)
      <3>1. At1(l, w) /\ w.i = l.i + 1 /\ w.k = l.k - b
        BY <1>9, <2>8 DEF At1
      <3>2. QED BY <1>6, <1>11, <1>14, <2>8, <3>1 DEF Bad
    <2>10. PICK v : v = Done(u, mode)
      OBVIOUS
    <2>11. Became(u, v, u.k, u.i + 1, mode, u.left, u.dist, u.last)
      BY <2>3, <2>5, <2>10, DoneFacts
    <2>12. PICK r : r = "END"
      OBVIOUS
    <2>13. PICK y : y = [v EXCEPT !.r = r]
      OBVIOUS
    <2>14. Held(v) /\ v.mode = "WASH"
      BY <2>5, <2>11 DEF Became
    <2>15. y = Set(v, r, mode)
      BY <2>5, <2>13, <2>14 DEF Set, Held, Decoders
    <2>16. /\ Held(y) /\ At1(v, y) /\ y.k = v.k /\ y.i = v.i /\ y.n0 = v.n0
           /\ y.left = v.left /\ y.dist = v.dist /\ y.last = v.last
           /\ y.win = v.win /\ y.read = v.read /\ y.write = v.write /\ y.out = v.out
           /\ y.r = "END" /\ y.mode = "WASH"
      BY <2>5, <2>12, <2>14, <2>15, SetFacts
    <2>17. BackBy(w, y, c)
      BY <2>4, <2>8, <2>11, <2>16 DEF BackBy, Became, At1, Rest
    <2>18. Amounts(y, g)
      BY <2>4, <2>8, <2>9, <2>16, <2>17, BackAmounts
    <2>19. y.i = w.i /\ y.last = l.last
      BY <1>9, <2>8, <2>17 DEF BackBy
    <2>20. Place(y)
      <3>1. DueAt(y) = EndOfBlock(l.last)
        BY <2>9, <2>19 DEF DueAt
      <3>2. DueAt(y).what = (IF l.last THEN "end" ELSE "block") /\ DueAt(y).last = l.last
        BY <3>1, DueFields DEF EndOfBlock
      <3>3. QED BY <2>16, <2>19, <3>2 DEF Place
    <2>21. Ready(y, g)
      BY <2>9, <2>16, <2>18, <2>19, <2>20 DEF Ready, Kept, Quick
    <2>22. Go(y)
      BY <1>14, <2>1, <2>5, <2>10, <2>12, <2>13
    <2>23. QED BY <1>1, <2>16, <2>21, <2>22, GoGoes
  <1>15. CASE F.is \notin {"lit", "len", "eob"} /\ Fail(GiveBack(x))
    BY <1>4, <1>9, <1>15, BackFails
  <1>16. QED BY <1>10, <1>12, <1>13, <1>14, <1>15

\* What the fast path loads before a distance.
LEMMA DistLoads ==
  ASSUME s \in Streams, NEW g, NEW x, Ready(x, g), x.mode = "FASTDIST"
  PROVE  LET y == Load(x, DistBits) IN
         /\ Kept(y, g) /\ Held(y) /\ y.k >= DistBits
         /\ y.n >= FastIn - InBytes(LitBits) - InBytes(DistBits) /\ y.n <= y.n0
         /\ y.i = x.i /\ y.mode = x.mode /\ y.left = x.left /\ y.dist = x.dist
         /\ y.last = x.last /\ (y.r = "BUF" => y.out = <<>>)
         /\ Room(y) >= MaxLen
  <1> DEFINE y == Load(x, DistBits)
             w == Want(x, DistBits)
  <1>1. Kept(x, g) /\ Held(x) /\ Live(x) /\ Quick(x) /\ Amounts(x, g)
        /\ (x.r = "BUF" => x.out = <<>>)
    BY DEF Ready, Kept, Live
  <1>2. x.k \in Nat /\ x.n \in Nat /\ x.n0 \in Int
    BY <1>1, HeldFields DEF Amounts
  <1>3. w \in Nat /\ w <= InBytes(DistBits) /\ InBytes(DistBits) \in Nat
    <2>1. PICK b \in Nat : b = DistBits
      BY Sizes
    <2>2. QED BY <1>2, <2>1, WantFacts, InBytesFacts
  <1>4. x.n >= FastIn - InBytes(LitBits) /\ x.n <= x.n0 /\ Room(x) >= MaxLen
    BY <1>1 DEF Quick
  <1>5. w <= x.n /\ x.n - w >= FastIn - InBytes(LitBits) - InBytes(DistBits)
    <2>1. InBytes(LitBits) \in Nat
      BY Sizes, InBytesFacts
    <2>2. InBytes(LitBits) + InBytes(DistBits) <= FastIn
      BY SizeAssumption
    <2>3. QED BY <1>2, <1>3, <1>4, <2>1, <2>2, Sizes
  <1>6. Kept(y, g) /\ y.k >= DistBits
    BY <1>1, <1>5, Sizes, Loaded
  <1>7. y = Fetch(x, w)
    BY DEF Load
  <1> HIDE DEF w, y
  <1>8. /\ y.n = x.n - w /\ y.n0 = x.n0
        /\ y.i = x.i /\ y.mode = x.mode /\ y.left = x.left /\ y.dist = x.dist
        /\ y.last = x.last
        /\ y.out = x.out /\ y.read = x.read /\ y.write = x.write
        /\ y.r = (IF w = 0 THEN x.r ELSE "OK")
        /\ Held(y)
    BY <1>1, <1>3, <1>7, FetchFields
  <1>9. y.n <= y.n0
    BY <1>2, <1>3, <1>4, <1>8
  <1>10. Room(y) >= MaxLen
    BY <1>4, <1>8 DEF Room
  <1>11. QED BY <1>1, <1>5, <1>6, <1>8, <1>9, <1>10 DEF y

\* The field of a distance, in the fast path.
LEMMA DistTakes ==
  ASSUME s \in Streams, NEW g, NEW x, Kept(x, g), x.mode = "FASTDIST", x.k >= DistBits
  PROVE  LET f == Ahead(x)
         IN  /\ f.bits \in Nat /\ f.extra \in Nat
             /\ DueAt(x).what = "dist" /\ Live(x) /\ x.left \in 2 .. MaxLen
             /\ \/ Bad(f)
                \/ /\ f.is = "dist" /\ f.bits <= x.k /\ f.extra <= LitBits
                   /\ f.val \in 1 .. End
                   /\ InBytes(LitBits) + InBytes(DistBits) + InBytes(f.extra) <= FastIn
             /\ DueAt(x).last = x.last
             /\ f.is = "dist" => After(DueAt(x), f) = Due("code", 0, x.last)
  <1>1. DueAt(x).what = "dist" /\ Live(x) /\ DueAt(x).last = x.last /\ x.left \in 2 .. MaxLen
    BY DEF Kept, Live, Place
  <1>2. PICK f : f = Ahead(x)
    OBVIOUS
  <1>3. PICK d : d = DueAt(x)
    OBVIOUS
  <1>4. PICK o : o = Out[s][x.i + 1]
    OBVIOUS
  <1>5. /\ d \in States /\ f \in Fields /\ Fits(d, f, o) /\ d.what = "dist"
        /\ f.bits \in Nat /\ f.look \in Nat /\ f.extra \in Nat /\ f.val \in Nat
        /\ x.k \in Nat
    BY <1>1, <1>2, <1>3, <1>4, FacingKept
  <1>6. \/ Bad(f)
        \/ /\ f.is = "dist" /\ f.bits <= DistBits
           /\ f.extra <= LitBits
           /\ f.val \in 1 .. End
           /\ InBytes(LitBits) + InBytes(DistBits) + InBytes(f.extra) <= FastIn
    BY <1>5, FitsIs
  <1>7. f.is = "dist" => After(d, f) = Due("code", 0, d.last)
    BY <1>5, AfterIs
  <1>8. f.bits <= DistBits => f.bits <= x.k
    BY <1>2, <1>5, Sizes
  <1>9. QED BY <1>1, <1>2, <1>3, <1>5, <1>6, <1>7, <1>8

\* The two reads of a distance, its code and its extra bits: what is loaded
\* does not depend on the mode.
LEMMA DistReads ==
  ASSUME s \in Streams, NEW g, NEW l, Kept(l, g), Held(l), l.mode = "FASTDIST", Live(l),
         DueAt(l).what = "dist", NEW f, f = Ahead(l), f.is = "dist",
         l.left \in 2 .. MaxLen, f.bits \in Nat, f.extra \in Nat,
         f.bits <= l.k, f.extra <= LitBits,
         InBytes(f.extra) <= l.n,
         NEW y, y = Drop(Load(Drop(l, f.bits), f.extra), f.extra)
  PROVE  /\ Held(y) /\ y.mode = "FASTDIST" /\ y.i = l.i /\ y.left = l.left /\ y.last = l.last
         /\ y.n <= l.n /\ y.n0 = l.n0 /\ y.out = l.out /\ (y.r = "BUF" => l.r = "BUF")
         /\ y.read = l.read /\ y.write = l.write
         /\ \E h : /\ Kept(h, g) /\ Live(h) /\ h.mode = "DISTEXT" /\ h.i = l.i
                   /\ h.k >= f.extra /\ At1(h, y) /\ y.k = h.k - f.extra
                   /\ h.left = l.left
  <1>1. PICK x : x = Drop(l, f.bits)
    OBVIOUS
  <1>2. PICK mode : mode = "DISTEXT"
    OBVIOUS
  <1>3. PICK v : v = [Drop(l, Ahead(l).bits) EXCEPT !.mode = mode]
    OBVIOUS
  <1>4. /\ Kept(v, g) /\ Held(v) /\ At1(l, v) /\ Rest(l, v)
        /\ v.k = l.k - f.bits /\ v.i = l.i /\ v.mode = "DISTEXT" /\ v.left = l.left
        /\ v.last = l.last
    BY <1>2, <1>3, HalfKept, ZenonT(30)
  <1>5. Became(l, x, l.k - f.bits, l.i, l.mode, l.left, l.dist, l.last)
    BY <1>1, DropFacts
  <1>6. /\ Held(x) /\ At1(l, x) /\ Rest(l, x) /\ x.k = l.k - f.bits /\ x.i = l.i
        /\ x.mode = l.mode /\ x.left = l.left /\ x.dist = l.dist /\ x.last = l.last
    BY <1>5 DEF Became
  <1>7. PICK e \in Nat : e = f.extra
    OBVIOUS
  <1>8. PICK w : w = Want(x, e) /\ w = Want(v, e)
    BY <1>4, <1>6 DEF Want
  <1>9. l.n \in Nat /\ v.k \in Nat /\ l.k \in Int
    <2>1. Amounts(l, g)
      BY DEF Kept
    <2>2. l.n >= 0 /\ l.k >= f.bits
      BY <2>1 DEF Amounts
    <2>3. l.n \in Int /\ l.k \in Int /\ v.k \in Int
      BY <1>4, HeldFields
    <2>4. QED BY <1>4, <2>2, <2>3
  <1>10. w \in Nat /\ w <= InBytes(e) /\ InBytes(e) \in Nat
    BY <1>8, <1>9, WantFacts, InBytesFacts
  <1>11. w <= v.n /\ v.n = l.n /\ x.n = l.n
    BY <1>4, <1>6, <1>7, <1>9, <1>10 DEF At1
  <1>12. PICK h : h = Load(v, e)
    OBVIOUS
  <1>13. Kept(h, g) /\ h.k >= e
    <2>1. Live(v) /\ v.mode # "STORED" /\ v.mode # "LENS"
      BY <1>4 DEF Live
    <2>2. QED BY <1>4, <1>7, <1>8, <1>11, <1>12, <2>1, Loaded
  <1>14. h = Fetch(v, w)
    BY <1>8, <1>12 DEF Load
  <1>15. PICK u : u = Fetch(x, w)
    OBVIOUS
  <1>16. u = Load(x, e)
    BY <1>8, <1>15 DEF Load
  <1>17. /\ h.idx = v.idx + w /\ h.n = v.n - w /\ h.k = v.k + w * Byte
         /\ h.base = v.base /\ h.i = v.i /\ h.mode = v.mode /\ h.left = v.left
    BY <1>4, <1>10, <1>14, FetchFields, ZenonT(30)
  <1>18. /\ u.idx = x.idx + w /\ u.n = x.n - w /\ u.k = x.k + w * Byte
         /\ u.base = x.base /\ u.n0 = x.n0
         /\ u.i = x.i /\ u.mode = x.mode /\ u.left = x.left
         /\ u.last = x.last /\ u.out = x.out /\ u.read = x.read /\ u.write = x.write
         /\ u.r = (IF w = 0 THEN x.r ELSE "OK")
         /\ Held(u)
    <2>1. Held(x) /\ w \in Nat
      BY <1>6, <1>10
    <2>2. LET y1 == Fetch(x, w) IN
         /\ y1.idx = x.idx + w /\ y1.n = x.n - w /\ y1.k = x.k + w * Byte
         /\ y1.base = x.base /\ y1.n0 = x.n0
         /\ y1.i = x.i /\ y1.mode = x.mode /\ y1.left = x.left /\ y1.dist = x.dist
         /\ y1.last = x.last /\ y1.win = x.win
         /\ y1.out = x.out /\ y1.read = x.read /\ y1.write = x.write
         /\ y1.r = (IF w = 0 THEN x.r ELSE "OK")
         /\ Held(y1)
      BY <2>1, FetchFields
    <2>3. QED BY <1>15, <2>2
  <1>19. Became(u, y, u.k - e, u.i, u.mode, u.left, u.dist, u.last)
    BY <1>1, <1>7, <1>16, <1>18, DropFacts
  <1>20. /\ Held(y) /\ At1(u, y) /\ Rest(u, y) /\ y.k = u.k - e /\ y.i = u.i
         /\ y.mode = u.mode /\ y.left = u.left /\ y.last = u.last
    BY <1>19 DEF Became
  <1>21. At1(h, y) /\ y.k = h.k - f.extra
    BY <1>4, <1>6, <1>7, <1>17, <1>18, <1>20 DEF At1
  <1>22. y.n <= l.n /\ y.n0 = l.n0 /\ y.out = l.out /\ (y.r = "BUF" => l.r = "BUF")
         /\ y.read = l.read /\ y.write = l.write
    BY <1>6, <1>9, <1>10, <1>11, <1>18, <1>20 DEF At1, Rest
  <1>23. Live(h) /\ h.mode = "DISTEXT" /\ h.i = l.i /\ h.left = l.left /\ h.k >= f.extra
    BY <1>4, <1>7, <1>13, <1>17 DEF Live
  <1>24. y.mode = "FASTDIST" /\ y.i = l.i /\ y.left = l.left /\ y.last = l.last
    BY <1>6, <1>18, <1>20
  <1>25. QED BY <1>13, <1>20, <1>21, <1>22, <1>23, <1>24

LEMMA FastDistGoes ==
  ASSUME s \in Streams, NEW g, Ready(z, g), FastDist
  PROVE  Comes(z', pc', g)
  <1>1. pc = "inflate" /\ z.mode = "FASTDIST" /\ Live(z) /\ Kept(z, g)
    BY DEF FastDist, In, Live, Ready, Kept
  <1>2. PICK l : l = Load(z, DistBits)
    OBVIOUS
  <1>3. /\ Kept(l, g) /\ Held(l) /\ l.k >= DistBits
        /\ l.n >= FastIn - InBytes(LitBits) - InBytes(DistBits) /\ l.n <= l.n0
        /\ l.i = z.i /\ l.mode = "FASTDIST" /\ l.left = z.left
        /\ (l.r = "BUF" => l.out = <<>>)
        /\ Room(l) >= MaxLen
    BY <1>1, <1>2, DistLoads
  <1>4. PICK f : f = Ahead(l)
    OBVIOUS
  <1>5. f = F /\ l.i <= Len(s)
    BY <1>3, <1>4 DEF Ahead, F, Kept
  <1>6. /\ f.bits \in Nat /\ f.extra \in Nat
        /\ DueAt(l).what = "dist" /\ Live(l) /\ l.left \in 2 .. MaxLen
        /\ \/ Bad(f)
           \/ /\ f.is = "dist" /\ f.bits <= l.k /\ f.extra <= LitBits
              /\ f.val \in 1 .. End
              /\ InBytes(LitBits) + InBytes(DistBits) + InBytes(f.extra) <= FastIn
        /\ f.is = "dist" => After(DueAt(l), f) = Due("code", 0, l.last)
    BY <1>3, <1>4, DistTakes
  <1>7. PICK x : x = Drop(l, f.bits)
    OBVIOUS
  <1>8. Held(x) /\ x.i = l.i
    BY <1>3, <1>6, <1>7, DropFacts DEF Became
  <1>9. PICK y : y = Drop(Load(x, f.extra), f.extra)
    OBVIOUS
  <1>10. \/ Bad(f) /\ Fail(GiveBack(x))
         \/ ~ Bad(f) /\ On(Done(FastCopy(y, f.val, z.left), "FAST"))
    BY <1>2, <1>5, <1>7, <1>9 DEF FastDist
  <1>11. CASE Bad(f) /\ Fail(GiveBack(x))
    BY <1>5, <1>8, <1>11, BackFails
  <1>12. CASE ~ Bad(f) /\ On(Done(FastCopy(y, f.val, z.left), "FAST"))
    <2>1. InBytes(f.extra) <= l.n
      <3>1. InBytes(f.extra) \in Int /\ InBytes(LitBits) \in Int /\ InBytes(DistBits) \in Int
        BY <1>6, Sizes, InBytesFacts
      <3>2. l.n \in Int
        BY <1>3, HeldFields
      <3>3. QED BY <1>3, <1>6, <1>12, <3>1, <3>2, Sizes, SMTT(30)
    <2>2. /\ Held(y) /\ y.mode = "FASTDIST" /\ y.i = l.i /\ y.left = l.left /\ y.last = l.last
          /\ y.n <= l.n /\ y.n0 = l.n0 /\ y.out = l.out /\ (y.r = "BUF" => l.r = "BUF")
          /\ y.read = l.read /\ y.write = l.write
          /\ \E h : /\ Kept(h, g) /\ Live(h) /\ h.mode = "DISTEXT" /\ h.i = l.i
                    /\ h.k >= f.extra /\ At1(h, y) /\ y.k = h.k - f.extra
                    /\ h.left = l.left
      BY <1>3, <1>4, <1>6, <1>7, <1>9, <1>12, <2>1, DistReads
    <2>3. PICK h : /\ Kept(h, g) /\ Live(h) /\ h.mode = "DISTEXT" /\ h.i = l.i
                   /\ h.k >= f.extra /\ At1(h, y) /\ y.k = h.k - f.extra
                   /\ h.left = l.left
      BY <2>2
    <2>4. PICK d \in 1 .. End, c \in Nat : d = f.val /\ c = z.left /\ c >= 2 /\ c <= MaxLen
      BY <1>3, <1>6, <1>12, Sizes
    <2>5. y.write + c <= End
      <3>1. Room(y) = Room(l)
        BY <2>2 DEF Room
      <3>2. y.write + MaxLen <= End
        BY <1>3, <2>2, <3>1, RoomWrite
      <3>3. QED BY <2>2, <2>4, <3>2, HeldFields, Sizes
    <2>6. PICK u : u = FastCopy(y, d, c)
      OBVIOUS
    <2>7. /\ Held(u) /\ Core(u) = Core(y) /\ u.r = y.r /\ u.out = y.out
      BY <2>2, <2>4, <2>5, <2>6, FastCopyFacts
    <2>8. CoreOf(y, u)
      BY <2>7, CoreIs
    <2>9. PICK mode : mode = "FAST" /\ mode \in Modes
      BY DEF Modes
    <2>10. PICK v : v = Done(u, mode)
      OBVIOUS
    <2>11. Became(u, v, u.k, u.i + 1, mode, u.left, u.dist, u.last)
      BY <2>7, <2>9, <2>10, DoneFacts
    <2>12. /\ Held(v) /\ At1(u, v) /\ Rest(u, v) /\ v.k = u.k /\ v.i = u.i + 1 /\ v.mode = "FAST"
           /\ v.last = u.last
      BY <2>9, <2>11 DEF Became
    <2>13. At1(h, v) /\ v.i = h.i + 1 /\ v.k = h.k - f.extra /\ v.last = l.last /\ v.n0 = l.n0
           /\ (v.r = "BUF" => l.r = "BUF") /\ v.out = l.out /\ v.n <= l.n
      BY <2>2, <2>3, <2>7, <2>8, <2>12 DEF At1, CoreOf, Rest
    <2>14. Ahead(h) = f /\ DueAt(h) = DueAt(l)
      BY <1>4, <2>3 DEF Ahead, DueAt
    <2>15. v.i <= Len(s) /\ Amounts(v, g) /\ DueAt(v) = Due("code", 0, l.last)
      <3>1. Begun(h) + f.extra = f.bits + f.extra
        BY <2>3, <2>14 DEF Begun
      <3>2. h.k < LitBits + Byte /\ h.k \in Int
        BY <2>3, HeldFields DEF Kept, Amounts
      <3>3. v.k < LitBits + Byte
        BY <1>6, <2>13, <3>2, Sizes
      <3>4. /\ DueAt(h).what \notin {"end", "nothing"} /\ f.is # "stored" /\ f.is = "dist"
            /\ v.mode # "STORED" /\ v.mode \notin {"LENS", "LENEXT", "DISTEXT"}
        BY <1>6, <1>12, <2>12, <2>14
      <3>5. PICK e \in Nat : e = f.extra
        BY <1>6
      <3>6. /\ v.i <= Len(s) /\ Amounts(v, g) /\ DueAt(v) = After(DueAt(h), f)
        BY <2>3, <2>12, <2>13, <2>14, <3>1, <3>3, <3>4, <3>5, Advance
      <3>7. QED BY <1>6, <2>14, <3>4, <3>6
    <2>16. Place(v)
      BY <2>12, <2>13, <2>15, DueFields DEF Place
    <2>17. v.n <= v.n0 /\ (v.r = "BUF" => v.out = <<>>)
      <3>1. v.n \in Int /\ l.n \in Int /\ l.n0 \in Int
        BY <1>3, <2>12, HeldFields
      <3>2. QED BY <1>3, <2>13, <3>1
    <2>18. On(v)
      BY <1>12, <2>4, <2>6, <2>9, <2>10
    <2>19. QED BY <1>1, <2>12, <2>15, <2>16, <2>17, <2>18, OnGoes
  <1>13. QED BY <1>10, <1>11, <1>12

-----------------------------------------------------------------------------
(***************************************************************************)
(* Stored blocks.                                                          *)
(***************************************************************************)
\* A byte of a stored block, and what is due behind it.
LEMMA ByteNext ==
  ASSUME s \in Streams, NEW j \in Nat, j >= 1, j <= Len(s) + 1, Dues[s][j].what = "byte"
  PROVE  /\ j <= Len(s) /\ s[j].val \in Nat
         /\ At[s][j + 1] = At[s][j] + Byte /\ At[s][j] \in Nat
         /\ LET d == Dues[s][j] IN
            Dues[s][j + 1] = IF d.left - 1 > 0 THEN Due("byte", d.left - 1, d.last)
                                               ELSE EndOfBlock(d.last)
  <1>1. Len(s) \in Nat /\ Dues[s][Len(s) + 1].what \in {"end", "nothing"}
    BY StreamTypes, StreamAssumption
  <1>2. j # Len(s) + 1
    BY <1>1
  <1>3. j \in 1 .. Len(s)
    BY <1>1, <1>2
  <1>4. PICK f, d, o : f = s[j] /\ d = Dues[s][j] /\ o = Out[s][j]
    OBVIOUS
  <1>5. /\ f \in Fields /\ d \in States /\ Fits(d, f, o)
        /\ Dues[s][j + 1] = After(d, f) /\ At[s][j + 1] = NextBit(At[s][j], f)
        /\ At[s][j] \in Nat
    <2>1. j \in 1 .. Len(s) + 1
      BY <1>1, <1>3
    <2>2. Fits(d, f, o)
      BY <1>3, <1>4, StreamAssumption
    <2>3. QED BY <1>3, <1>4, <2>1, <2>2, StreamTypes, DuesFacts, AtFacts
  <1>6. f.is = "byte" /\ f.bits = Byte /\ f.extra = 0 /\ f.val \in Nat
    BY <1>4, <1>5, FitsIs, FieldFacts
  <1>7. After(d, f) = IF d.left - 1 > 0 THEN Due("byte", d.left - 1, d.last)
                                        ELSE EndOfBlock(d.last)
    BY <1>4, <1>5, <1>6, AfterIs
  <1>8. NextBit(At[s][j], f) = At[s][j] + Byte
    BY <1>5, <1>6, Sizes DEF NextBit
  <1>9. QED BY <1>3, <1>4, <1>5, <1>6, <1>7, <1>8

\* After t of the bytes of a stored block, t of them at most those left.
Run(j, left, last, t) ==
  /\ j + t <= Len(s) + 1
  /\ Dues[s][j + t] = IF t < left THEN Due("byte", left - t, last) ELSE EndOfBlock(last)
  /\ At[s][j + t] = At[s][j] + t * Byte
  /\ \A u \in Nat : u < t => s[j + u].val \in Nat

LEMMA ByteRun ==
  ASSUME s \in Streams, NEW j \in Nat, j >= 1, j <= Len(s) + 1,
         NEW left \in Nat, left # 0, NEW last, Dues[s][j] = Due("byte", left, last)
  PROVE  \A t \in 0 .. left : Run(j, left, last, t)
  <1> DEFINE S == {i \in 1 .. left + 1 : Run(j, left, last, i - 1)}
  <1>0. Len(s) \in Nat /\ At[s][j] \in Nat
    BY StreamTypes, AtFacts
  <1>1. 1 \in S
    <2>1. j + 0 = j /\ 1 - 1 = 0 /\ left - 0 = left /\ 0 < left /\ 0 * Byte = 0
      BY Sizes
    <2>2. Run(j, left, last, 0)
      BY <1>0, <2>1 DEF Run
    <2>3. QED BY <2>1, <2>2
  <1>2. ASSUME NEW i \in 1 .. left + 1 - 1, i \in S PROVE i + 1 \in S
    <2>1. PICK t \in Nat : t = i - 1 /\ t < left
      BY <1>2
    <2>2. Run(j, left, last, t)
      BY <1>2, <2>1
    <2>3. PICK k \in Nat : k = j + t /\ k >= 1
      BY <2>1
    <2>4. /\ k <= Len(s) + 1 /\ Dues[s][k] = Due("byte", left - t, last)
          /\ At[s][k] = At[s][j] + t * Byte
          /\ \A u \in Nat : u < t => s[j + u].val \in Nat
      BY <2>1, <2>2, <2>3 DEF Run
    <2>5. Dues[s][k].what = "byte" /\ Dues[s][k].left = left - t /\ Dues[s][k].last = last
      BY <2>4, DueFields
    <2>6. /\ k <= Len(s) /\ s[k].val \in Nat
          /\ At[s][k + 1] = At[s][k] + Byte
          /\ Dues[s][k + 1] = IF left - t - 1 > 0 THEN Due("byte", left - t - 1, last)
                                                  ELSE EndOfBlock(last)
      BY <2>3, <2>4, <2>5, ByteNext
    <2>7. PICK v \in Nat : v = t + 1
      OBVIOUS
    <2>8. j + v = k + 1 /\ left - t - 1 = left - v /\ (left - t - 1 > 0 <=> v < left)
      BY <2>1, <2>3, <2>7
    <2>9. v * Byte = t * Byte + Byte /\ t * Byte \in Nat
      BY <2>7, Sizes
    <2>10. At[s][j + v] = At[s][j] + v * Byte
      <3>1. PICK a \in Nat, e \in Nat, p \in {v * Byte} :
                 a = At[s][j] /\ e = t * Byte /\ p = v * Byte
        BY <1>0, <2>9
      <3>2. p = e + Byte
        BY <2>9, <3>1
      <3>3. At[s][k] = a + e
        BY <2>4, <3>1
      <3>4. At[s][j + v] = At[s][k] + Byte
        BY <2>6, <2>8
      <3>5. a + p = (a + e) + Byte
        BY <3>2, Sizes
      <3>6. At[s][j + v] = a + p
        BY <3>3, <3>4, <3>5
      <3>7. QED BY <3>1, <3>6
    <2>11. \A u \in Nat : u < v => s[j + u].val \in Nat
      <3> SUFFICES ASSUME NEW u \in Nat, u < v PROVE s[j + u].val \in Nat
        OBVIOUS
      <3>1. CASE u < t
        BY <2>4, <3>1
      <3>2. CASE u = t
        BY <2>3, <2>6, <3>2
      <3>3. QED BY <2>7, <3>1, <3>2
    <2>12. Dues[s][j + v] = IF v < left THEN Due("byte", left - v, last) ELSE EndOfBlock(last)
      BY <2>6, <2>8
    <2>13. j + v <= Len(s) + 1
      BY <1>0, <2>3, <2>6, <2>7
    <2>14. Run(j, left, last, v)
      BY <2>10, <2>11, <2>12, <2>13 DEF Run
    <2>15. i + 1 - 1 = v /\ i + 1 \in 1 .. left + 1
      BY <1>2, <2>1, <2>7
    <2>16. QED BY <2>14, <2>15
  <1> HIDE DEF S
  <1>3. \A i \in 1 .. left + 1 : i \in S
    <2>1. PICK m \in Nat : m = left + 1
      OBVIOUS
    <2>2. QED BY <1>1, <1>2, <2>1, Chain
  <1>4. ASSUME NEW t \in 0 .. left PROVE Run(j, left, last, t)
    <2>1. t + 1 \in S /\ t + 1 - 1 = t
      BY <1>3
    <2>2. QED BY <2>1 DEF S
  <1>5. QED BY <1>4

LEMMA DueIs ==
  ASSUME NEW d \in States
  PROVE  d = Due(d.what, d.left, d.last) /\ d.left \in Nat /\ (d.what = "byte" => d.left >= 1)
  BY DEF States, Due

\* What a stored block's turn makes of the decoder.
Moved(x, w, q, a, b, i, left, mode) ==
  [x EXCEPT !.win = w, !.write = q, !.idx = a, !.n = b, !.i = i, !.left = left,
            !.r = "OK", !.mode = mode]

Fitting(w, q, a, b, i, left, mode) ==
  /\ w \in Cells /\ q \in 0 .. End /\ a \in Int /\ b \in Int /\ i \in Nat
  /\ left \in Nat /\ mode \in Modes

LEMMA SetMoved ==
  ASSUME NEW x, Held(x), NEW w, NEW q, NEW a, NEW b, NEW i, NEW left, NEW mode,
         Fitting(w, q, a, b, i, left, mode),
         NEW y, y = Moved(x, w, q, a, b, i, left, mode)
  PROVE  /\ y.win = w /\ y.write = q /\ y.idx = a /\ y.n = b /\ y.i = i /\ y.left = left
         /\ y.r = "OK" /\ y.mode = mode
         /\ y.base = x.base /\ y.n0 = x.n0 /\ y.k = x.k /\ y.dist = x.dist
         /\ y.last = x.last /\ y.read = x.read /\ y.out = x.out
         /\ Held(y)
  <1>1. x \in Decoders /\ Len(x.out) <= BufSize
    BY DEF Held
  <1>2. /\ y.win = w /\ y.write = q /\ y.idx = a /\ y.n = b /\ y.i = i /\ y.left = left
        /\ y.r = "OK" /\ y.mode = mode
        /\ y.base = x.base /\ y.n0 = x.n0 /\ y.k = x.k /\ y.dist = x.dist
        /\ y.last = x.last /\ y.read = x.read /\ y.out = x.out
        /\ y \in Decoders
    BY <1>1 DEF Moved, Decoders, Fitting
  <1>3. QED BY <1>1, <1>2 DEF Held

Takeover(x, t, mode, w, y) ==
  /\ mode = (IF x.left = t THEN NextBlock(x) ELSE x.mode)
  /\ w = [c \in DOMAIN x.win |->
            IF c \in x.write .. x.write + t - 1
              THEN s[x.i + 1 + c - x.write].val ELSE x.win[c]]
  /\ y = Moved(x, w, x.write + t, x.idx + t, x.n - t, x.i + t, x.left - t, mode)

\* t bytes of a stored block go straight from the chunk to the window.
LEMMA StoredSteps ==
  ASSUME s \in Streams, NEW g, NEW x, Ready(x, g), x.mode = "STORED",
         NEW t \in Nat, t <= x.left, t <= x.n, t <= Room(x), x.write + Room(x) <= End,
         NEW mode, NEW w, NEW y, Takeover(x, t, mode, w, y)
  PROVE  Ready(y, g) /\ y.mode # "BAD"
  <1>1. Held(x) /\ Kept(x, g) /\ Live(x) /\ Place(x) /\ Amounts(x, g) /\ x.i <= Len(s)
    BY DEF Ready, Kept, Live
  <1>2. PICK d : d = DueAt(x)
    OBVIOUS
  <1>3. d.what = "byte" /\ d.left = x.left /\ d.last = x.last /\ d \in States
    BY <1>1, <1>2, Places DEF Place
  <1>4. d = Due("byte", x.left, x.last) /\ x.left \in Nat /\ x.left # 0
    BY <1>3, DueIs
  <1>5. PICK j \in Nat, left \in Nat, last \in {x.last} :
          j = x.i + 1 /\ left = x.left /\ last = x.last
    BY <1>1, <1>4, HeldFields
  <1>6. Len(s) \in Nat /\ x.i \in Nat
    BY <1>1, HeldFields, StreamTypes
  <1>7. Run(j, left, last, t)
    <2>1. Dues[s][j] = Due("byte", left, last)
      BY <1>2, <1>4, <1>5 DEF DueAt
    <2>2. j >= 1 /\ j <= Len(s) + 1 /\ left # 0
      BY <1>1, <1>4, <1>5, <1>6
    <2>3. t \in 0 .. left
      BY <1>5
    <2>4. QED BY <2>1, <2>2, <2>3, ByteRun
  <1>8. /\ j + t <= Len(s) + 1
        /\ Dues[s][j + t] = IF t < left THEN Due("byte", left - t, last) ELSE EndOfBlock(last)
        /\ At[s][j + t] = At[s][j] + t * Byte
        /\ \A u \in Nat : u < t => s[j + u].val \in Nat
    BY <1>7 DEF Run
  <1>9. w \in Cells
    <2>1. x.win \in [0 .. End - 1 -> Nat] /\ x.write \in Nat /\ DOMAIN x.win = 0 .. End - 1
      BY <1>1, HeldFields DEF Cells
    <2>2. ASSUME NEW c \in 0 .. End - 1, c \in x.write .. x.write + t - 1
          PROVE  s[x.i + 1 + c - x.write].val \in Nat
      <3>1. PICK u \in Nat : u = c - x.write /\ u < t
        BY <2>1, <2>2
      <3>2. x.i + 1 + c - x.write = j + u
        BY <1>5, <1>6, <2>1, <2>2, <3>1
      <3>3. QED BY <1>8, <3>1, <3>2
    <2>3. w = [c \in 0 .. End - 1 |->
                       IF c \in x.write .. x.write + t - 1
                         THEN s[x.i + 1 + c - x.write].val ELSE x.win[c]]
      BY <2>1 DEF Takeover
    <2>4. \A c \in 0 .. End - 1 : (IF c \in x.write .. x.write + t - 1
                         THEN s[x.i + 1 + c - x.write].val ELSE x.win[c]) \in Nat
      BY <2>1, <2>2
    <2>5. w \in [0 .. End - 1 -> Nat]
      BY <2>3, <2>4
    <2>6. QED BY <2>5 DEF Cells
  <1>10. mode \in {"STORED", "TYPE", "DRY"}
         /\ (x.left = t => mode # "STORED" /\ (mode = "DRY" <=> x.last))
         /\ (x.left # t => mode = "STORED")
    BY DEF NextBlock, Takeover
  <1>11. /\ y.idx = x.idx + t /\ y.n = x.n - t /\ y.i = x.i + t
         /\ y.left = x.left - t /\ y.r = "OK" /\ y.mode = mode
         /\ y.base = x.base /\ y.k = x.k /\ y.last = x.last
         /\ Held(y)
    <2>1. PICK q, a, b, i, e : /\ q = x.write + t /\ a = x.idx + t /\ b = x.n - t
                               /\ i = x.i + t /\ e = x.left - t
      OBVIOUS
    <2>2. q \in 0 .. End
      <3>1. Room(x) \in Nat /\ x.write \in Nat /\ End \in Nat
        BY <1>1, HeldFields, Sizes DEF Room
      <3>2. QED BY <2>1, <3>1
    <2>3. a \in Int /\ b \in Int /\ i \in Nat /\ e \in Nat
      <3>1. x.idx \in Int /\ x.n \in Int /\ x.i \in Nat /\ x.left \in Nat
        BY <1>1, HeldFields
      <3>2. a \in Int /\ b \in Int
        BY <2>1, <3>1
      <3>3. i \in Nat /\ e \in Nat
        BY <2>1, <3>1
      <3>4. QED BY <3>2, <3>3
    <2>4. mode \in Modes
      BY <1>10 DEF Modes
    <2>5. y = Moved(x, w, q, a, b, i, e, mode)
      BY <2>1 DEF Takeover
    <2>6. /\ y.idx = a /\ y.n = b /\ y.i = i /\ y.left = e /\ y.r = "OK" /\ y.mode = mode
          /\ y.base = x.base /\ y.k = x.k /\ y.last = x.last /\ Held(y)
      <3>1. Fitting(w, q, a, b, i, e, mode)
        BY <1>9, <2>2, <2>3, <2>4 DEF Fitting
      <3>2. QED BY <1>1, <2>5, <3>1, SetMoved
    <2>7. QED BY <2>1, <2>6
  <1>12. y.i + 1 = j + t /\ y.i <= Len(s)
    BY <1>5, <1>6, <1>8, <1>11
  <1>13. DueAt(y) = IF t < left THEN Due("byte", left - t, last) ELSE EndOfBlock(last)
    BY <1>8, <1>12 DEF DueAt
  <1>14. Place(y)
    <2>1. CASE t < left
      <3>1. DueAt(y).what = "byte" /\ DueAt(y).left = x.left - t /\ DueAt(y).last = x.last
        BY <1>5, <1>13, <2>1, DueFields
      <3>2. y.mode = "STORED"
        BY <1>5, <1>10, <1>11, <2>1
      <3>3. QED BY <1>11, <3>1, <3>2 DEF Place
    <2>2. CASE ~ (t < left)
      <3>1. DueAt(y).what = (IF x.last THEN "end" ELSE "block") /\ DueAt(y).last = x.last
        BY <1>5, <1>13, <2>2, DueFields DEF EndOfBlock
      <3>2. y.mode \in {"TYPE", "DRY"} /\ (y.mode = "DRY" <=> x.last)
        BY <1>5, <1>10, <1>11, <2>2
      <3>3. QED BY <1>11, <3>1, <3>2 DEF Place
    <2>3. QED BY <2>1, <2>2
  <1>15. Amounts(y, g)
    <2>1. x.k = 0 /\ x.n >= 0 /\ x.base + x.idx + x.n = g /\ Pos(x) = At[s][x.i + 1] + Begun(x)
      BY <1>1 DEF Amounts
    <2>2. Begun(x) = 0 /\ Begun(y) = 0
      BY <1>10, <1>11 DEF Begun
    <2>3. x.base \in Int /\ x.idx \in Int /\ x.n \in Int
      BY <1>1, HeldFields
    <2>4. PICK a \in Int : a = x.base + x.idx
      BY <2>3
    <2>5. y.base + y.idx = a + t
      BY <1>11, <2>3, <2>4
    <2>6. (a + t) * Byte = a * Byte + t * Byte /\ a * Byte \in Int /\ t * Byte \in Int
      BY Sizes
    <2>7. Pos(x) = a * Byte - 0 /\ Pos(y) = (a + t) * Byte - 0
      BY <1>11, <2>1, <2>4, <2>5 DEF Pos
    <2>8. At[s][j] \in Int
      BY <1>1, <1>5, Places
    <2>9. Pos(x) = At[s][j] /\ At[s][y.i + 1] = At[s][j] + t * Byte
      BY <1>5, <1>8, <1>12, <2>1, <2>2, <2>8
    <2>10. Pos(y) = At[s][y.i + 1] + Begun(y)
      <3>1. PICK p \in Int, e \in Int : p = a * Byte /\ e = t * Byte
        BY <2>6
      <3>2. Pos(y) = p + e /\ At[s][j] = p
        BY <2>6, <2>7, <2>9, <3>1
      <3>3. QED BY <2>2, <2>9, <3>1, <3>2
    <2>11. y.base + y.idx + y.n = g /\ y.n >= 0 /\ y.k = 0
      BY <1>11, <2>1, <2>3
    <2>12. y.k < LitBits + Byte /\ y.mode # "LENS"
      BY <1>10, <1>11, <2>11, Sizes
    <2>13. QED BY <2>10, <2>11, <2>12 DEF Amounts
  <1>16. QED BY <1>10, <1>11, <1>12, <1>14, <1>15 DEF Ready, Kept, Quick

LEMMA StoredGoes ==
  ASSUME s \in Streams, NEW g, Ready(z, g), Stored
  PROVE  Comes(z', pc', g)
  <1>1. pc = "inflate" /\ z.mode = "STORED" /\ Live(z) /\ Kept(z, g) /\ Held(z) /\ z.n \in Nat
        /\ z.left \in Nat
    BY HeldFields DEF Stored, In, Live, Ready, Kept, Amounts
  <1>2. PICK x : x = MakeRoom(z)
    OBVIOUS
  <1>3. /\ Ready(x, g) /\ CoreOf(z, x) /\ x.win = z.win /\ Held(x)
        /\ Room(x) = 0 => Len(x.out) = BufSize
        /\ Room(x) \in Nat /\ x.write + Room(x) <= End
    BY <1>1, <1>2, RoomReady DEF Fastest
  <1>4. /\ x.mode = "STORED" /\ x.left = z.left /\ x.n = z.n /\ x.i = z.i /\ x.idx = z.idx
    BY <1>1, <1>3 DEF CoreOf
  <1>5. PICK t : t = Min({z.left, z.n, Room(x)})
    OBVIOUS
  <1>6. PICK mode : mode = IF x.left = t THEN NextBlock(x) ELSE x.mode
    OBVIOUS
  <1>7. PICK w : w = [c \in DOMAIN x.win |->
                       IF c \in x.write .. x.write + t - 1
                         THEN s[x.i + 1 + c - x.write].val ELSE x.win[c]]
    OBVIOUS
  <1>8. PICK y : y = Moved(x, w, x.write + t, x.idx + t, x.n - t, x.i + t, x.left - t, mode)
    OBVIOUS
  <1>9. \/ z.n = 0 /\ Return(z)
        \/ Room(x) = 0 /\ Return(x)
        \/ Astray
        \/ Go(y)
    <2>1. [x EXCEPT
              !.win   = [c \in DOMAIN @ |->
                           IF c \in x.write .. x.write + t - 1
                             THEN s[z.i + 1 + c - x.write].val ELSE @[c]],
              !.write = @ + t, !.idx = @ + t, !.n = @ - t, !.i = @ + t,
              !.left  = @ - t, !.r = "OK",
              !.mode  = IF x.left = t THEN NextBlock(x) ELSE @] = y
      BY <1>3, <1>4, <1>6, <1>7, <1>8 DEF Moved, Held, Decoders
    <2>2. QED BY <1>2, <1>5, <2>1 DEF Stored
  <1>10. CASE z.n = 0 /\ Return(z)
    BY <1>1, <1>10, ReturnGoes DEF Fastest
  <1>11. CASE Room(x) = 0 /\ Return(x)
    <2>1. Len(Flush(x).out) = BufSize
      BY <1>3, <1>4, <1>11, FlushReady DEF Fastest
    <2>2. QED BY <1>3, <1>4, <1>11, <2>1, ReturnGoes DEF Fastest
  <1>12. CASE Astray
    BY <1>1, <1>12, AstrayGoes
  <1>13. CASE Go(y)
    <2>1. t \in Nat /\ t <= x.left /\ t <= x.n /\ t <= Room(x)
      <3>1. PICK a \in Nat, b \in Nat, c \in Nat : a = z.left /\ b = z.n /\ c = Room(x)
        BY <1>1, <1>3
      <3>2. t = Min({a, b, c})
        BY <1>5, <3>1
      <3>3. t \in {a, b, c} /\ t <= a /\ t <= b /\ t <= c
        <4>1. PICK m \in {a, b, c} : m <= a /\ m <= b /\ m <= c
          OBVIOUS
        <4>2. m \in {a, b, c} /\ \A e \in {a, b, c} : m <= e
          BY <4>1
        <4>3. \A e \in {a, b, c} : (\A v \in {a, b, c} : e <= v) => e = m
          BY <4>1, <4>2
        <4>4. Min({a, b, c}) = CHOOSE e \in {a, b, c} : \A v \in {a, b, c} : e <= v
          BY DEF Min
        <4>5. Min({a, b, c}) = m
          BY <4>2, <4>3, <4>4
        <4>6. QED BY <3>2, <4>1, <4>5
      <3>4. QED BY <1>4, <3>1, <3>3
    <2>2. Takeover(x, t, mode, w, y)
      BY <1>6, <1>7, <1>8 DEF Takeover
    <2>a. Ready(y, g) /\ y.mode # "BAD"
      BY <1>3, <1>4, <2>1, <2>2, StoredSteps
    <2>3. QED BY <1>1, <1>13, <2>a, GoGoes
  <1>14. QED BY <1>9, <1>10, <1>11, <1>12, <1>13

-----------------------------------------------------------------------------
(***************************************************************************)
(* The invariant.                                                          *)
(***************************************************************************)
LEMMA DecodeGoes ==
  ASSUME s \in Streams, NEW g, Ready(z, g), Decode
  PROVE  Comes(z', pc', g)
  BY TypeGoes, LensGoes, StoredGoes, TableGoes, TreesGoes, DryGoes, AfterEndGoes,
     StartGoes, LenCodeGoes, LenExtGoes, DistGoes, DistExtGoes, CopyGoes, LitGoes,
     WashGoes, FastGoes, FastDistGoes
  DEF Decode

PCs == {"step", "reading", "loop", "inflate", "check", "answered", "thrown", "astray",
        "flushing", "ended", "failed"}

Typed ==
  /\ s \in Streams /\ pc \in PCs /\ chunk \in Chunks
  /\ given \in Nat /\ size \in Nat /\ nomore \in BOOLEAN

\* Where the input of the chunk is used up, and what follows an error.
Feeding ==
  /\ z.mode = "BAD" => pc \in {"check", "thrown"} /\ z.r = "DATA"
  /\ pc = "check" /\ Live(z) => z.n = 0 \/ Len(z.out) = BufSize
  /\ pc \notin {"loop", "inflate", "check", "astray", "thrown"} /\ Live(z) => z.n = 0
  /\ pc \in {"loop", "inflate", "check"} => size >= 1
  /\ pc = "reading" => given < Bytes(s)

IInv == Typed /\ Ready(z, given) /\ Feeding

\* What is Ready depends on no variable but s.
LEMMA SameStream ==
  ASSUME s' = s, Ready(z', given')
  PROVE  Ready(z, given)'
  BY DEF Ready, Kept, Place, Amounts, Quick, DueAt, Ahead, Pos, Begun, Live, Held, Fastest, Room

\* The fast path runs with input to spare.
LEMMA FastHasInput ==
  ASSUME NEW g, NEW x, Ready(x, g), Live(x), x.n = 0
  PROVE  x.mode \notin Fastest
  <1>1. PICK a \in Nat, b \in Nat : a = InBytes(LitBits) /\ b = InBytes(DistBits)
    BY Sizes, InBytesFacts
  <1>2. a # 0 /\ b # 0
    <2>1. LitBits <= a * Byte /\ DistBits <= b * Byte
      BY <1>1, Sizes, InBytesFacts
    <2>2. LitBits > 0 /\ DistBits > 0 /\ LitBits \in Nat /\ DistBits \in Nat /\ Byte \in Nat
      BY SizeAssumption
    <2>3. 0 * Byte = 0
      BY Sizes
    <2>4. QED BY <2>1, <2>2, <2>3
  <1>3. a + b <= FastIn /\ FastIn \in Nat
    BY <1>1, SizeAssumption
  <1>4. Quick(x)
    BY DEF Ready
  <1>5. x.mode # "FAST"
    BY <1>2, <1>3, <1>4 DEF Quick
  <1>6. x.mode # "FASTDIST"
    BY <1>1, <1>2, <1>3, <1>4 DEF Quick
  <1>7. QED BY <1>5, <1>6 DEF Fastest

LEMMA StartReady ==
  ASSUME s \in Streams
  PROVE  Ready(Start, 0)
  <1>1. PICK x : x = Start
    OBVIOUS
  <1>2. [c \in 0 .. End - 1 |-> 0] \in Cells
    BY DEF Cells
  <1>3. 0 \in 0 .. End - 1 /\ 0 \in 0 .. End
    BY Sizes
  <1>4. Start \in Decoders
    BY <1>2, <1>3 DEF Start, Decoders, Modes
  <1>5. /\ x.base = 0 /\ x.idx = 0 /\ x.n = 0 /\ x.k = 0 /\ x.i = 0 /\ x.mode = "TYPE"
        /\ x.left = 0 /\ x.last = FALSE /\ x.out = <<>> /\ x.r = "BUF"
    BY <1>1 DEF Start
  <1>6. Held(x)
    BY <1>1, <1>4, <1>5, Sizes DEF Held
  <1>7. x.i <= Len(s) /\ x.i + 1 = 1
    BY <1>5, StreamTypes
  <1>8. Dues[s][1] = Due("block", 0, FALSE) /\ At[s][1] = 0
    BY DuesFacts, AtFacts
  <1>9. DueAt(x).what = "block" /\ DueAt(x).last = FALSE
    <2>1. DueAt(x) = Due("block", 0, FALSE)
      BY <1>7, <1>8 DEF DueAt
    <2>2. QED BY <2>1 DEF Due
  <1>10. Place(x)
    BY <1>5, <1>9 DEF Place
  <1>11. Pos(x) = 0
    <2>1. Pos(x) = (0 + 0) * Byte - 0
      BY <1>5 DEF Pos
    <2>2. QED BY <2>1, Sizes
  <1>12. Amounts(x, 0)
    BY <1>5, <1>7, <1>8, <1>11, Sizes DEF Amounts, Begun
  <1>13. QED BY <1>1, <1>5, <1>6, <1>7, <1>10, <1>12 DEF Ready, Kept, Quick, Fastest

LEMMA InitHolds ==
  Init => IInv
  <1> SUFFICES ASSUME Init PROVE IInv
    OBVIOUS
  <1>1. s \in Streams /\ z = Start /\ pc = "step" /\ chunk \in Chunks /\ given = 0 /\ size = 0
        /\ nomore = FALSE
    BY DEF Init
  <1>2. Ready(z, given)
    BY <1>1, StartReady
  <1>3. z.mode = "TYPE" /\ z.n = 0
    BY <1>1 DEF Start
  <1>4. QED BY <1>1, <1>2, <1>3 DEF IInv, Typed, Feeding, PCs

LEMMA DecodeKeeps ==
  ASSUME IInv, Decode
  PROVE  IInv'
  <1>1. s \in Streams /\ Ready(z, given)
    BY DEF IInv, Typed
  <1>2. Comes(z', pc', given)
    BY <1>1, DecodeGoes
  <1>3. UNCHANGED Fed /\ pc = "inflate"
    BY DEF Decode, Type, Lens, Stored, Table, Trees, Dry, AfterEnd, StartCodes, LenCode,
           LenExt, Dist, DistExt, Copy, Lit, Wash, Fast, FastDist, In
  <1>4. s' = s /\ chunk' = chunk /\ given' = given /\ size' = size /\ nomore' = nomore
    BY <1>3 DEF Fed
  <1>5. Ready(z, given)'
    BY <1>2, <1>4, SameStream DEF Comes
  <1>6. Typed'
    BY <1>2, <1>4 DEF IInv, Typed, PCs, Comes
  <1>7. Feeding'
    BY <1>2, <1>3, <1>4 DEF IInv, Feeding, Comes, Live
  <1>8. QED BY <1>5, <1>6, <1>7 DEF IInv

\* A turn of the loop of append(), which may leave index and base.
Rebased(x, base, idx) == [x EXCEPT !.out = <<>>, !.r = "BUF", !.base = base, !.idx = idx]

LEMMA RebasedReady ==
  ASSUME NEW g, NEW x, Ready(x, g), NEW base, NEW idx, base \in Int, idx \in Int,
         base + idx = x.base + x.idx, NEW y, y = Rebased(x, base, idx)
  PROVE  Ready(y, g) /\ y.mode = x.mode /\ y.n = x.n
  <1>1. x \in Decoders /\ Held(x) /\ Kept(x, g) /\ (Live(x) => Quick(x))
    BY DEF Ready, Kept, Held
  <1>2. /\ y.out = <<>> /\ y.r = "BUF" /\ y.base = base /\ y.idx = idx
        /\ y.n = x.n /\ y.n0 = x.n0 /\ y.k = x.k /\ y.i = x.i /\ y.mode = x.mode
        /\ y.left = x.left /\ y.dist = x.dist /\ y.last = x.last /\ y.win = x.win
        /\ y.read = x.read /\ y.write = x.write
        /\ y \in Decoders
    <2>0. <<>> \in Seq(Nat)
      OBVIOUS
    <2>1. PICK o : o = <<>> /\ o \in Seq(Nat)
      BY <2>0
    <2>2. y = [x EXCEPT !.out = o, !.r = "BUF", !.base = base, !.idx = idx]
      BY <2>1 DEF Rebased
    <2>3. QED BY <1>1, <2>1, <2>2, ZenonT(30) DEF Decoders
  <1>3. Held(y)
    BY <1>2, Sizes DEF Held
  <1>4. Place(x) => Place(y)
    BY <1>2 DEF Place, DueAt, Ahead
  <1>5. Amounts(x, g) => Amounts(y, g)
    <2>1. Pos(y) = Pos(x)
      BY <1>2 DEF Pos
    <2>2. Begun(y) = Begun(x) /\ Ahead(y) = Ahead(x)
      BY <1>2 DEF Begun, Ahead
    <2>3. x.n \in Int
      BY <1>1, HeldFields
    <2>4. QED BY <1>2, <2>1, <2>2, <2>3 DEF Amounts
  <1>6. Quick(x) => Quick(y)
    BY <1>2 DEF Quick, Room
  <1>7. QED BY <1>1, <1>2, <1>3, <1>4, <1>5, <1>6 DEF Ready, Kept, Live

LEMMA TurnKeeps ==
  ASSUME IInv, Turn
  PROVE  IInv'
  <1>1. /\ s \in Streams /\ Ready(z, given) /\ Held(z) /\ pc = "loop" /\ pc' = "inflate"
        /\ s' = s /\ chunk' = chunk /\ given' = given /\ size' = size
    BY DEF IInv, Typed, Turn, Ready, Kept
  <1>2. PICK dry : dry = (z.n = 0 /\ ~ nomore)
    OBVIOUS
  <1>3. PICK base, idx : /\ base = (IF dry THEN z.base + z.idx ELSE z.base)
                         /\ idx = (IF dry THEN 0 ELSE z.idx)
    OBVIOUS
  <1>4. base \in Int /\ idx \in Int /\ base + idx = z.base + z.idx
    BY <1>1, <1>3, HeldFields
  <1>5. z' = Rebased(z, base, idx)
    BY <1>1, <1>2, <1>3 DEF Turn, Rebased, Held, Decoders
  <1>6. Ready(z', given') /\ z'.mode = z.mode
    BY <1>1, <1>4, <1>5, RebasedReady
  <1>7. Ready(z, given)'
    BY <1>1, <1>6, SameStream
  <1>8. nomore' \in BOOLEAN
    BY DEF Turn, IInv, Typed
  <1>9. Typed'
    BY <1>1, <1>8 DEF IInv, Typed, PCs
  <1>10. Feeding'
    BY <1>1, <1>6 DEF IInv, Feeding
  <1>11. QED BY <1>7, <1>9, <1>10 DEF IInv

LEMMA CheckKeeps ==
  ASSUME IInv, Check
  PROVE  IInv'
  <1>1. /\ s \in Streams /\ Ready(z, given) /\ Held(z) /\ pc = "check"
        /\ s' = s /\ chunk' = chunk /\ given' = given /\ size' = size /\ nomore' = nomore
        /\ z' = z /\ pc' \in {"answered", "thrown", "loop"} /\ size \in Nat /\ size >= 1
    BY DEF IInv, Typed, Feeding, Check, Settle, Answer, Ready, Kept
  <1>2. Ready(z, given)'
    BY <1>1, SameStream
  <1>3. Typed'
    BY <1>1 DEF IInv, Typed, PCs
  <1>4. z.mode = "BAD" => pc' = "thrown" /\ z.r = "DATA"
    BY <1>1 DEF IInv, Feeding, Check, Settle, AtEdge
  <1>5. ASSUME pc' = "answered", Live(z) PROVE z.n = 0
    <2>1. z.n = 0 \/ Len(z.out) = BufSize
      BY <1>1, <1>5 DEF IInv, Feeding
    <2>2. Len(z.out) \in Nat /\ z.n \in Int /\ z.n >= 0
      BY <1>1, <1>5, HeldFields DEF Ready, Kept, Amounts
    <2>3. CASE AtEdge
      <3>1. CASE z.r = "BUF"
        <4>1. z.out = <<>>
          BY <1>1, <3>1 DEF Ready
        <4>2. QED BY <2>1, <4>1, Sizes
      <3>2. CASE BufSize - Len(z.out) = size
        BY <1>1, <2>1, <2>2, <3>2, Sizes
      <3>3. QED BY <2>3, <3>1, <3>2 DEF AtEdge
    <2>4. CASE ~ AtEdge
      <3>1. ~ (z.n > 0 \/ Len(z.out) = BufSize)
        BY <1>5, <2>4 DEF Check, Settle
      <3>2. QED BY <2>2, <3>1
    <2>5. QED BY <2>3, <2>4
  <1>6. Feeding'
    BY <1>1, <1>4, <1>5 DEF IInv, Feeding, Live
  <1>7. QED BY <1>2, <1>3, <1>6 DEF IInv

\* A chunk is posted to the worker when the one before it is used up.
Posted(x, y, g, c, h) ==
  /\ g \in Nat /\ c \in Nat /\ h = g + c
  /\ y = [x EXCEPT !.base = g, !.idx = 0, !.n = c]

LEMMA ChunkReady ==
  ASSUME s \in Streams, NEW g, NEW x, Ready(x, g), Live(x) => x.n = 0, NEW c, NEW h,
         NEW y, Posted(x, y, g, c, h)
  PROVE  Ready(y, h) /\ y.mode = x.mode
  <1>1. x \in Decoders /\ Held(x) /\ Kept(x, g) /\ (Live(x) => Quick(x))
        /\ (x.r = "BUF" => x.out = <<>>)
    BY DEF Ready, Kept, Held
  <1>2. /\ y.out = x.out /\ y.r = x.r /\ y.base = g /\ y.idx = 0 /\ y.n = c
        /\ y.n0 = x.n0 /\ y.k = x.k /\ y.i = x.i /\ y.mode = x.mode
        /\ y.left = x.left /\ y.dist = x.dist /\ y.last = x.last /\ y.win = x.win
        /\ y.read = x.read /\ y.write = x.write
        /\ y \in Decoders
    <2>1. PICK a \in Int, b \in Int, e \in Int : a = g /\ b = 0 /\ e = c
      BY DEF Posted
    <2>2. y = [x EXCEPT !.base = a, !.idx = b, !.n = e]
      BY <2>1 DEF Posted
    <2>3. /\ y.out = x.out /\ y.r = x.r /\ y.base = a /\ y.idx = b /\ y.n = e
          /\ y.n0 = x.n0 /\ y.k = x.k /\ y.i = x.i /\ y.mode = x.mode
          /\ y.left = x.left /\ y.dist = x.dist /\ y.last = x.last /\ y.win = x.win
          /\ y.read = x.read /\ y.write = x.write
          /\ y \in Decoders
      BY <1>1, <2>2 DEF Decoders
    <2>4. QED BY <2>1, <2>3
  <1>3. Held(y)
    BY <1>1, <1>2 DEF Held
  <1>4. Place(x) => Place(y)
    BY <1>2 DEF Place, DueAt, Ahead
  <1>5. ASSUME Live(x) PROVE Amounts(y, h) /\ y.mode \notin Fastest
    <2>1. x.n = 0 /\ Amounts(x, g) /\ x.base \in Int /\ x.idx \in Int
      BY <1>1, <1>5, HeldFields DEF Kept
    <2>2. x.base + x.idx = g
      BY <2>1 DEF Amounts
    <2>3. y.base + y.idx = g /\ y.base + y.idx + y.n = h
      BY <1>2 DEF Posted
    <2>4. Pos(y) = Pos(x)
      BY <1>2, <2>2, <2>3 DEF Pos
    <2>5. Begun(y) = Begun(x) /\ Ahead(y) = Ahead(x)
      BY <1>2 DEF Begun, Ahead
    <2>6. Amounts(y, h)
      BY <1>2, <2>1, <2>3, <2>4, <2>5 DEF Amounts, Posted
    <2>7. x.mode \notin Fastest
      BY <1>5, <2>1, FastHasInput
    <2>8. QED BY <1>2, <2>6, <2>7
  <1>6. QED BY <1>1, <1>2, <1>3, <1>4, <1>5 DEF Ready, Kept, Live, Quick, Fastest

LEMMA FeedKeeps ==
  ASSUME IInv, Feed
  PROVE  IInv'
  <1>1. /\ s \in Streams /\ Ready(z, given) /\ Typed /\ Feeding
    BY DEF IInv, Typed
  <1>2. ASSUME Step \/ Written \/ IoFails \/ Flushed PROVE IInv'
    <2>1. /\ s' = s /\ chunk' = chunk /\ given' = given /\ size' = size /\ nomore' = nomore
          /\ z' = z
          /\ pc \in {"step", "answered", "reading", "flushing"}
          /\ pc' \in {"reading", "flushing", "step", "failed", "ended"}
          /\ pc' = "reading" => given < Bytes(s)
      BY <1>2 DEF Step, Written, IoFails, Flushed, Fed
    <2>2. Ready(z, given)'
      BY <1>1, <2>1, SameStream
    <2>3. Typed'
      BY <1>1, <2>1 DEF Typed, PCs
    <2>4. Feeding'
      BY <1>1, <2>1 DEF Feeding, Live, Bytes
    <2>5. QED BY <2>2, <2>3, <2>4 DEF IInv
  <1>3. ASSUME ChunkRead PROVE IInv'
    <2>1. PICK c : c = Min({chunk, Bytes(s) - given})
      OBVIOUS
    <2>2. /\ s' = s /\ chunk' = chunk /\ given' = given + c /\ size' = c /\ nomore' = nomore
          /\ z' = [z EXCEPT !.base = given, !.idx = 0, !.n = c]
          /\ pc = "reading" /\ pc' = "loop"
      BY <1>3, <2>1 DEF ChunkRead
    <2>3. c \in Nat /\ c >= 1
      <3>1. At[s][Len(s) + 1] \in Nat
        <4>1. Len(s) + 1 \in 1 .. Len(s) + 1
          BY <1>1, StreamTypes
        <4>2. QED BY <1>1, <4>1, AtFacts
      <3>2. Bytes(s) \in Nat
        BY <3>1, InBytesFacts DEF Bytes
      <3>3. given < Bytes(s) /\ given \in Nat /\ chunk \in Nat /\ chunk >= 1
        BY <1>1, <2>2, SizeAssumption DEF Feeding, Typed
      <3>4. PICK a \in Int, b \in Int : a = chunk /\ b = Bytes(s) - given
        BY <3>2, <3>3
      <3>5. c = IF a <= b THEN a ELSE b
        BY <2>1, <3>4, MinFacts
      <3>6. QED BY <3>2, <3>3, <3>4, <3>5
    <2>4. Live(z) => z.n = 0
      BY <1>1, <2>2 DEF Feeding
    <2>5. Ready(z', given + c) /\ z'.mode = z.mode
      <3>1. PICK g, y : g = given /\ y = z'
        OBVIOUS
      <3>2. Ready(z, g) /\ g \in Nat /\ y = [z EXCEPT !.base = g, !.idx = 0, !.n = c]
        BY <1>1, <2>2, <3>1 DEF Typed
      <3>3. PICK h : h = g + c
        OBVIOUS
      <3>4. Posted(z, y, g, c, h)
        BY <2>3, <3>2, <3>3 DEF Posted
      <3>5. Ready(y, h) /\ y.mode = z.mode
        BY <1>1, <2>4, <3>2, <3>4, ChunkReady DEF Typed
      <3>6. QED BY <3>1, <3>3, <3>5
    <2>6. Ready(z, given)'
      BY <2>2, <2>5, SameStream
    <2>7. Typed'
      BY <1>1, <2>2, <2>3 DEF Typed, PCs
    <2>8. Feeding'
      BY <1>1, <2>2, <2>3, <2>5 DEF Feeding
    <2>9. QED BY <2>6, <2>7, <2>8 DEF IInv
  <1>4. QED BY <1>2, <1>3 DEF Feed

LEMMA StaysSo ==
  ASSUME IInv, UNCHANGED vars
  PROVE  IInv'
  <1>1. /\ s' = s /\ chunk' = chunk /\ given' = given /\ size' = size /\ nomore' = nomore
        /\ z' = z /\ pc' = pc /\ Ready(z, given) /\ Typed /\ Feeding
    BY DEF vars, IInv
  <1>2. Ready(z, given)'
    BY <1>1, SameStream
  <1>3. Typed' /\ Feeding'
    BY <1>1 DEF Typed, Feeding, Live, Bytes
  <1>4. QED BY <1>2, <1>3 DEF IInv

LEMMA NextKeeps ==
  IInv /\ [Next]_vars => IInv'
  <1> SUFFICES ASSUME IInv, [Next]_vars PROVE IInv'
    OBVIOUS
  <1>1. CASE Decode
    BY <1>1, DecodeKeeps
  <1>2. CASE Turn
    BY <1>2, TurnKeeps
  <1>3. CASE Check
    BY <1>3, CheckKeeps
  <1>4. CASE Feed
    BY <1>4, FeedKeeps
  <1>5. CASE UNCHANGED vars
    BY <1>5, StaysSo
  <1>6. QED BY <1>1, <1>2, <1>3, <1>4, <1>5 DEF Next

\* After every call of inflate(), every chunk and every reset of the input in
\* append(), the mode of the decoder and what it keeps for that mode agree with
\* the fields read so far, and the input not yet taken begins, bit for bit,
\* where the next field begins.  (This and what follows holds up to the point
\* where the decoder reads at index -1: there the model stops.)
THEOREM DecoderInvariant == Spec => []IInv
  <1>1. Init => IInv
    BY InitHolds
  <1>2. IInv /\ [Next]_vars => IInv'
    BY NextKeeps
  <1>3. QED BY <1>1, <1>2, PTL DEF Spec

\* What NEEDBITS, the fast path and the give-back of bytes at the end of a block
\* do with bitb, bitk, next_in_index and avail_in loses no bit and reads none
\* twice, also where a chunk ends between any two bits, for every stream of the
\* format and every size of chunk, window and buffer, until a byte is read at
\* index -1.
THEOREM NoBitLost == Spec => []InputKept
  <1>1. IInv => InputKept
    <2> SUFFICES ASSUME IInv, pc = "inflate", z.mode \notin {"BAD", "DONE"}
                 PROVE  /\ z.n >= 0
                        /\ Position = At[s][z.i + 1] + IF z.mode \in {"LENEXT", "DISTEXT"}
                                                         THEN F.bits ELSE 0
      BY DEF InputKept
    <2>1. Amounts(z, given)
      BY DEF IInv, Ready, Kept, Live
    <2>2. QED BY <2>1 DEF Amounts, Pos, Position, Begun, Ahead, F
  <1>2. QED BY <1>1, DecoderInvariant, PTL

-----------------------------------------------------------------------------
(***************************************************************************)
(* What the fields of a stream stand for.  Out[s][i + 1] is what the first *)
(* i fields stand for: each beginning is a beginning of all of it (Leads). *)
(***************************************************************************)
\* What field i of t adds to what the fields before it stand for.
Grown(t, i, o) ==
  CASE t[i].is \in {"lit", "byte"} -> Append(o, t[i].val)
    [] t[i].is = "dist" ->
         o \o [j \in 1 .. t[i - 1].val |->
                 o[Len(o) - t[i].val + 1 + ((j - 1) % t[i].val)]]
    [] OTHER -> o

LEMMA OutSteps ==
  ASSUME NEW t \in Streams
  PROVE  /\ Out[t][1] = <<>>
         /\ \A i \in 1 .. Len(t) : Out[t][i + 1] = Grown(t, i, Out[t][i])
  <1> DEFINE m == Len(t)
             out[i \in 0 .. m] ==
               IF i = 0 THEN <<>>
               ELSE CASE t[i].is \in {"lit", "byte"} -> Append(out[i - 1], t[i].val)
                      [] t[i].is = "dist" ->
                           LET o == out[i - 1] IN
                           o \o [j \in 1 .. t[i - 1].val |->
                                   o[Len(o) - t[i].val + 1 + ((j - 1) % t[i].val)]]
                      [] OTHER -> out[i - 1]
             Upto(n) == \E f : /\ f[0] = <<>>
                               /\ \A i \in 1 .. n - 1 : f[i] = Grown(t, i, f[i - 1])
             S == {n \in Nat : Upto(n)}
  <1>1. m \in Nat
    BY StreamTypes
  <1>2. 1 \in S
    <2>1. PICK f : f = [i \in 0 .. 0 |-> <<>>]
      OBVIOUS
    <2>2. f[0] = <<>> /\ 1 .. 1 - 1 = {}
      BY <2>1
    <2>3. QED BY <2>2
  <1>3. ASSUME NEW n \in 1 .. (m + 1) - 1, n \in S PROVE n + 1 \in S
    <2>1. PICK f : f[0] = <<>> /\ \A i \in 1 .. n - 1 : f[i] = Grown(t, i, f[i - 1])
      BY <1>3
    <2>2. PICK v : v = Grown(t, n, f[n - 1])
      OBVIOUS
    <2>3. PICK g : g = [i \in 0 .. n |-> IF i = n THEN v ELSE f[i]]
      OBVIOUS
    <2>4. g[0] = <<>> /\ g[n] = v /\ \A i \in 0 .. n - 1 : g[i] = f[i]
      BY <1>1, <2>1, <2>3
    <2>5. ASSUME NEW i \in 1 .. (n + 1) - 1 PROVE g[i] = Grown(t, i, g[i - 1])
      <3>1. i - 1 \in 0 .. n - 1 /\ g[i - 1] = f[i - 1]
        BY <1>1, <2>4
      <3>2. CASE i = n
        BY <2>2, <2>4, <3>1, <3>2
      <3>3. CASE i # n
        <4>1. i \in 1 .. n - 1 /\ i \in 0 .. n - 1
          BY <1>1, <3>3
        <4>2. QED BY <2>1, <2>4, <3>1, <4>1
      <3>4. QED BY <3>2, <3>3
    <2>6. Upto(n + 1)
      BY <2>4, <2>5
    <2>7. QED BY <1>1, <2>6
  <1>4. Upto(m + 1)
    <2> HIDE DEF S, m
    <2>1. \A n \in 1 .. m + 1 : n \in S
      <3>1. m + 1 \in Nat
        BY <1>1
      <3>2. QED BY <1>2, <1>3, <3>1, Chain
    <2>2. m + 1 \in S
      BY <1>1, <2>1
    <2>3. QED BY <2>2 DEF S
  <1>5. PICK f : f[0] = <<>> /\ \A i \in 1 .. m : f[i] = Grown(t, i, f[i - 1])
    <2>1. (m + 1) - 1 = m
      BY <1>1
    <2>2. QED BY <1>4, <2>1
  <1>6. PICK g : g = [i \in 0 .. m |-> f[i]]
    OBVIOUS
  <1>7. g[0] = <<>> /\ \A i \in 1 .. m : g[i] = Grown(t, i, g[i - 1])
    <2>1. \A i \in 1 .. m : i \in 0 .. m /\ i - 1 \in 0 .. m
      BY <1>1
    <2>2. 0 \in 0 .. m
      BY <1>1
    <2>3. QED BY <1>5, <1>6, <2>1, <2>2
  <1>8. g = [i \in 0 .. m |-> IF i = 0 THEN <<>> ELSE
                      CASE t[i].is \in {"lit", "byte"} -> Append(g[i - 1], t[i].val)
                      [] t[i].is = "dist" ->
                           LET o == g[i - 1] IN
                           o \o [j \in 1 .. t[i - 1].val |->
                                   o[Len(o) - t[i].val + 1 + ((j - 1) % t[i].val)]]
                      [] OTHER -> g[i - 1]]
    <2>1. g = [i \in 0 .. m |-> IF i = 0 THEN <<>> ELSE Grown(t, i, g[i - 1])]
      <3>1. \A i \in 0 .. m : g[i] = IF i = 0 THEN <<>> ELSE Grown(t, i, g[i - 1])
        BY <1>1, <1>7
      <3>2. QED BY <1>6, <3>1
    <2>2. QED BY <2>1, Zenon DEF Grown
  <1>9. out = [i \in 0 .. m |-> IF i = 0 THEN <<>> ELSE
                      CASE t[i].is \in {"lit", "byte"} -> Append(out[i - 1], t[i].val)
                      [] t[i].is = "dist" ->
                           LET o == out[i - 1] IN
                           o \o [j \in 1 .. t[i - 1].val |->
                                   o[Len(o) - t[i].val + 1 + ((j - 1) % t[i].val)]]
                      [] OTHER -> out[i - 1]]
    BY <1>8, Zenon
  <1>10. Out[t] = <<>> \o [i \in 1 .. m + 1 |-> out[i - 1]]
    BY Zenon DEF Out
  <1> HIDE DEF out, S
  <1>11. out[0] = <<>> /\ \A i \in 1 .. m : out[i] = Grown(t, i, out[i - 1])
    <2>1. out = [i \in 0 .. m |-> IF i = 0 THEN <<>> ELSE Grown(t, i, out[i - 1])]
      BY <1>9, Zenon DEF Grown
    <2>2. 0 \in 0 .. m /\ \A i \in 1 .. m : i \in 0 .. m /\ i # 0
      BY <1>1
    <2>3. QED BY <2>1, <2>2
  <1>12. PICK h : h = [i \in 1 .. m + 1 |-> out[i - 1]]
    OBVIOUS
  <1>13. Out[t] = h
    <2>1. PICK V : V = {out[i - 1] : i \in 1 .. m + 1}
      OBVIOUS
    <2>2. h \in [1 .. m + 1 -> V] /\ m + 1 \in Nat
      BY <1>1, <1>12, <2>1
    <2>3. QED BY <1>10, <1>12, <2>2, AsTuple
  <1>14. h[1] = <<>> /\ \A i \in 1 .. m : h[i] = out[i - 1] /\ h[i + 1] = out[i]
    <2>1. 1 \in 1 .. m + 1 /\ 1 - 1 = 0
      BY <1>1
    <2>2. \A i \in 1 .. m : i \in 1 .. m + 1 /\ i + 1 \in 1 .. m + 1 /\ (i + 1) - 1 = i
      BY <1>1
    <2>3. QED BY <1>11, <1>12, <2>1, <2>2
  <1>15. QED BY <1>11, <1>13, <1>14

\* h is the beginning of p.
Leads(h, p) == Len(h) <= Len(p) /\ \A j \in 1 .. Len(h) : h[j] = p[j]

LEMMA LeadsOn ==
  ASSUME NEW a \in Seq(Nat), NEW b \in Seq(Nat), NEW c \in Seq(Nat), Leads(a, b), Leads(b, c)
  PROVE  Leads(a, c)
  <1>1. Len(a) \in Nat /\ Len(b) \in Nat /\ Len(c) \in Nat /\ Len(a) <= Len(b) /\ Len(b) <= Len(c)
    BY DEF Leads
  <1>2. \A j \in 1 .. Len(a) : j \in 1 .. Len(b)
    BY <1>1
  <1>3. QED BY <1>1, <1>2 DEF Leads

LEMMA LeadsSelf ==
  ASSUME NEW a \in Seq(Nat) PROVE Leads(a, a)
  BY DEF Leads

\* Two beginnings of one sequence.
LEMMA LeadsEither ==
  ASSUME NEW a \in Seq(Nat), NEW b \in Seq(Nat), NEW c \in Seq(Nat), Leads(a, c), Leads(b, c),
         Len(a) <= Len(b)
  PROVE  Leads(a, b) /\ (Len(a) = Len(b) => a = b)
  <1>1. Len(a) \in Nat /\ Len(b) \in Nat
    OBVIOUS
  <1>2. \A j \in 1 .. Len(a) : j \in 1 .. Len(b) /\ a[j] = b[j]
    BY <1>1 DEF Leads
  <1>3. Leads(a, b)
    BY <1>1, <1>2 DEF Leads
  <1>4. ASSUME Len(a) = Len(b) PROVE a = b
    BY <1>2, <1>4, SeqEqual
  <1>5. QED BY <1>3, <1>4

LEMMA AppendFacts ==
  ASSUME NEW o \in Seq(Nat), NEW v \in Nat
  PROVE  /\ Append(o, v) \in Seq(Nat) /\ Len(Append(o, v)) = Len(o) + 1 /\ Len(o) \in Nat
         /\ \A j \in 1 .. Len(o) : Append(o, v)[j] = o[j]
         /\ Append(o, v)[Len(o) + 1] = v
         /\ Leads(o, Append(o, v))
  BY DEF Leads

LEMMA JoinFacts ==
  ASSUME NEW a \in Seq(Nat), NEW b \in Seq(Nat)
  PROVE  /\ a \o b \in Seq(Nat) /\ Len(a \o b) = Len(a) + Len(b)
         /\ Len(a) \in Nat /\ Len(b) \in Nat
         /\ \A j \in 1 .. Len(a) : (a \o b)[j] = a[j]
         /\ \A j \in 1 .. Len(b) : (a \o b)[Len(a) + j] = b[j]
         /\ Leads(a, a \o b)
  <1>1. /\ a \o b \in Seq(Nat) /\ Len(a \o b) = Len(a) + Len(b)
        /\ Len(a) \in Nat /\ Len(b) \in Nat
        /\ \A j \in 1 .. Len(a) : (a \o b)[j] = a[j]
    OBVIOUS
  <1>2. ASSUME NEW j \in 1 .. Len(b) PROVE (a \o b)[Len(a) + j] = b[j]
    <2>1. Len(a) + j \in 1 .. Len(a) + Len(b) /\ ~ (Len(a) + j <= Len(a)) /\ Len(a) + j - Len(a) = j
      BY <1>1
    <2>2. QED BY <1>1, <2>1
  <1>3. QED BY <1>1, <1>2 DEF Leads

\* n is o and a copy of c bytes from d back.
Repeats(o, n, d, c) ==
  /\ n \in Seq(Nat) /\ Len(n) = Len(o) + c /\ Leads(o, n)
  /\ \A m \in 0 .. c - 1 : n[Len(o) + 1 + m] = o[Len(o) - d + 1 + (m % d)]

LEMMA ItemIs ==
  ASSUME NEW o \in Seq(Nat)
  PROVE  \A k \in 1 .. Len(o) : o[k] \in Nat
  OBVIOUS

LEMMA CopyIs ==
  ASSUME NEW o \in Seq(Nat), NEW d \in 1 .. Len(o), NEW c \in Nat,
         NEW n, n = o \o [j \in 1 .. c |-> o[Len(o) - d + 1 + ((j - 1) % d)]]
  PROVE  Repeats(o, n, d, c)
  <1>1. PICK b : b = [j \in 1 .. c |-> o[Len(o) - d + 1 + ((j - 1) % d)]]
    OBVIOUS
  <1>2. Len(o) \in Nat /\ d \in Nat /\ d >= 1 /\ d <= Len(o)
    OBVIOUS
  <1>3. ASSUME NEW m \in Nat PROVE m % d \in 0 .. d - 1 /\ Len(o) - d + 1 + (m % d) \in 1 .. Len(o)
    <2>1. m % d \in 0 .. d - 1
      BY <1>2
    <2>2. QED BY <1>2, <2>1
  <1>4. ASSUME NEW j \in 1 .. c PROVE b[j] = o[Len(o) - d + 1 + ((j - 1) % d)] /\ b[j] \in Nat
    <2>1. j - 1 \in Nat
      OBVIOUS
    <2>2. Len(o) - d + 1 + ((j - 1) % d) \in 1 .. Len(o)
      BY <1>3, <2>1
    <2>3. b[j] = o[Len(o) - d + 1 + ((j - 1) % d)]
      BY <1>1
    <2>4. \A k \in 1 .. Len(o) : o[k] \in Nat
      BY ItemIs
    <2>5. o[Len(o) - d + 1 + ((j - 1) % d)] \in Nat
      BY <2>2, <2>4, Zenon
    <2>6. QED BY <2>3, <2>5
  <1>5. b \in [1 .. c -> Nat]
    <2>1. b = [j \in 1 .. c |-> b[j]]
      BY <1>1
    <2>2. QED BY <1>4, <2>1
  <1>6. b \in Seq(Nat) /\ Len(b) = c
    BY <1>5, AsTuple
  <1>7. n = o \o b
    BY <1>1
  <1>8. n \in Seq(Nat) /\ Len(n) = Len(o) + c /\ Leads(o, n)
        /\ \A j \in 1 .. c : n[Len(o) + j] = b[j]
    <2>1. /\ o \o b \in Seq(Nat) /\ Len(o \o b) = Len(o) + Len(b) /\ Leads(o, o \o b)
          /\ \A j \in 1 .. Len(b) : (o \o b)[Len(o) + j] = b[j]
      BY <1>6, JoinFacts
    <2>2. QED BY <1>6, <1>7, <2>1
  <1>9. ASSUME NEW m \in 0 .. c - 1 PROVE n[Len(o) + 1 + m] = o[Len(o) - d + 1 + (m % d)]
    <2>1. m + 1 \in 1 .. c /\ (m + 1) - 1 = m /\ Len(o) + (m + 1) = Len(o) + 1 + m
      BY <1>2
    <2>2. b[m + 1] = o[Len(o) - d + 1 + (m % d)]
      BY <1>4, <2>1
    <2>3. QED BY <1>8, <2>1, <2>2
  <1>10. QED BY <1>8, <1>9 DEF Repeats

\* A distance is due only behind a length.
LEMMA DistBehindLen ==
  ASSUME NEW t \in Streams, NEW i \in 1 .. Len(t), t[i].is = "dist"
  PROVE  /\ i - 1 \in 1 .. Len(t) /\ t[i - 1].val \in Nat
         /\ t[i].val \in 1 .. End /\ t[i].val <= Len(Out[t][i]) /\ t[i].val \in Nat
  <1>1. Len(t) \in Nat /\ t[i] \in Fields
    BY StreamTypes
  <1>2. PICK d, f, o : d = Dues[t][i] /\ f = t[i] /\ o = Out[t][i]
    OBVIOUS
  <1>3. Fits(d, f, o) /\ f.is = "dist" /\ ~ Bad(f)
    BY <1>2, StreamAssumption DEF Bad
  <1>4. d.what = "dist" /\ f.val \in 1 .. End /\ f.val <= Len(o)
    BY <1>3 DEF Fits
  <1>5. i # 1
    <2>1. Dues[t][1].what = "block"
      BY DuesFacts DEF Due
    <2>2. QED BY <1>2, <1>4, <2>1
  <1>6. i - 1 \in 1 .. Len(t)
    BY <1>1, <1>5
  <1>7. t[i - 1].val \in Nat /\ t[i].val \in Nat
    BY <1>1, <1>6, StreamTypes DEF Fields
  <1>8. QED BY <1>2, <1>4, <1>6, <1>7

LEMMA GrownFacts ==
  ASSUME NEW t \in Streams, NEW i \in 1 .. Len(t), Out[t][i] \in Seq(Nat)
  PROVE  /\ Out[t][i + 1] \in Seq(Nat) /\ Leads(Out[t][i], Out[t][i + 1])
         /\ t[i].is \in {"lit", "byte"} => Out[t][i + 1] = Append(Out[t][i], t[i].val)
         /\ t[i].is = "dist" => Repeats(Out[t][i], Out[t][i + 1], t[i].val, t[i - 1].val)
         /\ t[i].is \notin {"lit", "byte", "dist"} => Out[t][i + 1] = Out[t][i]
  <1>1. PICK o, n : o = Out[t][i] /\ n = Out[t][i + 1]
    OBVIOUS
  <1>2. n = Grown(t, i, o) /\ o \in Seq(Nat)
    BY <1>1, OutSteps
  <1>3. CASE t[i].is \in {"lit", "byte"}
    <2>1. n = Append(o, t[i].val) /\ t[i].val \in Nat
      BY <1>2, <1>3, StreamTypes DEF Grown, Fields
    <2>2. n \in Seq(Nat) /\ Leads(o, n)
      BY <1>2, <2>1, AppendFacts
    <2>3. QED BY <1>1, <1>3, <2>1, <2>2
  <1>4. CASE t[i].is = "dist"
    <2>1. PICK d, c : d = t[i].val /\ c = t[i - 1].val
      OBVIOUS
    <2>2. d \in 1 .. Len(o) /\ c \in Nat
      <3>1. Len(o) \in Nat /\ d \in Nat /\ d \in 1 .. End /\ d <= Len(o) /\ c \in Nat
        BY <1>1, <1>2, <1>4, <2>1, DistBehindLen
      <3>2. QED BY <3>1, Sizes
    <2>3. n = o \o [j \in 1 .. c |-> o[Len(o) - d + 1 + ((j - 1) % d)]]
      BY <1>2, <1>4, <2>1 DEF Grown
    <2>4. Repeats(o, n, d, c)
      BY <1>2, <2>2, <2>3, CopyIs
    <2>5. n \in Seq(Nat) /\ Leads(o, n)
      BY <2>4 DEF Repeats
    <2>6. QED BY <1>1, <1>4, <2>1, <2>4, <2>5
  <1>5. CASE t[i].is \notin {"lit", "byte", "dist"}
    <2>1. n = o
      BY <1>2, <1>5 DEF Grown
    <2>2. QED BY <1>1, <1>2, <1>5, <2>1, LeadsSelf
  <1>6. QED BY <1>3, <1>4, <1>5

LEMMA OutTypes ==
  ASSUME NEW t \in Streams
  PROVE  \A i \in 1 .. Len(t) + 1 : Out[t][i] \in Seq(Nat)
  <1> DEFINE S == {i \in 1 .. Len(t) + 1 : Out[t][i] \in Seq(Nat)}
             m == Len(t)
  <1>1. m \in Nat
    BY StreamTypes
  <1>2. 1 \in S
    <2>1. <<>> \in Seq(Nat)
      OBVIOUS
    <2>2. 1 \in 1 .. Len(t) + 1
      BY <1>1
    <2>3. Out[t][1] \in Seq(Nat)
      BY <2>1, OutSteps
    <2>4. QED BY <2>2, <2>3
  <1>3. ASSUME NEW i \in 1 .. (m + 1) - 1, i \in S PROVE i + 1 \in S
    <2>1. i \in 1 .. Len(t) /\ i + 1 \in 1 .. Len(t) + 1
      BY <1>1
    <2>2. QED BY <1>3, <2>1, GrownFacts
  <1> HIDE DEF S
  <1>4. \A i \in 1 .. m + 1 : i \in S
    <2> HIDE DEF m
    <2>1. m + 1 \in Nat
      BY <1>1
    <2>2. QED BY <1>2, <1>3, <2>1, Chain
  <1>5. QED BY <1>4 DEF S

LEMMA OutLeads ==
  ASSUME NEW t \in Streams, NEW i \in 1 .. Len(t) + 1
  PROVE  /\ Out[t][i] \in Seq(Nat) /\ Decoded(t) \in Seq(Nat)
         /\ Leads(Out[t][i], Decoded(t))
  <1> DEFINE m == Len(t)
             S == {k \in 1 .. Len(t) + 1 : Leads(Out[t][m + 2 - k], Decoded(t))}
  <1>1. m \in Nat /\ m + 1 \in 1 .. m + 1
    BY StreamTypes
  <1>2. Decoded(t) \in Seq(Nat) /\ Out[t][i] \in Seq(Nat)
    BY <1>1, OutTypes DEF Decoded
  <1>3. 1 \in S
    <2>1. m + 2 - 1 = m + 1 /\ 1 \in 1 .. m + 1
      BY <1>1
    <2>2. Leads(Out[t][m + 1], Decoded(t))
      BY <1>2, LeadsSelf DEF Decoded
    <2>3. QED BY <2>1, <2>2
  <1>4. ASSUME NEW k \in 1 .. (m + 1) - 1, k \in S PROVE k + 1 \in S
    <2>1. PICK j : j = m + 2 - (k + 1)
      OBVIOUS
    <2>2. j \in 1 .. m /\ j \in 1 .. m + 1 /\ j + 1 \in 1 .. m + 1 /\ j + 1 = m + 2 - k
          /\ k + 1 \in 1 .. m + 1
      BY <1>1, <2>1
    <2>3. Out[t][j] \in Seq(Nat) /\ Out[t][j + 1] \in Seq(Nat)
      BY <2>2, OutTypes
    <2>4. Leads(Out[t][j], Out[t][j + 1])
      BY <2>2, <2>3, GrownFacts
    <2>5. Leads(Out[t][j + 1], Decoded(t))
      BY <1>4, <2>2
    <2>6. Leads(Out[t][j], Decoded(t))
      BY <1>2, <2>3, <2>4, <2>5, LeadsOn
    <2>7. QED BY <2>1, <2>2, <2>6
  <1> HIDE DEF S
  <1>5. \A k \in 1 .. m + 1 : k \in S
    <2> HIDE DEF m
    <2>1. m + 1 \in Nat
      BY <1>1
    <2>2. QED BY <1>3, <1>4, <2>1, Chain
  <1>6. m + 2 - i \in 1 .. m + 1 /\ m + 2 - (m + 2 - i) = i
    BY <1>1
  <1>7. QED BY <1>2, <1>5, <1>6 DEF S

-----------------------------------------------------------------------------
(***************************************************************************)
(* The window as a piece of what has been decoded: its last End bytes,     *)
(* ending before the write pointer (Shows), of which those from the read   *)
(* pointer on are not yet handed out (Sent).                               *)
(***************************************************************************)
\* The cell c bytes behind the write pointer q.
Back(q, c) == IF c <= q THEN q - c ELSE q - c + End

\* The window holds the last bytes of p.
Shows(x, p) ==
  \A c \in 1 .. End : c <= Len(p) => x.win[Back(x.write, c)] = p[Len(p) + 1 - c]

\* p has been decoded and h handed out: what lies between is in the window.
Sent(x, h, p) ==
  /\ p \in Seq(Nat) /\ h \in Seq(Nat) /\ Leads(h, p)
  /\ Len(h) + Pending(x) = Len(p)
  /\ Shows(x, p)

LEMMA BackFacts ==
  ASSUME NEW q \in Nat, q <= End, NEW c \in Nat, c >= 1, c <= End
  PROVE  Back(q, c) \in Nat /\ Back(q, c) < End /\ Back(q, c) \in 0 .. End - 1
  BY Sizes DEF Back

LEMMA QuietSent ==
  ASSUME NEW x, NEW h, NEW p, Sent(x, h, p),
         NEW y, y.win = x.win, y.read = x.read, y.write = x.write
  PROVE  Sent(y, h, p)
  BY DEF Sent, Shows, Pending

\* The end of the window is its beginning.
Turned(x, y) == y.write = x.write \/ (x.write = End /\ y.write = 0)

LEMMA TurnedShows ==
  ASSUME NEW x, NEW p, Shows(x, p), NEW y, y.win = x.win, Turned(x, y)
  PROVE  Shows(y, p)
  <1> SUFFICES ASSUME NEW c \in 1 .. End, c <= Len(p)
               PROVE  y.win[Back(y.write, c)] = p[Len(p) + 1 - c]
    BY DEF Shows
  <1>1. Back(y.write, c) = Back(x.write, c)
    <2>1. CASE y.write = x.write
      BY <2>1
    <2>2. CASE x.write = End /\ y.write = 0
      BY <2>2, Sizes DEF Back
    <2>3. QED BY <2>1, <2>2 DEF Turned
  <1>2. QED BY <1>1 DEF Shows

LEMMA FlushTurns ==
  ASSUME NEW x, Held(x)
  PROVE  Turned(x, Flush(x))
  <1>1. PICK o, p, r : /\ o = x.out \o Given(x) /\ p = (x.read + GiveCount(x)) % End
                       /\ r = IF GiveCount(x) # 0 /\ x.r = "BUF" THEN "OK" ELSE x.r
    OBVIOUS
  <1>2. PICK q : q = IF x.read + GiveCount(x) = End /\ x.write = End THEN 0 ELSE x.write
    OBVIOUS
  <1>3. PICK y : y = Flush(x)
    OBVIOUS
  <1>4. y = Copied(x, o, p, q, r)
    BY <1>1, <1>2, <1>3, FlushIs DEF Copied
  <1>5. y.write = q
    BY <1>4, SetCopied DEF Held
  <1>6. QED BY <1>2, <1>3, <1>5 DEF Turned

\* The cells that inflate_flush() copies.
LEMMA ReadCell ==
  ASSUME NEW x, Held(x), NEW j \in Nat, j >= 1, j <= Pending(x)
  PROVE  /\ Pending(x) + 1 - j \in 1 .. End
         /\ (x.read + j - 1) % End = Back(x.write, Pending(x) + 1 - j)
  <1>1. PICK rd \in Nat, wr \in Nat, q \in Nat : rd = x.read /\ wr = x.write /\ q = Pending(x)
    BY HeldFields, PendingFacts
  <1>2. rd < End /\ wr <= End /\ q <= End
    BY <1>1, HeldFields, PendingFacts
  <1>3. q = wr - rd + IF rd <= wr THEN 0 ELSE End
    BY <1>1 DEF Pending
  <1>4. PICK i \in Nat : i = j - 1
    OBVIOUS
  <1>5. rd + i < 2 * End /\ rd + j - 1 = rd + i
    BY <1>1, <1>2, <1>4, Sizes
  <1>6. (rd + i) % End = IF rd + i < End THEN rd + i ELSE rd + i - End
    BY <1>5, Sizes, Around
  <1>7. PICK c : c = q + 1 - j
    OBVIOUS
  <1>8. c \in 1 .. End
    <2>1. j <= q
      BY <1>1
    <2>2. QED BY <1>2, <1>7, <2>1, Sizes
  <1>9. Back(wr, c) = IF rd + i < End THEN rd + i ELSE rd + i - End
    <2>1. CASE rd <= wr
      BY <1>1, <1>2, <1>3, <1>4, <1>7, <2>1, Sizes DEF Back
    <2>2. CASE ~ (rd <= wr)
      BY <1>1, <1>2, <1>3, <1>4, <1>7, <2>2, Sizes DEF Back
    <2>3. QED BY <2>1, <2>2
  <1>10. QED BY <1>1, <1>5, <1>6, <1>7, <1>8, <1>9

LEMMA JoinThree ==
  ASSUME NEW a \in Seq(Nat), NEW b \in Seq(Nat), NEW c \in Seq(Nat)
  PROVE  (a \o b) \o c = a \o (b \o c)
  BY ConcatAssociative

LEMMA FlushSent ==
  ASSUME NEW x, Held(x), NEW h, h \in Seq(Nat), NEW p, Sent(x, h \o x.out, p)
  PROVE  Sent(Flush(x), h \o Flush(x).out, p)
  <1>1. PICK y : y = Flush(x)
    OBVIOUS
  <1>2. /\ y.win = x.win /\ y.out = x.out \o Given(x)
        /\ Pending(y) = Pending(x) - GiveCount(x)
    BY <1>1, FlushFacts
  <1>3. PICK b, v : b = h \o x.out /\ v = Given(x)
    OBVIOUS
  <1>4. /\ p \in Seq(Nat) /\ b \in Seq(Nat) /\ Leads(b, p) /\ Len(b) + Pending(x) = Len(p)
        /\ Shows(x, p)
    BY <1>3 DEF Sent
  <1>5. v \in Seq(Nat) /\ Len(v) = GiveCount(x)
    BY <1>3, GivenFacts
  <1>6. h \o y.out = b \o v
    <2>1. x.out \in Seq(Nat)
      BY HeldFields
    <2>2. PICK a : a = x.out
      OBVIOUS
    <2>3. (h \o a) \o v = h \o (a \o v)
      BY <1>5, <2>1, <2>2, JoinThree
    <2>4. QED BY <1>2, <1>3, <2>2, <2>3
  <1>7. PICK n : n = b \o v
    OBVIOUS
  <1>8. /\ n \in Seq(Nat) /\ Len(n) = Len(b) + Len(v) /\ Len(b) \in Nat /\ Len(v) \in Nat
        /\ \A j \in 1 .. Len(b) : n[j] = b[j]
        /\ \A j \in 1 .. Len(v) : n[Len(b) + j] = v[j]
    BY <1>4, <1>5, <1>7, JoinFacts
  <1>9. Pending(x) \in Nat /\ GiveCount(x) \in Nat /\ GiveCount(x) <= Pending(x) /\ Len(p) \in Nat
    BY <1>4, PendingFacts
  <1>10. ASSUME NEW j \in 1 .. Len(v) PROVE v[j] = p[Len(b) + j]
    <2>1. j \in Nat /\ j >= 1 /\ j <= Pending(x) /\ j \in 1 .. GiveCount(x)
      BY <1>5, <1>9
    <2>2. v[j] = x.win[(x.read + j - 1) % End]
      BY <1>3, <2>1 DEF Given
    <2>3. PICK c : c = Pending(x) + 1 - j
      OBVIOUS
    <2>4. c \in 1 .. End /\ v[j] = x.win[Back(x.write, c)]
      BY <2>1, <2>2, <2>3, ReadCell
    <2>5. c <= Len(p) /\ Len(p) + 1 - c = Len(b) + j
      <3>1. PICK q \in Nat, a \in Nat, m \in Nat : q = Pending(x) /\ a = Len(b) /\ m = Len(p)
        BY <1>8, <1>9
      <3>2. a + q = m /\ c = q + 1 - j /\ j <= q /\ j >= 1 /\ j \in Nat
        BY <1>4, <2>1, <2>3, <3>1
      <3>3. c <= m /\ m + 1 - c = a + j
        BY <3>2
      <3>4. QED BY <3>1, <3>3
    <2>6. QED BY <1>4, <2>4, <2>5 DEF Shows
  <1>11. Leads(n, p)
    <2>1. Len(n) <= Len(p)
      BY <1>4, <1>5, <1>8, <1>9
    <2>2. ASSUME NEW j \in 1 .. Len(n) PROVE n[j] = p[j]
      <3>1. CASE j <= Len(b)
        <4>1. j \in 1 .. Len(b)
          BY <1>8, <3>1
        <4>2. QED BY <1>4, <1>8, <4>1 DEF Leads
      <3>2. CASE ~ (j <= Len(b))
        <4>1. j - Len(b) \in 1 .. Len(v) /\ Len(b) + (j - Len(b)) = j
          BY <1>8, <3>2
        <4>2. QED BY <1>8, <1>10, <4>1
      <3>3. QED BY <3>1, <3>2
    <2>3. QED BY <2>1, <2>2 DEF Leads
  <1>12. Shows(y, p)
    BY <1>1, <1>2, <1>4, FlushTurns, TurnedShows
  <1>13. Len(n) + Pending(y) = Len(p)
    BY <1>2, <1>4, <1>5, <1>8, <1>9
  <1>14. QED BY <1>1, <1>4, <1>6, <1>7, <1>8, <1>11, <1>12, <1>13 DEF Sent

LEMMA WrapSent ==
  ASSUME NEW x, Held(x), NEW h, NEW p, Sent(x, h, p)
  PROVE  Sent(Wrap(x), h, p)
  <1>1. PICK y : y = Wrap(x)
    OBVIOUS
  <1>2. y.win = x.win /\ Pending(y) = Pending(x)
    BY <1>1, WrapFacts
  <1>3. Turned(x, y)
    <2>1. CASE x.write = End /\ x.read # 0
      <3>1. y = [x EXCEPT !.write = 0]
        BY <1>1, <2>1 DEF Wrap
      <3>2. y.write = 0
        BY <3>1, SetWrite DEF Held
      <3>3. QED BY <2>1, <3>2 DEF Turned
    <2>2. CASE ~ (x.write = End /\ x.read # 0)
      BY <1>1, <2>2 DEF Wrap, Turned
    <2>3. QED BY <2>1, <2>2
  <1>4. Shows(y, p)
    BY <1>2, <1>3, TurnedShows DEF Sent
  <1>5. QED BY <1>1, <1>2, <1>4 DEF Sent

LEMMA RoomSent ==
  ASSUME NEW x, Held(x), NEW h, h \in Seq(Nat), NEW p, Sent(x, h \o x.out, p)
  PROVE  Sent(MakeRoom(x), h \o MakeRoom(x).out, p)
  <1>1. PICK w : w = Wrap(x)
    OBVIOUS
  <1>2. PICK f : f = Flush(w)
    OBVIOUS
  <1>3. PICK v : v = Wrap(f)
    OBVIOUS
  <1>4. Held(w) /\ w.out = x.out /\ Sent(w, h \o x.out, p)
    BY <1>1, WrapFacts, WrapSent
  <1>5. Held(f) /\ Sent(f, h \o f.out, p)
    BY <1>2, <1>4, FlushFacts, FlushSent
  <1>6. v.out = f.out /\ Sent(v, h \o f.out, p)
    BY <1>3, <1>5, WrapFacts, WrapSent
  <1>7. MakeRoom(x) \in {x, w, v}
    BY <1>1, <1>2, <1>3 DEF MakeRoom
  <1>8. CASE MakeRoom(x) = x
    BY <1>8
  <1>9. CASE MakeRoom(x) = w
    BY <1>4, <1>9
  <1>10. CASE MakeRoom(x) = v
    BY <1>6, <1>10
  <1>11. QED BY <1>7, <1>8, <1>9, <1>10

\* y is x with t more bytes in the window, the last t of n.
Wrote(x, y, p, n, t) ==
  /\ y.write = x.write + t /\ y.read = x.read
  /\ \A w \in 0 .. End - 1 : w < x.write \/ w >= x.write + t => y.win[w] = x.win[w]
  /\ \A k \in Nat : k < t => y.win[x.write + k] = n[Len(p) + 1 + k]
  /\ n \in Seq(Nat) /\ Len(n) = Len(p) + t /\ Leads(p, n)

LEMMA WroteSent ==
  ASSUME NEW x, Held(x), NEW h, NEW p, Sent(x, h, p),
         NEW t, t \in Nat, t <= Room(x),
         NEW y, NEW n, Wrote(x, y, p, n, t)
  PROVE  Sent(y, h, n)
  <1>1. PICK rd \in Nat, wr \in Nat : rd = x.read /\ wr = x.write
    BY HeldFields
  <1>2. rd < End /\ wr <= End
    BY <1>1, HeldFields
  <1>3. /\ p \in Seq(Nat) /\ h \in Seq(Nat) /\ Leads(h, p) /\ Len(h) + Pending(x) = Len(p)
        /\ Shows(x, p)
    BY DEF Sent
  <1>4. /\ y.write = wr + t /\ y.read = rd
        /\ \A w \in 0 .. End - 1 : w < wr \/ w >= wr + t => y.win[w] = x.win[w]
        /\ \A k \in Nat : k < t => y.win[wr + k] = n[Len(p) + 1 + k]
        /\ n \in Seq(Nat) /\ Len(n) = Len(p) + t /\ Leads(p, n)
    BY <1>1 DEF Wrote
  <1>5. wr + t <= End /\ Pending(y) = Pending(x) + t
    <2>1. t <= IF wr < rd THEN rd - wr - 1 ELSE End - wr
      BY <1>1 DEF Room
    <2>2. Pending(y) = (wr + t) - rd + IF rd <= wr + t THEN 0 ELSE End
      BY <1>4 DEF Pending
    <2>3. Pending(x) = wr - rd + IF rd <= wr THEN 0 ELSE End
      BY <1>1 DEF Pending
    <2>4. End \in Nat
      BY Sizes
    <2>5. CASE rd <= wr
      <3>1. rd <= wr + t
        BY <2>5
      <3>2. QED BY <1>2, <2>1, <2>2, <2>3, <2>4, <2>5, <3>1
    <2>6. CASE ~ (rd <= wr)
      <3>1. ~ (rd <= wr + t)
        BY <1>2, <2>1, <2>4, <2>6
      <3>2. QED BY <1>2, <2>1, <2>2, <2>3, <2>4, <2>6, <3>1
    <2>7. QED BY <2>5, <2>6
  <1>6. Len(p) \in Nat /\ Len(h) \in Nat /\ Pending(x) \in Nat /\ Len(n) \in Nat
    BY <1>3, <1>4, PendingFacts
  <1>7. Len(h) + Pending(y) = Len(n)
    <2>1. PICK a \in Nat, b \in Nat, c \in Nat : a = Len(h) /\ b = Pending(x) /\ c = Len(p)
      BY <1>6
    <2>2. a + b = c /\ Pending(y) = b + t /\ Len(n) = c + t
      BY <1>3, <1>4, <1>5, <2>1
    <2>3. a + (b + t) = c + t
      BY <2>2
    <2>4. QED BY <2>1, <2>2, <2>3, Zenon
  <1>8. Leads(h, n)
    BY <1>3, <1>4, LeadsOn
  <1>9. ASSUME NEW c \in 1 .. End, c <= Len(n)
        PROVE  y.win[Back(wr + t, c)] = n[Len(n) + 1 - c]
    <2>1. CASE c <= t
      <3>1. PICK k \in Nat : k = t - c
        BY <2>1
      <3>2. Back(wr + t, c) = wr + k /\ k < t /\ Len(n) + 1 - c = Len(p) + 1 + k
        BY <1>4, <1>6, <2>1, <3>1 DEF Back
      <3>3. QED BY <1>4, <3>2
    <2>2. CASE ~ (c <= t)
      <3>1. PICK e \in Nat : e = c - t
        BY <2>2
      <3>2. e \in 1 .. End /\ e <= Len(p) /\ Len(n) + 1 - c = Len(p) + 1 - e
            /\ Len(p) + 1 - e \in 1 .. Len(p)
        <4>1. PICK a \in Nat, b \in Nat : a = Len(p) /\ b = Len(n)
          BY <1>6
        <4>2. b = a + t /\ c <= b /\ c \in 1 .. End /\ End \in Nat
          BY <1>4, <1>9, <4>1, Sizes
        <4>3. e \in 1 .. End /\ e <= a /\ b + 1 - c = a + 1 - e /\ a + 1 - e \in 1 .. a
          BY <2>2, <3>1, <4>2
        <4>4. QED BY <4>1, <4>3
      <3>3. PICK w : w = Back(wr, e)
        OBVIOUS
      <3>4. Back(wr + t, c) = w
        BY <2>2, <3>1, <3>3 DEF Back
      <3>5. w \in 0 .. End - 1
        BY <1>2, <3>2, <3>3, BackFacts
      <3>6. w < wr \/ w >= wr + t
        BY <1>2, <1>5, <2>2, <3>1, <3>3, Sizes DEF Back
      <3>7. y.win[w] = x.win[w]
        BY <1>4, <3>5, <3>6
      <3>8. x.win[w] = p[Len(p) + 1 - e]
        BY <1>1, <1>3, <3>2, <3>3 DEF Shows
      <3>9. p[Len(p) + 1 - e] = n[Len(p) + 1 - e]
        BY <1>4, <3>2 DEF Leads
      <3>10. QED BY <3>2, <3>4, <3>7, <3>8, <3>9
    <2>3. QED BY <2>1, <2>2
  <1>10. Shows(y, n)
    BY <1>4, <1>9 DEF Shows
  <1>11. QED BY <1>3, <1>4, <1>7, <1>8, <1>10 DEF Sent

LEMMA PutSent ==
  ASSUME NEW x, Held(x), NEW h, NEW p, Sent(x, h, p), Room(x) # 0,
         NEW val, val \in Nat
  PROVE  Sent(Put(x, val), h, Append(p, val))
  <1>1. PICK y, n : y = Put(x, val) /\ n = Append(p, val)
    OBVIOUS
  <1>2. x.write \in Nat /\ x.write < End /\ Room(x) >= 1 /\ x.win \in [0 .. End - 1 -> Nat]
    BY HeldFields, Sizes DEF Room, Cells
  <1>3. /\ y.read = x.read /\ y.write = x.write + 1
        /\ y.win = [x.win EXCEPT ![x.write] = val]
    BY <1>1, <1>2, PutFacts
  <1>4. p \in Seq(Nat)
    BY DEF Sent
  <1>5. /\ n \in Seq(Nat) /\ Len(n) = Len(p) + 1 /\ Leads(p, n) /\ n[Len(p) + 1] = val
        /\ Len(p) \in Nat
    BY <1>1, <1>4, AppendFacts
  <1>6. PICK t \in Nat : t = 1
    OBVIOUS
  <1>7. Wrote(x, y, p, n, t)
    <2>1. \A w \in 0 .. End - 1 : w < x.write \/ w >= x.write + t => y.win[w] = x.win[w]
      BY <1>2, <1>3, <1>6
    <2>2. \A k \in Nat : k < t => y.win[x.write + k] = n[Len(p) + 1 + k]
      <3>1. y.win[x.write] = val
        <4>1. PICK w, k : w = x.win /\ k = x.write
          OBVIOUS
        <4>2. k \in 0 .. End - 1 /\ w \in [0 .. End - 1 -> Nat]
          BY <1>2, <4>1, Sizes
        <4>3. [w EXCEPT ![k] = val][k] = val
          BY <4>2
        <4>4. QED BY <1>3, <4>1, <4>3
      <3>2. \A k \in Nat : k < t => x.write + k = x.write /\ Len(p) + 1 + k = Len(p) + 1
        BY <1>2, <1>5, <1>6
      <3>3. QED BY <1>5, <3>1, <3>2
    <2>3. QED BY <1>3, <1>5, <1>6, <2>1, <2>2 DEF Wrote
  <1>8. t <= Room(x)
    BY <1>2, <1>6
  <1>9. QED BY <1>1, <1>7, <1>8, WroteSent

\* Steps through a period of d.
LEMMA ModStep ==
  ASSUME NEW a \in Nat, NEW d \in Nat, d > 0
  PROVE  /\ a % d \in Nat /\ a % d < d
         /\ a < d => a % d = a
         /\ a >= d => a % d = (a - d) % d
  <1>1. a % d \in Nat /\ a % d < d /\ (a < d => a % d = a)
    OBVIOUS
  <1>2. ASSUME a >= d PROVE a % d = (a - d) % d
    <2>1. PICK e \in Nat : e = a - d
      BY <1>2
    <2>2. PICK c \in Nat : c = 1
      OBVIOUS
    <2>3. (e + c * d) % d = e % d
      BY <2>1, ModAdd
    <2>4. e + c * d = a
      BY <2>1, <2>2
    <2>5. QED BY <2>1, <2>3, <2>4
  <1>3. QED BY <1>1, <1>2

\* Where a is in its period, from where it is without the e steps before.
Skips(a, d, e, j) ==
  IF j + e < d THEN a % d = j + e ELSE a % d = (j + e - d) % d

LEMMA ModSkip ==
  ASSUME NEW a, a \in Nat, NEW d, d \in Nat, d > 0, NEW e, e \in Nat,
         NEW b, b \in Nat, b + e = a, NEW j, j = b % d
  PROVE  Skips(a, d, e, j)
  <1>1. PICK q \in Nat, r \in Nat : b = q * d + r /\ r < d /\ r = b % d
    BY Parts
  <1>2. PICK u \in Nat : u = q * d
    BY Times
  <1>3. a = u + (r + e)
    BY <1>1, <1>2
  <1>4. PICK v \in Nat : v = r + e
    OBVIOUS
  <1>5. (v + q * d) % d = v % d
    BY ModAdd
  <1>6. v + q * d = a
    BY <1>2, <1>3, <1>4
  <1>7. a % d = v % d
    BY <1>5, <1>6
  <1>8. (v < d => v % d = v) /\ (v >= d => v % d = (v - d) % d)
    BY ModStep
  <1>9. CASE v < d
    <2>1. a % d = r + e /\ r + e < d /\ j = r
      BY <1>1, <1>4, <1>7, <1>8, <1>9
    <2>2. QED BY <2>1 DEF Skips
  <1>10. CASE ~ (v < d)
    <2>1. v >= d /\ ~ (r + e < d) /\ j = r /\ v - d = r + e - d
      BY <1>1, <1>4, <1>10
    <2>2. a % d = (r + e - d) % d
      BY <1>7, <1>8, <2>1, Zenon
    <2>3. QED BY <2>1, <2>2 DEF Skips
  <1>11. QED BY <1>9, <1>10

\* The next byte of o.
LEMMA NextLeads ==
  ASSUME NEW p \in Seq(Nat), NEW o \in Seq(Nat), Leads(p, o), Len(p) < Len(o)
  PROVE  /\ o[Len(p) + 1] \in Nat
         /\ Append(p, o[Len(p) + 1]) \in Seq(Nat)
         /\ Leads(Append(p, o[Len(p) + 1]), o)
         /\ Len(Append(p, o[Len(p) + 1])) = Len(p) + 1
  <1>1. Len(p) \in Nat /\ Len(o) \in Nat /\ Len(p) + 1 \in 1 .. Len(o)
    OBVIOUS
  <1>2. PICK v \in Nat : v = o[Len(p) + 1]
    BY <1>1
  <1>3. PICK n : n = Append(p, v)
    OBVIOUS
  <1>4. /\ n \in Seq(Nat) /\ Len(n) = Len(p) + 1 /\ n[Len(p) + 1] = v
        /\ \A j \in 1 .. Len(p) : n[j] = p[j]
    BY <1>3, AppendFacts
  <1>5. ASSUME NEW j \in 1 .. Len(n) PROVE n[j] = o[j]
    <2>1. CASE j \in 1 .. Len(p)
      BY <1>4, <2>1 DEF Leads
    <2>2. CASE j = Len(p) + 1
      BY <1>2, <1>4, <2>2
    <2>3. QED BY <1>1, <1>4, <2>1, <2>2
  <1>6. Leads(n, o)
    BY <1>1, <1>4, <1>5 DEF Leads
  <1>7. QED BY <1>2, <1>3, <1>4, <1>6

\* A copy repeats itself after d bytes.
LEMMA RepeatsBack ==
  ASSUME NEW o \in Seq(Nat), NEW n, NEW d \in Nat, d >= 1, d <= Len(o), NEW c \in Nat,
         Repeats(o, n, d, c), NEW q \in Nat, q >= Len(o), q < Len(n)
  PROVE  n[q + 1] = n[q + 1 - d] /\ q + 1 - d \in 1 .. q
  <1>1. PICK b \in Nat : b = Len(o)
    OBVIOUS
  <1>2. /\ n \in Seq(Nat) /\ Len(n) = b + c /\ \A j \in 1 .. b : n[j] = o[j]
        /\ \A m \in 0 .. c - 1 : n[b + 1 + m] = o[b - d + 1 + (m % d)]
    BY <1>1 DEF Repeats, Leads
  <1>3. PICK m \in Nat : m = q - b
    BY <1>1
  <1>4. m \in 0 .. c - 1 /\ b + 1 + m = q + 1 /\ q + 1 - d \in 1 .. q
    BY <1>1, <1>2, <1>3
  <1>5. n[q + 1] = o[b - d + 1 + (m % d)]
    BY <1>2, <1>4
  <1>6. CASE m < d
    <2>1. m % d = m
      BY <1>6, ModStep
    <2>2. b - d + 1 + m \in 1 .. b /\ b - d + 1 + m = q + 1 - d
      BY <1>1, <1>3, <1>6
    <2>3. n[q + 1 - d] = o[b - d + 1 + m]
      BY <1>2, <2>2
    <2>4. QED BY <1>4, <1>5, <2>1, <2>3
  <1>7. CASE m >= d
    <2>0. d > 0
      OBVIOUS
    <2>1. m % d = (m - d) % d
      BY <1>7, <2>0, ModStep, Zenon
    <2>2. PICK e \in Nat : e = m - d
      BY <1>7
    <2>3. e \in 0 .. c - 1 /\ b + 1 + e = q + 1 - d
      BY <1>3, <1>4, <2>2
    <2>4. n[b + 1 + e] = o[b - d + 1 + (e % d)]
      BY <1>2, <2>3
    <2>5. m % d = e % d
      BY <2>1, <2>2
    <2>6. n[q + 1] = n[b + 1 + e]
      BY <1>5, <2>4, <2>5
    <2>7. n[q + 1] = n[q + 1 - d]
      BY <2>3, <2>6
    <2>8. QED BY <1>4, <2>7
  <1>8. QED BY <1>6, <1>7

\* After t of the bytes of a stored block.
Gained(j, t) ==
  /\ Out[s][j + t] \in Seq(Nat) /\ Len(Out[s][j + t]) = Len(Out[s][j]) + t
  /\ Leads(Out[s][j], Out[s][j + t])
  /\ \A u \in Nat : u < t => Out[s][j + t][Len(Out[s][j]) + 1 + u] = s[j + u].val

LEMMA BytesGained ==
  ASSUME s \in Streams, NEW j \in Nat, j >= 1, j <= Len(s) + 1,
         NEW left \in Nat, left # 0, NEW last, Dues[s][j] = Due("byte", left, last)
  PROVE  \A t \in 0 .. left : Gained(j, t)
  <1> DEFINE S == {i \in 1 .. left + 1 : Gained(j, i - 1)}
  <1>0. Len(s) \in Nat /\ Out[s][j] \in Seq(Nat) /\ Len(Out[s][j]) \in Nat
    <2>1. Len(s) \in Nat
      BY StreamTypes
    <2>2. j \in 1 .. Len(s) + 1
      BY <2>1
    <2>3. Out[s][j] \in Seq(Nat)
      BY <2>2, OutTypes
    <2>4. QED BY <2>1, <2>3
  <1>1. 1 \in S
    <2>1. j + 0 = j /\ 1 - 1 = 0
      OBVIOUS
    <2>2. Leads(Out[s][j], Out[s][j])
      BY <1>0, LeadsSelf
    <2>3. Gained(j, 0)
      BY <1>0, <2>1, <2>2 DEF Gained
    <2>4. QED BY <2>1, <2>3
  <1>2. ASSUME NEW i \in 1 .. left + 1 - 1, i \in S PROVE i + 1 \in S
    <2>1. PICK t \in Nat : t = i - 1 /\ t < left
      BY <1>2
    <2>2. Gained(j, t)
      BY <1>2, <2>1
    <2>3. PICK k \in Nat : k = j + t /\ k >= 1
      BY <2>1
    <2>4. Run(j, left, last, t)
      <3>1. t \in 0 .. left
        BY <2>1
      <3>2. QED BY <3>1, ByteRun
    <2>5. k <= Len(s) + 1 /\ Dues[s][k] = Due("byte", left - t, last)
      BY <2>1, <2>3, <2>4 DEF Run
    <2>6. Dues[s][k].what = "byte"
      BY <2>5, DueFields
    <2>7. k <= Len(s) /\ s[k].val \in Nat
      BY <2>3, <2>5, <2>6, ByteNext
    <2>8. k \in 1 .. Len(s)
      BY <1>0, <2>3, <2>7
    <2>9. s[k].is = "byte"
      <3>1. PICK f, d, o : f = s[k] /\ d = Dues[s][k] /\ o = Out[s][k]
        OBVIOUS
      <3>2. Fits(d, f, o)
        BY <2>8, <3>1, StreamAssumption
      <3>3. f \in Fields /\ d \in States
        <4>1. k \in 1 .. Len(s) + 1
          BY <1>0, <2>8
        <4>2. QED BY <2>8, <3>1, <4>1, StreamTypes, DuesFacts
      <3>4. QED BY <2>6, <3>1, <3>2, <3>3, FitsIs
    <2>10. PICK a, b, c, v : a = Out[s][j] /\ b = Out[s][k] /\ c = Out[s][k + 1] /\ v = s[k].val
      OBVIOUS
    <2>11. /\ a \in Seq(Nat) /\ b \in Seq(Nat) /\ Len(b) = Len(a) + t /\ Leads(a, b)
           /\ \A u \in Nat : u < t => b[Len(a) + 1 + u] = s[j + u].val
           /\ v \in Nat
      BY <1>0, <2>2, <2>3, <2>7, <2>10 DEF Gained
    <2>12. c = Append(b, v)
      BY <2>8, <2>9, <2>10, <2>11, GrownFacts
    <2>13. /\ c \in Seq(Nat) /\ Len(c) = Len(b) + 1 /\ Leads(b, c) /\ c[Len(b) + 1] = v
           /\ \A m \in 1 .. Len(b) : c[m] = b[m]
      BY <2>11, <2>12, AppendFacts
    <2>14. PICK w \in Nat : w = t + 1
      OBVIOUS
    <2>15. j + w = k + 1 /\ Out[s][j + w] = c
      BY <2>3, <2>10, <2>14
    <2>16. Leads(a, c)
      BY <2>11, <2>13, LeadsOn
    <2>17. PICK h \in Nat : h = Len(a)
      BY <2>11
    <2>18. ASSUME NEW u \in Nat, u < w PROVE c[h + 1 + u] = s[j + u].val
      <3>1. CASE u < t
        <4>1. h + 1 + u \in 1 .. Len(b)
          BY <2>11, <2>17, <3>1
        <4>2. QED BY <2>11, <2>13, <2>17, <3>1, <4>1
      <3>2. CASE u = t
        <4>1. h + 1 + u = Len(b) + 1 /\ j + u = k
          BY <2>3, <2>11, <2>17, <3>2
        <4>2. QED BY <2>10, <2>13, <4>1
      <3>3. QED BY <2>14, <2>18, <3>1, <3>2
    <2>19. Len(c) = Len(a) + w
      BY <2>11, <2>13, <2>14, <2>17
    <2>20. Gained(j, w)
      BY <2>10, <2>13, <2>15, <2>16, <2>17, <2>18, <2>19 DEF Gained
    <2>21. i + 1 - 1 = w /\ i + 1 \in 1 .. left + 1
      BY <1>2, <2>1, <2>14
    <2>22. QED BY <2>20, <2>21
  <1> HIDE DEF S
  <1>3. \A i \in 1 .. left + 1 : i \in S
    <2>1. PICK m \in Nat : m = left + 1
      OBVIOUS
    <2>2. QED BY <1>1, <1>2, <2>1, Chain
  <1>4. ASSUME NEW t \in 0 .. left PROVE Gained(j, t)
    <2>1. t + 1 \in S /\ t + 1 - 1 = t
      BY <1>3
    <2>2. QED BY <2>1 DEF S
  <1>5. QED BY <1>4

-----------------------------------------------------------------------------
(***************************************************************************)
(* What a state of the decoder tells of the stream: the bytes of the fields*)
(* read so far have been written, but for what LIT and COPY still owe.     *)
(* Every step of the decoder leaves it so.                                 *)
(***************************************************************************)
\* The bytes that the fields read so far stand for and that are not yet written.
Owing(x) == IF x.mode = "LIT" THEN 1 ELSE IF x.mode = "COPY" THEN x.left ELSE 0

\* p has been written, and how much of the field read last is missing.
Owes(x, p) ==
  /\ Leads(p, Out[s][x.i + 1])
  /\ Len(p) + Owing(x) = Len(Out[s][x.i + 1])
  /\ x.mode = "LIT" => x.i >= 1 /\ s[x.i].is = "lit"
  /\ x.mode = "COPY" => /\ x.i >= 2 /\ s[x.i].is = "dist" /\ x.dist = s[x.i].val
                        /\ x.left <= s[x.i - 1].val
  /\ x.mode \in {"DIST", "DISTEXT", "FASTDIST"} => x.i >= 1 /\ x.left = s[x.i].val

\* h has been copied out, and with what the window holds this is what the fields
\* read so far stand for, but for what is owed; behind an error less is known.
Tells(x, h) == \E p : Sent(x, h, p) /\ Owes(x, p)
Begins(x, h) == \E p : Sent(x, h, p) /\ Leads(p, Decoded(s))

\* What the place pc makes of handed.
Total(x, place, h) == IF place \in {"inflate", "astray"} THEN h \o x.out ELSE h

\* h has been handed out before a decoder x in this place.
Told(x, place, h) ==
  /\ h \in Seq(Nat) /\ Leads(h, Decoded(s))
  /\ Live(x) => Tells(x, Total(x, place, h))
  /\ x.mode = "DONE" => h = Decoded(s)

LEMMA OwesLeads ==
  ASSUME s \in Streams, NEW x, Held(x), x.i <= Len(s), NEW h, Tells(x, h)
  PROVE  Begins(x, h)
  <1>1. PICK p : Sent(x, h, p) /\ Owes(x, p)
    BY DEF Tells
  <1>2. PICK i : i = x.i + 1
    OBVIOUS
  <1>3. i \in 1 .. Len(s) + 1
    BY <1>2, HeldFields, StreamTypes
  <1>4. Out[s][i] \in Seq(Nat) /\ Decoded(s) \in Seq(Nat) /\ Leads(Out[s][i], Decoded(s))
    BY <1>3, OutLeads
  <1>5. p \in Seq(Nat) /\ Leads(p, Out[s][i])
    BY <1>1, <1>2 DEF Sent, Owes
  <1>6. Leads(p, Decoded(s))
    BY <1>4, <1>5, LeadsOn
  <1>7. QED BY <1>1, <1>6 DEF Begins

\* The window and what has been copied out of it.
Same(x, y) == y.win = x.win /\ y.read = x.read /\ y.write = x.write /\ y.out = x.out

LEMMA SameTells ==
  ASSUME NEW x, NEW h, Tells(x, h), NEW y, Same(x, y), y.i = x.i, y.mode = x.mode,
         y.left = x.left, y.dist = x.dist
  PROVE  Tells(y, h)
  <1>1. PICK p : Sent(x, h, p) /\ Owes(x, p)
    BY DEF Tells
  <1>2. Sent(y, h, p)
    BY <1>1, QuietSent DEF Same
  <1>3. Owes(y, p)
    BY <1>1 DEF Owes, Owing
  <1>4. QED BY <1>2, <1>3 DEF Tells

LEMMA SameBegins ==
  ASSUME NEW x, NEW h, Begins(x, h), NEW y, Same(x, y)
  PROVE  Begins(y, h)
  <1>1. PICK p : Sent(x, h, p) /\ Leads(p, Decoded(s))
    BY DEF Begins
  <1>2. Sent(y, h, p)
    BY <1>1, QuietSent DEF Same
  <1>3. QED BY <1>1, <1>2 DEF Begins

\* A step that decodes nothing, or a field that stands for no byte.
LEMMA StillTells ==
  ASSUME NEW x, NEW h, Tells(x, h), NEW y, Same(x, y),
         Out[s][y.i + 1] = Out[s][x.i + 1], Owing(x) = 0, y.mode \notin {"LIT", "COPY"},
         y.mode \in {"DIST", "DISTEXT", "FASTDIST"} => y.i >= 1 /\ y.left = s[y.i].val
  PROVE  Tells(y, h)
  <1>1. PICK p : Sent(x, h, p) /\ Owes(x, p)
    BY DEF Tells
  <1>2. Sent(y, h, p)
    BY <1>1, QuietSent DEF Same
  <1>3. Owing(y) = 0
    BY DEF Owing
  <1>4. Owes(y, p)
    BY <1>1, <1>3 DEF Owes
  <1>5. QED BY <1>2, <1>4 DEF Tells

LEMMA FlushTells ==
  ASSUME NEW x, Held(x), NEW h, h \in Seq(Nat)
  PROVE  /\ Tells(x, h \o x.out) => Tells(Flush(x), h \o Flush(x).out)
         /\ Begins(x, h \o x.out) => Begins(Flush(x), h \o Flush(x).out)
  <1>1. PICK y : y = Flush(x)
    OBVIOUS
  <1>2. CoreOf(x, y)
    BY <1>1, FlushFacts, CoreIs
  <1>3. ASSUME NEW p, Owes(x, p) PROVE Owes(y, p)
    BY <1>2, <1>3 DEF Owes, Owing, CoreOf
  <1>4. ASSUME NEW p, Sent(x, h \o x.out, p) PROVE Sent(y, h \o y.out, p)
    BY <1>1, <1>4, FlushSent
  <1>5. QED BY <1>1, <1>3, <1>4 DEF Tells, Begins

LEMMA RoomTells ==
  ASSUME NEW x, Held(x), NEW h, h \in Seq(Nat), Tells(x, h \o x.out)
  PROVE  Tells(MakeRoom(x), h \o MakeRoom(x).out)
  <1>1. PICK y : y = MakeRoom(x)
    OBVIOUS
  <1>2. CoreOf(x, y)
    BY <1>1, MakeRoomFacts, CoreIs
  <1>3. PICK p : Sent(x, h \o x.out, p) /\ Owes(x, p)
    BY DEF Tells
  <1>4. Owes(y, p)
    BY <1>2, <1>3 DEF Owes, Owing, CoreOf
  <1>5. Sent(y, h \o y.out, p)
    BY <1>1, <1>3, RoomSent
  <1>6. QED BY <1>1, <1>4, <1>5 DEF Tells

\* inflate() returns: what it has copied out is handed on.
LEMMA ReturnTells ==
  ASSUME s \in Streams, NEW x, Held(x), x.i <= Len(s),
         handed \in Seq(Nat), Begins(x, handed \o x.out),
         Live(x) => Tells(x, handed \o x.out),
         x.mode = "DONE" => Pending(x) = 0 /\ handed \o x.out = Decoded(s),
         Return(x)
  PROVE  Told(z', pc', handed')
  <1>1. PICK y : y = Flush(x)
    OBVIOUS
  <1>2. /\ z' = IF y.mode = "DONE" THEN [y EXCEPT !.read = 0, !.write = 0, !.k = 0] ELSE y
        /\ handed' = handed \o y.out /\ pc' = "check"
    BY <1>1 DEF Return
  <1>3. Held(y) /\ CoreOf(x, y)
    BY <1>1, FlushFacts, CoreIs
  <1>4. Begins(y, handed \o y.out)
    BY <1>1, FlushTells
  <1>5. handed' \in Seq(Nat) /\ Leads(handed', Decoded(s))
    <2>1. PICK p : Sent(y, handed', p) /\ Leads(p, Decoded(s))
      BY <1>2, <1>4 DEF Begins
    <2>2. Decoded(s) \in Seq(Nat)
      <3>1. Len(s) + 1 \in 1 .. Len(s) + 1
        BY StreamTypes
      <3>2. QED BY <3>1, OutTypes DEF Decoded
    <2>3. p \in Seq(Nat) /\ handed' \in Seq(Nat) /\ Leads(handed', p)
      BY <2>1 DEF Sent
    <2>4. QED BY <2>1, <2>2, <2>3, LeadsOn
  <1>6. CASE y.mode = "DONE"
    <2>1. x.mode = "DONE"
      BY <1>3, <1>6 DEF CoreOf
    <2>2. z'.mode = "DONE"
      BY <1>2, <1>3, <1>6 DEF Held, Decoders
    <2>3. GiveCount(x) = 0
      BY <2>1, PendingFacts
    <2>4. y.out = x.out
      <3>1. y.out = x.out \o Given(x) /\ Given(x) \in Seq(Nat) /\ Len(Given(x)) = 0
        BY <1>1, <2>3, FlushFacts, GivenFacts
      <3>2. Given(x) = <<>>
        BY <3>1, EmptySeq
      <3>3. x.out \in Seq(Nat)
        BY HeldFields
      <3>4. QED BY <3>1, <3>2, <3>3
    <2>5. handed' = Decoded(s)
      BY <1>2, <2>1, <2>4
    <2>6. QED BY <1>5, <2>2, <2>5 DEF Told, Live
  <1>7. CASE y.mode # "DONE"
    <2>1. z' = y
      BY <1>2, <1>7
    <2>2. Live(y) => Tells(y, handed')
      <3>1. Live(y) => Live(x)
        BY <1>3 DEF Live, CoreOf
      <3>2. QED BY <1>1, <1>2, <3>1, FlushTells
    <2>3. Total(y, pc', handed') = handed'
      BY <1>2 DEF Total
    <2>4. QED BY <1>5, <1>7, <2>1, <2>2, <2>3 DEF Told
  <1>8. QED BY <1>6, <1>7

LEMMA FailTells ==
  ASSUME s \in Streams, NEW x, Held(x), x.i <= Len(s),
         handed \in Seq(Nat), Begins(x, handed \o x.out), Fail(x)
  PROVE  Told(z', pc', handed')
  <1>1. PICK y : y = [x EXCEPT !.r = "DATA", !.mode = "BAD"]
    OBVIOUS
  <1>2. y \in Decoders /\ y.mode = "BAD" /\ y.i = x.i /\ Same(x, y)
    BY <1>1 DEF Held, Decoders, Modes, Same
  <1>3. Held(y)
    BY <1>2 DEF Held, Same
  <1>4. Begins(y, handed \o y.out)
    BY <1>2, SameBegins DEF Same
  <1>5. Return(y)
    BY <1>1 DEF Fail
  <1>6. QED BY <1>2, <1>3, <1>4, <1>5, ReturnTells DEF Live

LEMMA GoTells ==
  ASSUME NEW x, Tells(x, handed \o x.out), x.mode # "DONE", handed \in Seq(Nat),
         Leads(handed, Decoded(s)), pc = "inflate", Go(x)
  PROVE  Told(z', pc', handed')
  <1>1. z' = x /\ pc' = "inflate" /\ handed' = handed
    BY DEF Go
  <1>2. QED BY <1>1 DEF Told, Total

\* What is known before a step of the decoder.
Before(g) ==
  /\ s \in Streams /\ Ready(z, g) /\ pc = "inflate" /\ Live(z)
  /\ handed \in Seq(Nat) /\ Leads(handed, Decoded(s)) /\ Tells(z, handed \o z.out)

LEMMA BeforeIs ==
  ASSUME NEW g, s \in Streams, Ready(z, g), pc = "inflate", Live(z), Told(z, pc, handed)
  PROVE  Before(g)
  BY DEF Before, Told, Total

LEMMA AstrayTells ==
  ASSUME NEW g, Before(g), Astray
  PROVE  Told(z', pc', handed')
  BY DEF Astray, Before, Told, Total, Live

LEMMA BackTells ==
  ASSUME NEW g, Before(g), NEW x, Held(x), x.i <= Len(s), Live(x), Tells(x, handed \o x.out),
         Return(x)
  PROVE  Told(z', pc', handed')
  <1>1. s \in Streams /\ handed \in Seq(Nat) /\ x.mode # "DONE"
    BY DEF Before, Live
  <1>2. Begins(x, handed \o x.out)
    BY <1>1, OwesLeads
  <1>3. QED BY <1>1, <1>2, ReturnTells

LEMMA OnTells ==
  ASSUME NEW g, Before(g), NEW x, x.mode # "DONE", Tells(x, handed \o x.out), Go(x)
  PROVE  Told(z', pc', handed')
  BY GoTells DEF Before

LEMMA BadTells ==
  ASSUME NEW g, Before(g), NEW x, Held(x), x.i <= Len(s), Tells(x, handed \o x.out), Fail(x)
  PROVE  Told(z', pc', handed')
  <1>1. s \in Streams /\ handed \in Seq(Nat)
    BY DEF Before
  <1>2. Begins(x, handed \o x.out)
    BY <1>1, OwesLeads
  <1>3. QED BY <1>1, <1>2, FailTells

\* NEEDBITS.
LEMMA NeedTells ==
  ASSUME NEW g, Before(g), NEW bits, Looks(g, bits)
  PROVE  /\ Astray => Told(z', pc', handed')
         /\ Want(z, bits) > z.n /\ Return(Fetch(z, z.n)) => Told(z', pc', handed')
         /\ Want(z, bits) <= z.n => /\ Tells(Load(z, bits), handed \o Load(z, bits).out)
                                    /\ Same(z, Load(z, bits))
         /\ Want(z, bits) > z.n \/ Want(z, bits) <= z.n
  <1>1. Held(z) /\ z.i <= Len(s) /\ Live(z) /\ z.n \in Nat /\ z.k \in Nat /\ bits \in Nat
    BY HeldFields DEF Before, Ready, Kept, Amounts, Looks
  <1>2. Want(z, bits) \in Nat
    BY <1>1, WantFacts
  <1>3. ASSUME NEW c \in Nat
        PROVE  LET y == Fetch(z, c) IN
               /\ Held(y) /\ y.i <= Len(s) /\ Live(y) /\ Same(z, y)
               /\ Tells(y, handed \o y.out)
    <2>1. PICK y : y = Fetch(z, c)
      OBVIOUS
    <2>2. /\ Held(y) /\ y.i = z.i /\ y.mode = z.mode /\ y.left = z.left /\ y.dist = z.dist
          /\ Same(z, y)
      BY <1>1, <2>1, FetchFields DEF Same
    <2>3. Tells(y, handed \o z.out)
      BY <2>2, SameTells DEF Before
    <2>4. QED BY <1>1, <2>1, <2>2, <2>3 DEF Live, Same
  <1>4. Return(Fetch(z, z.n)) => Told(z', pc', handed')
    BY <1>1, <1>3, BackTells
  <1>5. QED BY <1>1, <1>2, <1>3, <1>4, AstrayTells DEF Load

\* x is the decoder with the bits of a field in its buffer.
Faced(x) ==
  /\ Held(x) /\ x.i <= Len(s) /\ x.i = z.i /\ x.mode = z.mode /\ x.left = z.left
  /\ x.dist = z.dist /\ x \in Decoders
  /\ Same(z, x) /\ Tells(x, handed \o x.out)
  /\ x.i \in Nat /\ x.i + 1 \in 1 .. Len(s) /\ F = s[x.i + 1] /\ F \in Fields
  /\ F.bits \in Nat /\ F.look \in Nat /\ F.extra \in Nat /\ F.val \in Nat

LEMMA NeedFaces ==
  ASSUME NEW g, Before(g), NEW bits, Looks(g, bits), DueAt(z).what \notin {"end", "nothing"},
         Want(z, bits) <= z.n
  PROVE  Faced(Load(z, bits))
  <1>1. PICK x : x = Load(z, bits)
    OBVIOUS
  <1>2. s \in Streams /\ Held(z) /\ z.i <= Len(s) /\ z.n \in Nat /\ z.k \in Nat /\ bits \in Nat
    BY HeldFields DEF Before, Ready, Kept, Amounts, Looks
  <1>3. Held(x) /\ x.i = z.i /\ x.mode = z.mode /\ x.left = z.left /\ x.dist = z.dist
    <2>1. Want(z, bits) \in Nat
      BY <1>2, WantFacts
    <2>2. QED BY <1>1, <1>2, <2>1, FetchFields DEF Load
  <1>4. Tells(x, handed \o x.out) /\ Same(z, x)
    BY <1>1, NeedTells
  <1>5. z.i + 1 \in 1 .. Len(s) /\ Ahead(z) \in Fields
    BY <1>2, FieldAhead
  <1>6. F = s[z.i + 1] /\ F \in Fields
    BY <1>5 DEF F, Ahead
  <1>7. F.bits \in Nat /\ F.look \in Nat /\ F.extra \in Nat /\ F.val \in Nat
    BY <1>6, FieldFacts
  <1>8. QED BY <1>1, <1>2, <1>3, <1>4, <1>5, <1>6, <1>7, HeldFields DEF Faced, Held

\* y is x after a field.
Went(x, y, mode) == Same(x, y) /\ y.i = x.i + 1 /\ y.mode = mode

\* A field that stands for no byte.
LEMMA SilentTells ==
  ASSUME s \in Streams, NEW x, NEW h, Faced(x), Tells(x, h),
         F.is \notin {"lit", "byte", "dist"}, Owing(x) = 0,
         NEW y, NEW mode, Went(x, y, mode), mode \notin {"LIT", "COPY"},
         mode \in {"DIST", "DISTEXT", "FASTDIST"} => y.left = F.val
  PROVE  Tells(y, h)
  <1>1. PICK i : i = x.i + 1
    OBVIOUS
  <1>2. i \in 1 .. Len(s) /\ F = s[i] /\ y.i = i /\ i >= 1 /\ i \in Nat
    BY <1>1 DEF Faced, Went
  <1>3. Out[s][i] \in Seq(Nat)
    <2>1. i \in 1 .. Len(s) + 1
      BY <1>2, StreamTypes
    <2>2. QED BY <2>1, OutTypes
  <1>4. Out[s][i + 1] = Out[s][i]
    BY <1>2, <1>3, GrownFacts
  <1>5. Out[s][y.i + 1] = Out[s][x.i + 1]
    BY <1>1, <1>2, <1>4
  <1>6. y.mode \in {"DIST", "DISTEXT", "FASTDIST"} => y.i >= 1 /\ y.left = s[y.i].val
    BY <1>2 DEF Went
  <1>7. Same(x, y) /\ y.mode \notin {"LIT", "COPY"}
    BY DEF Went
  <1>8. QED BY <1>5, <1>6, <1>7, StillTells

LEMMA SilentGoes ==
  ASSUME NEW g, Before(g), NEW x, Faced(x),
         F.is \notin {"lit", "byte", "dist"}, z.mode \notin {"LIT", "COPY"},
         NEW y, NEW mode, Went(x, y, mode), mode \notin {"LIT", "COPY", "DONE"},
         mode \in {"DIST", "DISTEXT", "FASTDIST"} => y.left = F.val,
         Go(y)
  PROVE  Told(z', pc', handed')
  <1>1. Owing(x) = 0 /\ Tells(x, handed \o x.out) /\ y.out = x.out /\ y.mode # "DONE"
    BY DEF Owing, Faced, Went, Same
  <1>2. s \in Streams
    BY DEF Before
  <1>3. Tells(y, handed \o y.out)
    BY <1>1, <1>2, SilentTells
  <1>4. QED BY <1>1, <1>3, OnTells

LEMMA FacedFails ==
  ASSUME NEW g, Before(g), NEW x, Faced(x), NEW y, Held(y), Same(x, y), y.i = x.i,
         y.mode = x.mode, y.left = x.left, y.dist = x.dist, Fail(y)
  PROVE  Told(z', pc', handed')
  <1>1. Tells(y, handed \o y.out)
    <2>1. Tells(x, handed \o x.out) /\ y.out = x.out
      BY DEF Faced, Same
    <2>2. QED BY <2>1, SameTells
  <1>2. y.i <= Len(s)
    BY DEF Faced
  <1>3. QED BY <1>1, <1>2, BadTells

LEMMA TypeTells ==
  ASSUME NEW g, Before(g), Type
  PROVE  Told(z', pc', handed')
  <1>1. /\ s \in Streams /\ Ready(z, g) /\ z.mode = "TYPE" /\ Live(z) /\ Kept(z, g)
        /\ Place(z)
    BY DEF Type, In, Before, Ready, Kept
  <1>2. DueAt(z).what = "block" /\ Ahead(z) = F
    BY <1>1 DEF Place, Ahead, F
  <1>3. F.look \in Nat /\ F.look <= LitBits
    BY <1>1, <1>2, Lookup
  <1>4. Looks(g, F.look)
    BY <1>1, <1>3 DEF Looks, Fastest
  <1>5. PICK x : x = Load(z, F.look)
    OBVIOUS
  <1> DEFINE y == [Drop(x, F.bits) EXCEPT !.last = F.val = 1]
             w == [y EXCEPT !.k = @ - (@ % Byte)]
             C == \/ F.is = "stored" /\ Go(Done(w, "LENS"))
                  \/ F.is = "fixed" /\ Go(Done(y, "START"))
                  \/ F.is = "dynamic" /\ Go(Done(y, "TABLE"))
                  \/ F.is \notin {"stored", "fixed", "dynamic"} /\ Fail(y)
  <1>6. \/ Astray
        \/ Want(z, F.look) > z.n /\ Return(Fetch(z, z.n))
        \/ ~ (Want(z, F.look) > z.n) /\ C
    BY <1>5 DEF Type, Need
  <1>7. ASSUME Want(z, F.look) <= z.n, C PROVE Told(z', pc', handed')
    <2>1. Faced(x)
      BY <1>2, <1>4, <1>5, <1>7, NeedFaces
    <2>2. x \in Decoders /\ F.bits \in Nat /\ Held(x) /\ x.mode = "TYPE"
      BY <1>1, <2>1 DEF Faced
    <2>3. CASE F.is = "stored" /\ Go(Done(w, "LENS"))
      <3>1. PICK v, mode : v = Done(w, mode) /\ mode = "LENS"
        OBVIOUS
      <3>2. Went(x, v, mode)
        BY <2>2, <3>1 DEF Went, Same, Done, Drop, Decoders
      <3>3. QED BY <1>1, <2>1, <2>3, <3>1, <3>2, SilentGoes
    <2>4. ASSUME F.is \in {"fixed", "dynamic"}, NEW mode, mode \in {"START", "TABLE"},
                 Go(Done(y, mode))
          PROVE  Told(z', pc', handed')
      <3>1. PICK v : v = Done(y, mode)
        OBVIOUS
      <3>2. Went(x, v, mode)
        BY <2>2, <3>1 DEF Went, Same, Done, Drop, Decoders
      <3>3. QED BY <1>1, <2>1, <2>4, <3>1, <3>2, SilentGoes
    <2>5. CASE F.is \notin {"stored", "fixed", "dynamic"} /\ Fail(y)
      <3>1. /\ Same(x, y) /\ y.i = x.i /\ y.mode = x.mode /\ y.left = x.left /\ y.dist = x.dist
            /\ Held(y)
        <4>1. Held(Drop(x, F.bits))
          BY <2>2, DropFacts DEF Became
        <4>2. Held(y)
          BY <4>1 DEF Held, Decoders
        <4>3. QED BY <2>2, <4>2 DEF Same, Drop, Decoders
      <3> HIDE DEF y
      <3>2. QED BY <2>1, <2>5, <3>1, FacedFails
    <2>6. QED BY <1>7, <2>3, <2>4, <2>5
  <1>8. QED BY <1>4, <1>6, <1>7, NeedTells

LEMMA LensTells ==
  ASSUME NEW g, Before(g), Lens
  PROVE  Told(z', pc', handed')
  <1>1. /\ s \in Streams /\ Ready(z, g) /\ z.mode = "LENS" /\ Live(z) /\ Kept(z, g)
        /\ Place(z)
    BY DEF Lens, In, Before, Ready, Kept
  <1>2. DueAt(z).what = "lens" /\ Ahead(z) = F
    BY <1>1 DEF Place, Ahead, F
  <1>3. /\ F.look \in Nat
        /\ F.is = "lens" => F.look = F.bits /\ F.bits % Byte = 0
        /\ Bad(F) \/ F.is = "lens"
    BY <1>1, <1>2, Lookup
  <1>4. Looks(g, F.look)
    BY <1>1, <1>2, <1>3 DEF Looks, Fastest
  <1>5. PICK x : x = Load(z, F.look)
    OBVIOUS
  <1>6. PICK mode : mode = IF F.val # 0 THEN "STORED" ELSE NextBlock(x)
    OBVIOUS
  <1>7. PICK y : y = Done([x EXCEPT !.k = 0, !.left = F.val], mode)
    OBVIOUS
  <1>8. \/ Astray
        \/ Want(z, F.look) > z.n /\ Return(Fetch(z, z.n))
        \/ ~ (Want(z, F.look) > z.n) /\ Bad(F) /\ Fail(x)
        \/ ~ (Want(z, F.look) > z.n) /\ ~ Bad(F) /\ Go(y)
    BY <1>5, <1>6, <1>7 DEF Lens, Need
  <1>9. ASSUME Want(z, F.look) <= z.n, (Bad(F) /\ Fail(x)) \/ (~ Bad(F) /\ Go(y))
        PROVE  Told(z', pc', handed')
    <2>1. Faced(x)
      BY <1>2, <1>4, <1>5, <1>9, NeedFaces
    <2>2. x \in Decoders /\ F.bits \in Nat /\ Held(x)
      BY <2>1 DEF Faced
    <2>3. CASE Bad(F) /\ Fail(x)
      BY <2>1, <2>2, <2>3, FacedFails DEF Same
    <2>4. CASE ~ Bad(F) /\ Go(y)
      <3>1. Went(x, y, mode)
        BY <1>7, <2>2 DEF Went, Same, Done, Decoders
      <3>2. mode \in {"STORED", "DRY", "TYPE"}
        BY <1>6 DEF NextBlock
      <3>3. F.is = "lens"
        BY <1>3, <2>4
      <3>4. QED BY <1>1, <2>1, <2>4, <3>1, <3>2, <3>3, SilentGoes
    <2>5. QED BY <1>9, <2>3, <2>4
  <1>10. ~ (Want(z, F.look) > z.n) => Want(z, F.look) <= z.n
    BY <1>4, NeedTells
  <1>11. /\ Astray => Told(z', pc', handed')
         /\ Want(z, F.look) > z.n /\ Return(Fetch(z, z.n)) => Told(z', pc', handed')
    BY <1>4, NeedTells
  <1>12. QED BY <1>8, <1>9, <1>10, <1>11

LEMMA TableTells ==
  ASSUME NEW g, Before(g), Table
  PROVE  Told(z', pc', handed')
  <1>1. /\ s \in Streams /\ Ready(z, g) /\ z.mode = "TABLE" /\ Live(z) /\ Kept(z, g)
        /\ Place(z)
    BY DEF Table, In, Before, Ready, Kept
  <1>2. DueAt(z).what = "table" /\ Ahead(z) = F
    BY <1>1 DEF Place, Ahead, F
  <1>3. F.look \in Nat /\ F.look <= LitBits /\ (Bad(F) \/ F.is = "table")
    <2>1. F \in Fields /\ Fits(DueAt(z), F, Out[s][z.i + 1]) /\ DueAt(z) \in States
      BY <1>1, <1>2, Facing
    <2>2. Bad(F) \/ F.is = "table"
      BY <1>2, <2>1, FitsIs
    <2>3. QED BY <1>1, <1>2, <2>2, Lookup
  <1>4. Looks(g, F.look)
    BY <1>1, <1>2, <1>3 DEF Looks, Fastest
  <1>5. PICK x : x = Load(z, F.look)
    OBVIOUS
  <1>6. PICK mode : mode = "TREES"
    OBVIOUS
  <1>7. PICK y : y = Done([Drop(x, F.bits) EXCEPT !.left = F.val], mode)
    OBVIOUS
  <1>8. \/ Astray
        \/ Want(z, F.look) > z.n /\ Return(Fetch(z, z.n))
        \/ ~ (Want(z, F.look) > z.n) /\ Bad(F) /\ Fail(x)
        \/ ~ (Want(z, F.look) > z.n) /\ ~ Bad(F) /\ Go(y)
    BY <1>5, <1>6, <1>7 DEF Table, Need
  <1>9. ASSUME Want(z, F.look) <= z.n, (Bad(F) /\ Fail(x)) \/ (~ Bad(F) /\ Go(y))
        PROVE  Told(z', pc', handed')
    <2>1. Faced(x)
      BY <1>2, <1>4, <1>5, <1>9, NeedFaces
    <2>2. x \in Decoders /\ F.bits \in Nat /\ Held(x)
      BY <2>1 DEF Faced
    <2>3. CASE Bad(F) /\ Fail(x)
      BY <2>1, <2>2, <2>3, FacedFails DEF Same
    <2>4. CASE ~ Bad(F) /\ Go(y)
      <3>1. Went(x, y, mode)
        BY <1>7, <2>2 DEF Went, Same, Done, Drop, Decoders
      <3>2. F.is = "table"
        BY <1>3, <2>4
      <3>3. QED BY <1>1, <1>6, <2>1, <2>4, <3>1, <3>2, SilentGoes
    <2>5. QED BY <1>9, <2>3, <2>4
  <1>10. ~ (Want(z, F.look) > z.n) => Want(z, F.look) <= z.n
    BY <1>4, NeedTells
  <1>11. /\ Astray => Told(z', pc', handed')
         /\ Want(z, F.look) > z.n /\ Return(Fetch(z, z.n)) => Told(z', pc', handed')
    BY <1>4, NeedTells
  <1>12. QED BY <1>8, <1>9, <1>10, <1>11

LEMMA TreesTells ==
  ASSUME NEW g, Before(g), Trees
  PROVE  Told(z', pc', handed')
  <1>1. /\ s \in Streams /\ Ready(z, g) /\ z.mode = "TREES" /\ Live(z) /\ Kept(z, g)
        /\ Place(z) /\ Held(z) /\ Tells(z, handed \o z.out)
    BY DEF Trees, In, Before, Ready, Kept
  <1>2. CASE z.left = 0
    <2>1. PICK y : y = [z EXCEPT !.mode = "START"]
      OBVIOUS
    <2>2. Same(z, y) /\ y.i = z.i /\ y.mode = "START" /\ y.out = z.out
      BY <1>1, <2>1 DEF Held, Decoders, Same
    <2>3. Tells(y, handed \o y.out)
      BY <1>1, <2>2, StillTells DEF Owing
    <2>4. Go(y)
      BY <1>2, <2>1 DEF Trees
    <2>5. QED BY <2>2, <2>3, <2>4, OnTells
  <1>3. CASE z.left # 0
    <2>1. DueAt(z).what = "tree" /\ Ahead(z) = F
      BY <1>1, <1>3 DEF Place, Ahead, F
    <2>2. F.look \in Nat /\ F.look <= LitBits /\ (Bad(F) \/ F.is = "tree")
      <3>1. F \in Fields /\ Fits(DueAt(z), F, Out[s][z.i + 1]) /\ DueAt(z) \in States
        BY <1>1, <2>1, Facing
      <3>2. Bad(F) \/ F.is = "tree"
        BY <2>1, <3>1, FitsIs
      <3>3. QED BY <1>1, <2>1, <3>2, Lookup
    <2>3. Looks(g, F.look)
      BY <1>1, <2>1, <2>2 DEF Looks, Fastest
    <2>4. PICK x : x = Load(z, F.look)
      OBVIOUS
    <2>5. PICK mode : mode = "TREES"
      OBVIOUS
    <2>6. PICK y : y = Done([Drop(x, F.bits) EXCEPT !.left = @ - 1], mode)
      OBVIOUS
    <2>7. \/ Astray
          \/ Want(z, F.look) > z.n /\ Return(Fetch(z, z.n))
          \/ ~ (Want(z, F.look) > z.n) /\ Bad(F) /\ Fail(x)
          \/ ~ (Want(z, F.look) > z.n) /\ ~ Bad(F) /\ Go(y)
      BY <1>3, <2>4, <2>5, <2>6 DEF Trees, Need
    <2>8. ASSUME Want(z, F.look) <= z.n, (Bad(F) /\ Fail(x)) \/ (~ Bad(F) /\ Go(y))
          PROVE  Told(z', pc', handed')
      <3>1. Faced(x)
        BY <2>1, <2>3, <2>4, <2>8, NeedFaces
      <3>2. x \in Decoders /\ F.bits \in Nat /\ Held(x)
        BY <3>1 DEF Faced
      <3>3. CASE Bad(F) /\ Fail(x)
        BY <3>1, <3>2, <3>3, FacedFails DEF Same
      <3>4. CASE ~ Bad(F) /\ Go(y)
        <4>1. Went(x, y, mode)
          BY <2>6, <3>2 DEF Went, Same, Done, Drop, Decoders
        <4>2. F.is = "tree"
          BY <2>2, <3>4
        <4>3. QED BY <1>1, <2>5, <3>1, <3>4, <4>1, <4>2, SilentGoes
      <3>5. QED BY <2>8, <3>3, <3>4
    <2>9. ~ (Want(z, F.look) > z.n) => Want(z, F.look) <= z.n
      BY <2>3, NeedTells
    <2>10. /\ Astray => Told(z', pc', handed')
           /\ Want(z, F.look) > z.n /\ Return(Fetch(z, z.n)) => Told(z', pc', handed')
      BY <2>3, NeedTells
    <2>11. QED BY <2>7, <2>8, <2>9, <2>10
  <1>4. QED BY <1>2, <1>3

LEMMA StartTells ==
  ASSUME NEW g, Before(g), StartCodes
  PROVE  Told(z', pc', handed')
  <1>1. Held(z) /\ z.mode = "START" /\ Tells(z, handed \o z.out)
    BY DEF StartCodes, In, Before, Ready, Kept
  <1>2. PICK y : /\ y \in {[z EXCEPT !.mode = "FAST", !.n0 = z.n], [z EXCEPT !.mode = "LEN"]}
                 /\ Go(y)
    BY DEF StartCodes
  <1>3. Same(z, y) /\ y.i = z.i /\ y.mode \in {"FAST", "LEN"} /\ y.out = z.out
    BY <1>1, <1>2 DEF Held, Decoders, Same
  <1>4. Tells(y, handed \o y.out)
    BY <1>1, <1>3, StillTells DEF Owing
  <1>5. QED BY <1>2, <1>3, <1>4, OnTells

\* A literal that is read and not yet written.
LEMMA LitRead ==
  ASSUME s \in Streams, NEW x, NEW h, Faced(x), Tells(x, h), F.is = "lit", Owing(x) = 0,
         NEW y, NEW mode, Went(x, y, mode), mode = "LIT"
  PROVE  Tells(y, h)
  <1>1. PICK i : i = x.i + 1
    OBVIOUS
  <1>2. i \in 1 .. Len(s) /\ F = s[i] /\ y.i = i /\ i >= 1 /\ i \in Nat /\ F.val \in Nat
        /\ y.mode = "LIT" /\ Same(x, y)
    BY <1>1 DEF Faced, Went
  <1>3. PICK o, n : o = Out[s][i] /\ n = Out[s][i + 1]
    OBVIOUS
  <1>4. o \in Seq(Nat)
    <2>1. i \in 1 .. Len(s) + 1
      BY <1>2, StreamTypes
    <2>2. QED BY <1>3, <2>1, OutTypes
  <1>5. n = Append(o, F.val)
    BY <1>2, <1>3, <1>4, GrownFacts
  <1>6. n \in Seq(Nat) /\ Len(n) = Len(o) + 1 /\ Leads(o, n)
    BY <1>2, <1>4, <1>5, AppendFacts
  <1>7. PICK p : Sent(x, h, p) /\ Owes(x, p)
    BY DEF Tells
  <1>8. p \in Seq(Nat) /\ Leads(p, o) /\ Len(p) + 0 = Len(o)
    BY <1>1, <1>3, <1>7 DEF Sent, Owes
  <1>9. Leads(p, n) /\ Len(p) + 1 = Len(n)
    <2>1. Leads(p, n)
      BY <1>4, <1>6, <1>8, LeadsOn
    <2>2. Len(p) \in Nat /\ Len(o) \in Nat
      BY <1>4, <1>8
    <2>3. QED BY <1>6, <1>8, <2>1, <2>2
  <1>10. Sent(y, h, p)
    BY <1>2, <1>7, QuietSent DEF Same
  <1>11. Out[s][y.i + 1] = n /\ s[y.i].is = "lit" /\ Owing(y) = 1
    BY <1>2, <1>3 DEF Owing
  <1>12. Owes(y, p)
    BY <1>2, <1>9, <1>11 DEF Owes
  <1>13. QED BY <1>10, <1>12 DEF Tells

LEMMA LenCodeTells ==
  ASSUME NEW g, Before(g), LenCode
  PROVE  Told(z', pc', handed')
  <1>1. /\ s \in Streams /\ Ready(z, g) /\ z.mode = "LEN" /\ Live(z) /\ Kept(z, g)
        /\ Place(z)
    BY DEF LenCode, In, Before, Ready, Kept
  <1>2. DueAt(z).what = "code" /\ Ahead(z) = F
    BY <1>1 DEF Place, Ahead, F
  <1>3. F.look \in Nat /\ F.look <= LitBits
    BY <1>1, <1>2, Lookup
  <1>4. Looks(g, F.look)
    BY <1>1, <1>2, <1>3 DEF Looks, Fastest
  <1>5. PICK x : x = Load(z, F.look)
    OBVIOUS
  <1> DEFINE y == Drop(x, F.bits)
             C == \/ F.is = "lit" /\ Go(Done(y, "LIT"))
                  \/ F.is = "len" /\ Go([y EXCEPT !.mode = "LENEXT"])
                  \/ F.is = "eob" /\ Go(Done(y, "WASH"))
                  \/ F.is \notin {"lit", "len", "eob"} /\ Fail(y)
  <1>6. \/ Astray
        \/ Want(z, F.look) > z.n /\ Return(Fetch(z, z.n))
        \/ ~ (Want(z, F.look) > z.n) /\ C
    BY <1>5 DEF LenCode, Need
  <1>7. ASSUME Want(z, F.look) <= z.n, C PROVE Told(z', pc', handed')
    <2>1. Faced(x)
      BY <1>2, <1>4, <1>5, <1>7, NeedFaces
    <2>2. x \in Decoders /\ F.bits \in Nat /\ Held(x) /\ x.mode = "LEN" /\ Owing(x) = 0
          /\ Tells(x, handed \o x.out)
      BY <1>1, <2>1 DEF Faced, Owing
    <2>3. CASE F.is = "lit" /\ Go(Done(y, "LIT"))
      <3>1. PICK v, mode : v = Done(y, mode) /\ mode = "LIT"
        OBVIOUS
      <3>2. Went(x, v, mode) /\ v.out = x.out /\ v.mode # "DONE"
        BY <2>2, <3>1 DEF Went, Same, Done, Drop, Decoders
      <3>3. Tells(v, handed \o v.out)
        BY <1>1, <2>1, <2>2, <2>3, <3>1, <3>2, LitRead
      <3>4. QED BY <2>3, <3>1, <3>2, <3>3, OnTells
    <2>4. CASE F.is = "len" /\ Go([y EXCEPT !.mode = "LENEXT"])
      <3>1. PICK v : v = [y EXCEPT !.mode = "LENEXT"]
        OBVIOUS
      <3>2. Same(x, v) /\ v.i = x.i /\ v.mode = "LENEXT" /\ v.out = x.out
        BY <2>2, <3>1 DEF Same, Drop, Decoders
      <3>3. Tells(v, handed \o v.out)
        BY <2>2, <3>2, StillTells
      <3>4. QED BY <2>4, <3>1, <3>2, <3>3, OnTells
    <2>5. CASE F.is = "eob" /\ Go(Done(y, "WASH"))
      <3>1. PICK v, mode : v = Done(y, mode) /\ mode = "WASH"
        OBVIOUS
      <3>2. Went(x, v, mode)
        BY <2>2, <3>1 DEF Went, Same, Done, Drop, Decoders
      <3>3. QED BY <1>1, <2>1, <2>5, <3>1, <3>2, SilentGoes
    <2>6. CASE F.is \notin {"lit", "len", "eob"} /\ Fail(y)
      <3>1. /\ Same(x, y) /\ y.i = x.i /\ y.mode = x.mode /\ y.left = x.left
            /\ y.dist = x.dist /\ Held(y)
        BY <2>2, DropFacts DEF Became, Rest, Same
      <3>2. QED BY <2>1, <2>6, <3>1, FacedFails
    <2>7. QED BY <1>7, <2>3, <2>4, <2>5, <2>6
  <1>8. QED BY <1>4, <1>6, <1>7, NeedTells

LEMMA LenExtTells ==
  ASSUME NEW g, Before(g), LenExt
  PROVE  Told(z', pc', handed')
  <1>1. /\ s \in Streams /\ Ready(z, g) /\ z.mode = "LENEXT" /\ Live(z) /\ Kept(z, g)
        /\ Place(z)
    BY DEF LenExt, In, Before, Ready, Kept
  <1>2. DueAt(z).what = "code" /\ Ahead(z) = F /\ F.is = "len"
    BY <1>1 DEF Place, Ahead, F
  <1>3. F.extra \in Nat /\ F.extra <= LitBits
    BY <1>1, <1>2, Lookup DEF Bad
  <1>4. Looks(g, F.extra)
    BY <1>1, <1>2, <1>3 DEF Looks, Fastest
  <1>5. PICK x : x = Load(z, F.extra)
    OBVIOUS
  <1>6. PICK mode : mode = "DIST"
    OBVIOUS
  <1>7. PICK y : y = Done([Drop(x, F.extra) EXCEPT !.left = F.val], mode)
    OBVIOUS
  <1>8. \/ Astray
        \/ Want(z, F.extra) > z.n /\ Return(Fetch(z, z.n))
        \/ ~ (Want(z, F.extra) > z.n) /\ Go(y)
    BY <1>5, <1>6, <1>7 DEF LenExt, Need
  <1>9. ASSUME Want(z, F.extra) <= z.n, Go(y) PROVE Told(z', pc', handed')
    <2>1. Faced(x)
      BY <1>2, <1>4, <1>5, <1>9, NeedFaces
    <2>2. x \in Decoders
      BY <2>1 DEF Faced
    <2>3. Went(x, y, mode) /\ y.left = F.val
      BY <1>7, <2>2 DEF Went, Same, Done, Drop, Decoders
    <2>4. QED BY <1>1, <1>2, <1>6, <1>9, <2>1, <2>3, SilentGoes
  <1>10. ~ (Want(z, F.extra) > z.n) => Want(z, F.extra) <= z.n
    BY <1>4, NeedTells
  <1>11. /\ Astray => Told(z', pc', handed')
         /\ Want(z, F.extra) > z.n /\ Return(Fetch(z, z.n)) => Told(z', pc', handed')
    BY <1>4, NeedTells
  <1>12. QED BY <1>8, <1>9, <1>10, <1>11

LEMMA DistTells ==
  ASSUME NEW g, Before(g), Dist
  PROVE  Told(z', pc', handed')
  <1>1. /\ s \in Streams /\ Ready(z, g) /\ z.mode = "DIST" /\ Live(z) /\ Kept(z, g)
        /\ Place(z)
    BY DEF Dist, In, Before, Ready, Kept
  <1>2. DueAt(z).what = "dist" /\ Ahead(z) = F
    BY <1>1 DEF Place, Ahead, F
  <1>3. F.look \in Nat /\ F.look <= LitBits
    BY <1>1, <1>2, Lookup
  <1>4. Looks(g, F.look)
    BY <1>1, <1>2, <1>3 DEF Looks, Fastest
  <1>5. PICK x : x = Load(z, F.look)
    OBVIOUS
  <1>6. PICK y : y = Drop(x, F.bits)
    OBVIOUS
  <1>7. PICK v : v = [y EXCEPT !.mode = "DISTEXT"]
    OBVIOUS
  <1>8. \/ Astray
        \/ Want(z, F.look) > z.n /\ Return(Fetch(z, z.n))
        \/ ~ (Want(z, F.look) > z.n) /\ Bad(F) /\ Fail(y)
        \/ ~ (Want(z, F.look) > z.n) /\ ~ Bad(F) /\ Go(v)
    BY <1>5, <1>6, <1>7 DEF Dist, Need
  <1>9. ASSUME Want(z, F.look) <= z.n, Fail(y) \/ Go(v) PROVE Told(z', pc', handed')
    <2>1. Faced(x)
      BY <1>2, <1>4, <1>5, <1>9, NeedFaces
    <2>2. x \in Decoders /\ F.bits \in Nat /\ Held(x) /\ x.mode = "DIST"
          /\ Tells(x, handed \o x.out)
      BY <1>1, <2>1 DEF Faced
    <2>3. /\ Same(x, y) /\ y.i = x.i /\ y.mode = x.mode /\ y.left = x.left
          /\ y.dist = x.dist /\ Held(y)
      BY <1>6, <2>2, DropFacts DEF Became, Rest, Same
    <2>4. CASE Fail(y)
      BY <2>1, <2>3, <2>4, FacedFails
    <2>5. CASE Go(v)
      <3>1. Same(x, v) /\ v.i = x.i /\ v.mode = "DISTEXT" /\ v.out = x.out /\ v.left = x.left
        BY <1>7, <2>3 DEF Same, Held, Decoders
      <3>2. x.i >= 1 /\ x.left = s[x.i].val
        BY <2>2 DEF Tells, Owes
      <3>3. Tells(v, handed \o v.out)
        BY <2>2, <3>1, <3>2, StillTells DEF Owing
      <3>4. QED BY <2>5, <3>1, <3>3, OnTells
    <2>6. QED BY <1>9, <2>4, <2>5
  <1>10. ~ (Want(z, F.look) > z.n) => Want(z, F.look) <= z.n
    BY <1>4, NeedTells
  <1>11. /\ Astray => Told(z', pc', handed')
         /\ Want(z, F.look) > z.n /\ Return(Fetch(z, z.n)) => Told(z', pc', handed')
    BY <1>4, NeedTells
  <1>12. QED BY <1>8, <1>9, <1>10, <1>11

\* A distance that is read, before anything is copied.
LEMMA DistRead ==
  ASSUME s \in Streams, NEW x, NEW h, Faced(x), Tells(x, h), F.is = "dist",
         x.mode = "DISTEXT",
         NEW y, NEW mode, Went(x, y, mode), mode = "COPY", y.dist = F.val, y.left = x.left
  PROVE  Tells(y, h)
  <1>1. PICK i : i = x.i + 1
    OBVIOUS
  <1>2. i \in 1 .. Len(s) /\ F = s[i] /\ y.i = i /\ i \in Nat /\ y.mode = "COPY" /\ Same(x, y)
        /\ i - 1 = x.i
    BY <1>1 DEF Faced, Went
  <1>3. PICK o, n : o = Out[s][i] /\ n = Out[s][i + 1]
    OBVIOUS
  <1>4. o \in Seq(Nat)
    <2>1. i \in 1 .. Len(s) + 1
      BY <1>2, StreamTypes
    <2>2. QED BY <1>3, <2>1, OutTypes
  <1>5. Repeats(o, n, F.val, s[x.i].val)
    BY <1>2, <1>3, <1>4, GrownFacts
  <1>6. PICK p : Sent(x, h, p) /\ Owes(x, p)
    BY DEF Tells
  <1>7. /\ p \in Seq(Nat) /\ Leads(p, o) /\ Len(p) + 0 = Len(o)
        /\ x.i >= 1 /\ x.left = s[x.i].val
    BY <1>1, <1>3, <1>6 DEF Sent, Owes, Owing
  <1>8. n \in Seq(Nat) /\ Len(n) = Len(o) + x.left /\ Leads(o, n)
    BY <1>5, <1>7 DEF Repeats
  <1>9. Leads(p, n) /\ Len(p) + x.left = Len(n)
    <2>1. Leads(p, n)
      BY <1>4, <1>7, <1>8, LeadsOn
    <2>2. Len(p) \in Nat /\ Len(o) \in Nat /\ Len(p) = Len(o)
      BY <1>4, <1>7
    <2>3. QED BY <1>8, <2>1, <2>2
  <1>10. Sent(y, h, p)
    BY <1>2, <1>6, QuietSent DEF Same
  <1>11. Out[s][y.i + 1] = n /\ s[y.i] = F /\ Owing(y) = x.left /\ y.i >= 2
         /\ s[y.i - 1].val = x.left
    BY <1>2, <1>3, <1>7 DEF Owing
  <1>12. x.left <= x.left
    <2>1. x.left \in Nat
      BY HeldFields DEF Faced
    <2>2. QED BY <2>1
  <1>13. Owes(y, p)
    BY <1>2, <1>9, <1>11, <1>12 DEF Owes
  <1>14. QED BY <1>10, <1>13 DEF Tells

LEMMA DistExtTells ==
  ASSUME NEW g, Before(g), DistExt
  PROVE  Told(z', pc', handed')
  <1>1. /\ s \in Streams /\ Ready(z, g) /\ z.mode = "DISTEXT" /\ Live(z) /\ Kept(z, g)
        /\ Place(z)
    BY DEF DistExt, In, Before, Ready, Kept
  <1>2. DueAt(z).what = "dist" /\ Ahead(z) = F /\ F.is = "dist"
    BY <1>1 DEF Place, Ahead, F
  <1>3. F.extra \in Nat /\ F.extra <= LitBits
    BY <1>1, <1>2, Lookup DEF Bad
  <1>4. Looks(g, F.extra)
    BY <1>1, <1>2, <1>3 DEF Looks, Fastest
  <1>5. PICK x : x = Load(z, F.extra)
    OBVIOUS
  <1>6. PICK mode : mode = "COPY"
    OBVIOUS
  <1>7. PICK y : y = Done([Drop(x, F.extra) EXCEPT !.dist = F.val], mode)
    OBVIOUS
  <1>8. \/ Astray
        \/ Want(z, F.extra) > z.n /\ Return(Fetch(z, z.n))
        \/ ~ (Want(z, F.extra) > z.n) /\ Go(y)
    BY <1>5, <1>6, <1>7 DEF DistExt, Need
  <1>9. ASSUME Want(z, F.extra) <= z.n, Go(y) PROVE Told(z', pc', handed')
    <2>1. Faced(x)
      BY <1>2, <1>4, <1>5, <1>9, NeedFaces
    <2>2. x \in Decoders /\ x.mode = "DISTEXT" /\ Tells(x, handed \o x.out)
      BY <1>1, <2>1 DEF Faced
    <2>3. Went(x, y, mode) /\ y.dist = F.val /\ y.left = x.left /\ y.out = x.out
          /\ y.mode # "DONE"
      BY <1>6, <1>7, <2>2 DEF Went, Same, Done, Drop, Decoders
    <2>4. Tells(y, handed \o y.out)
      BY <1>1, <1>2, <1>6, <2>1, <2>2, <2>3, DistRead
    <2>5. QED BY <1>9, <2>3, <2>4, OnTells
  <1>10. ~ (Want(z, F.extra) > z.n) => Want(z, F.extra) <= z.n
    BY <1>4, NeedTells
  <1>11. /\ Astray => Told(z', pc', handed')
         /\ Want(z, F.extra) > z.n /\ Return(Fetch(z, z.n)) => Told(z', pc', handed')
    BY <1>4, NeedTells
  <1>12. QED BY <1>8, <1>9, <1>10, <1>11

LEMMA LitTells ==
  ASSUME NEW g, Before(g), Lit
  PROVE  Told(z', pc', handed')
  <1>1. /\ s \in Streams /\ Ready(z, g) /\ z.mode = "LIT" /\ Live(z) /\ Held(z) /\ z.i <= Len(s)
        /\ handed \in Seq(Nat) /\ Tells(z, handed \o z.out)
    BY DEF Lit, In, Before, Ready, Kept
  <1>2. PICK x : x = MakeRoom(z)
    OBVIOUS
  <1>3. CoreOf(z, x) /\ Held(x) /\ (Room(x) # 0 => x.write < End)
    BY <1>1, <1>2, RoomReady DEF Fastest
  <1>4. Tells(x, handed \o x.out)
    BY <1>1, <1>2, RoomTells
  <1>5. x.mode = "LIT" /\ x.i = z.i /\ Live(x) /\ x.i <= Len(s)
    BY <1>1, <1>3 DEF CoreOf, Live
  <1>6. \/ Room(x) = 0 /\ Return(x)
        \/ Room(x) # 0 /\ Go([Put(x, s[z.i].val) EXCEPT !.r = "OK", !.mode = "START"])
    BY <1>2 DEF Lit
  <1>7. CASE Room(x) = 0 /\ Return(x)
    BY <1>3, <1>4, <1>5, <1>7, BackTells
  <1>8. CASE Room(x) # 0 /\ Go([Put(x, s[z.i].val) EXCEPT !.r = "OK", !.mode = "START"])
    <2>1. PICK h : h = handed \o x.out
      OBVIOUS
    <2>2. PICK p : Sent(x, h, p) /\ Owes(x, p)
      BY <1>4, <2>1 DEF Tells
    <2>3. PICK i : i = x.i
      OBVIOUS
    <2>4. i \in Nat /\ i >= 1 /\ s[i].is = "lit"
      BY <1>3, <1>5, <2>2, <2>3, HeldFields DEF Owes
    <2>5. i \in 1 .. Len(s) /\ i \in 1 .. Len(s) + 1
      BY <1>1, <1>5, <2>3, <2>4, StreamTypes
    <2>6. PICK o, n, val : o = Out[s][i] /\ n = Out[s][i + 1] /\ val = s[i].val
      OBVIOUS
    <2>7. o \in Seq(Nat) /\ val \in Nat
      <3>1. o \in Seq(Nat)
        BY <1>1, <2>5, <2>6, OutTypes
      <3>2. s[i] \in Fields
        BY <1>1, <2>5, StreamTypes
      <3>3. QED BY <2>6, <3>1, <3>2, FieldFacts
    <2>8. n = Append(o, val)
      BY <1>1, <2>4, <2>5, <2>6, <2>7, GrownFacts
    <2>9. n \in Seq(Nat) /\ Len(n) = Len(o) + 1 /\ n[Len(o) + 1] = val /\ Len(o) \in Nat
      BY <2>7, <2>8, AppendFacts
    <2>10. p \in Seq(Nat) /\ Leads(p, n) /\ Len(p) + 1 = Len(n) /\ Len(p) \in Nat
      BY <1>5, <2>2, <2>3, <2>6 DEF Sent, Owes, Owing
    <2>11. Len(p) = Len(o) /\ Len(p) < Len(n)
      BY <2>9, <2>10
    <2>12. val = n[Len(p) + 1]
      BY <2>9, <2>11
    <2>13. PICK q : q = Append(p, val)
      OBVIOUS
    <2>14. q \in Seq(Nat) /\ Leads(q, n) /\ Len(q) = Len(p) + 1
      BY <2>9, <2>10, <2>11, <2>12, <2>13, NextLeads
    <2>15. q = n
      <3>1. Leads(n, n) /\ Len(q) = Len(n) /\ Len(q) <= Len(n)
        BY <2>9, <2>10, <2>14, LeadsSelf
      <3>2. QED BY <2>9, <2>14, <3>1, LeadsEither
    <2>16. PICK u : u = Put(x, val)
      OBVIOUS
    <2>17. Held(u) /\ Core(u) = Core(x) /\ u.out = x.out
      BY <1>3, <1>8, <2>7, <2>16, PutFacts
    <2>18. CoreOf(x, u)
      BY <2>17, CoreIs
    <2>19. Sent(u, h, n)
      BY <1>3, <1>8, <2>2, <2>7, <2>13, <2>15, <2>16, PutSent
    <2>20. PICK y : y = [u EXCEPT !.r = "OK", !.mode = "START"]
      OBVIOUS
    <2>21. Same(u, y) /\ y.i = u.i /\ y.mode = "START"
      BY <2>17, <2>20 DEF Held, Decoders, Same
    <2>22. Sent(y, h, n)
      BY <2>19, <2>21, QuietSent DEF Same
    <2>23. y.i = i /\ Out[s][y.i + 1] = n
      BY <2>3, <2>6, <2>18, <2>21 DEF CoreOf
    <2>24. Owes(y, n)
      <3>1. Leads(n, n) /\ Len(n) + 0 = Len(n)
        BY <2>9, <2>10, LeadsSelf
      <3>2. QED BY <2>21, <2>23, <3>1 DEF Owes, Owing
    <2>25. y.out = x.out
      BY <2>17, <2>21 DEF Same
    <2>26. Tells(y, handed \o y.out)
      BY <2>1, <2>22, <2>24, <2>25 DEF Tells
    <2>27. Go(y) /\ y.mode # "DONE"
      BY <1>5, <1>8, <2>3, <2>6, <2>16, <2>20, <2>21
    <2>28. QED BY <2>26, <2>27, OnTells
  <1>9. QED BY <1>6, <1>7, <1>8

LEMMA CopyTells ==
  ASSUME NEW g, Before(g), Copy
  PROVE  Told(z', pc', handed')
  <1>1. /\ s \in Streams /\ Ready(z, g) /\ z.mode = "COPY" /\ Live(z) /\ Held(z) /\ z.i <= Len(s)
        /\ handed \in Seq(Nat) /\ Tells(z, handed \o z.out)
    BY DEF Copy, In, Before, Ready, Kept
  <1>2. PICK x : x = MakeRoom(z)
    OBVIOUS
  <1>3. CoreOf(z, x) /\ Held(x) /\ (Room(x) # 0 => x.write < End)
    BY <1>1, <1>2, RoomReady DEF Fastest
  <1>4. Tells(x, handed \o x.out)
    BY <1>1, <1>2, RoomTells
  <1>5. x.mode = "COPY" /\ x.i = z.i /\ Live(x) /\ x.i <= Len(s) /\ x.left = z.left
    BY <1>1, <1>3 DEF CoreOf, Live
  <1>6. \/ z.left = 0 /\ Go([z EXCEPT !.mode = "START"])
        \/ z.left # 0 /\ Room(x) = 0 /\ Return(x)
        \/ z.left # 0 /\ Room(x) # 0
             /\ Go([Put(x, x.win[(x.write - x.dist + End) % End]) EXCEPT !.left = @ - 1])
    BY <1>2 DEF Copy
  <1>7. CASE z.left = 0 /\ Go([z EXCEPT !.mode = "START"])
    <2>1. PICK y : y = [z EXCEPT !.mode = "START"]
      OBVIOUS
    <2>2. Same(z, y) /\ y.i = z.i /\ y.mode = "START" /\ y.out = z.out
      BY <1>1, <2>1 DEF Held, Decoders, Same
    <2>3. Tells(y, handed \o y.out)
      BY <1>1, <1>7, <2>2, StillTells DEF Owing
    <2>4. QED BY <1>7, <2>1, <2>2, <2>3, OnTells
  <1>8. CASE z.left # 0 /\ Room(x) = 0 /\ Return(x)
    BY <1>3, <1>4, <1>5, <1>8, BackTells
  <1>9. CASE z.left # 0 /\ Room(x) # 0
               /\ Go([Put(x, x.win[(x.write - x.dist + End) % End]) EXCEPT !.left = @ - 1])
    <2>1. PICK h : h = handed \o x.out
      OBVIOUS
    <2>2. PICK p : Sent(x, h, p) /\ Owes(x, p)
      BY <1>4, <2>1 DEF Tells
    <2>3. PICK i, d, c, left : i = x.i /\ d = s[i].val /\ c = s[i - 1].val /\ left = x.left
      OBVIOUS
    <2>4. i \in Nat /\ i >= 2 /\ s[i].is = "dist" /\ x.dist = d /\ left <= c
          /\ left \in Nat /\ left # 0
      BY <1>3, <1>5, <1>9, <2>2, <2>3, HeldFields DEF Owes
    <2>5. i \in 1 .. Len(s) /\ i \in 1 .. Len(s) + 1
      BY <1>1, <1>5, <2>3, <2>4, StreamTypes
    <2>6. PICK o, n : o = Out[s][i] /\ n = Out[s][i + 1]
      OBVIOUS
    <2>7. o \in Seq(Nat)
      BY <1>1, <2>5, <2>6, OutTypes
    <2>8. d \in 1 .. End /\ d <= Len(o) /\ c \in Nat /\ d \in Nat /\ d >= 1
      <3>1. /\ s[i - 1].val \in Nat /\ s[i].val \in 1 .. End
            /\ s[i].val <= Len(Out[s][i]) /\ s[i].val \in Nat
        BY <1>1, <2>4, <2>5, DistBehindLen
      <3>2. s[i].val >= 1
        BY <3>1, Sizes
      <3>3. QED BY <2>3, <2>6, <3>1, <3>2
    <2>9. Repeats(o, n, d, c)
      BY <1>1, <2>3, <2>4, <2>5, <2>6, <2>7, GrownFacts
    <2>10. n \in Seq(Nat) /\ Len(n) = Len(o) + c /\ Len(n) \in Nat /\ Len(o) \in Nat
      BY <2>7, <2>9 DEF Repeats
    <2>11. /\ p \in Seq(Nat) /\ Leads(p, n) /\ Len(p) + left = Len(n) /\ Len(p) \in Nat
           /\ Shows(x, p)
      BY <1>5, <2>2, <2>3, <2>6 DEF Sent, Owes, Owing
    <2>12. PICK q \in Nat : q = Len(p)
      BY <2>11
    <2>13. q >= Len(o) /\ q < Len(n) /\ d <= q
      <3>1. PICK a \in Nat, b \in Nat : a = Len(o) /\ b = Len(n)
        BY <2>10
      <3>2. q + left = b /\ b = a + c /\ d <= a
        BY <2>8, <2>10, <2>11, <2>12, <3>1
      <3>3. left \in Nat /\ left # 0 /\ left <= c /\ c \in Nat /\ d \in Nat
        BY <2>4, <2>8
      <3>4. q >= a /\ q < b /\ d <= q
        BY <3>2, <3>3
      <3>5. QED BY <3>1, <3>4
    <2>14. n[q + 1] = n[q + 1 - d] /\ q + 1 - d \in 1 .. q
      BY <2>7, <2>8, <2>9, <2>13, RepeatsBack
    <2>15. PICK val : val = x.win[(x.write - x.dist + End) % End]
      OBVIOUS
    <2>16. (x.write - x.dist + End) % End = Back(x.write, d)
      <3>1. PICK w \in Nat, e \in Nat : w = x.write /\ e = End /\ w < e /\ e > 0
        BY <1>3, <1>9, HeldFields, Sizes
      <3>2. d <= e
        BY <2>8, <3>1
      <3>3. PICK m \in Nat : m = w - d + e /\ m < 2 * e
        BY <2>8, <3>1, <3>2
      <3>4. m % e = IF m < e THEN m ELSE m - e
        <4>1. PICK b \in Nat : b = 0
          OBVIOUS
        <4>2. m + b < 2 * e /\ m + b = m
          BY <3>3, <4>1
        <4>3. (m + b) % e = IF m + b < e THEN m + b ELSE m + b - e
          BY <3>1, <4>2, Around
        <4>4. QED BY <4>2, <4>3
      <3>5. (IF m < e THEN m ELSE m - e) = IF d <= w THEN w - d ELSE w - d + e
        BY <2>8, <3>1, <3>3
      <3>6. QED BY <2>4, <3>1, <3>3, <3>4, <3>5 DEF Back
    <2>17. val = p[q + 1 - d]
      BY <2>8, <2>11, <2>12, <2>13, <2>15, <2>16 DEF Shows
    <2>18. val = n[q + 1]
      BY <2>11, <2>12, <2>14, <2>17 DEF Leads
    <2>19. PICK v : v = Append(p, val)
      OBVIOUS
    <2>20. v \in Seq(Nat) /\ Leads(v, n) /\ Len(v) = Len(p) + 1 /\ val \in Nat
      BY <2>10, <2>11, <2>12, <2>13, <2>18, <2>19, NextLeads
    <2>21. PICK u : u = Put(x, val)
      OBVIOUS
    <2>22. Held(u) /\ Core(u) = Core(x) /\ u.out = x.out
      BY <1>3, <1>9, <2>20, <2>21, PutFacts
    <2>23. CoreOf(x, u)
      BY <2>22, CoreIs
    <2>24. Sent(u, h, v)
      BY <1>3, <1>9, <2>2, <2>19, <2>20, <2>21, PutSent
    <2>25. PICK y : y = [u EXCEPT !.left = @ - 1]
      OBVIOUS
    <2>26. Same(u, y) /\ y.i = u.i /\ y.mode = u.mode /\ y.left = u.left - 1 /\ y.dist = u.dist
      BY <2>22, <2>25 DEF Held, Decoders, Same
    <2>27. Sent(y, h, v)
      BY <2>24, <2>26, QuietSent DEF Same
    <2>28. y.i = i /\ Out[s][y.i + 1] = n /\ y.mode = "COPY" /\ y.dist = d
           /\ y.left = left - 1
      BY <1>5, <2>3, <2>4, <2>6, <2>23, <2>26 DEF CoreOf
    <2>29. Len(v) + y.left = Len(n) /\ y.left <= c
      <3>1. PICK a \in Nat, b \in Nat : a = Len(n) /\ b = Len(v)
        BY <2>10, <2>20
      <3>2. q + left = a /\ b = q + 1
        BY <2>11, <2>12, <2>20, <3>1
      <3>3. b + (left - 1) = a /\ left - 1 <= c
        BY <2>4, <2>8, <3>2
      <3>4. QED BY <2>28, <3>1, <3>3, Zenon
    <2>30. Owes(y, v)
      BY <2>3, <2>4, <2>20, <2>28, <2>29 DEF Owes, Owing
    <2>31. y.out = x.out
      BY <2>22, <2>26 DEF Same
    <2>32. Tells(y, handed \o y.out)
      BY <2>1, <2>27, <2>30, <2>31 DEF Tells
    <2>33. Go(y) /\ y.mode # "DONE"
      BY <1>9, <2>15, <2>21, <2>25, <2>28
    <2>34. QED BY <2>32, <2>33, OnTells
  <1>10. QED BY <1>6, <1>7, <1>8, <1>9

LEMMA WashTells ==
  ASSUME NEW g, Before(g), Wash
  PROVE  Told(z', pc', handed')
  <1>1. /\ s \in Streams /\ Ready(z, g) /\ z.mode = "WASH" /\ Live(z) /\ Held(z) /\ z.i <= Len(s)
        /\ handed \in Seq(Nat) /\ Tells(z, handed \o z.out)
    BY DEF Wash, In, Before, Ready, Kept
  <1>2. PICK x : x = IF z.k >= Byte
             THEN [z EXCEPT !.k = @ - Byte, !.n = @ + 1, !.idx = @ - 1]
             ELSE z
    OBVIOUS
  <1>3. /\ Held(x) /\ Same(z, x) /\ x.i = z.i /\ x.mode = z.mode /\ x.left = z.left
        /\ x.dist = z.dist
    <2>1. CASE z.k >= Byte
      <3>1. /\ z \in Decoders /\ z.n + 1 \in Int /\ z.idx - 1 \in Int /\ z.k - Byte \in Int
        BY <1>1, HeldFields, Sizes DEF Held
      <3>2. PICK p \in Int, q \in Int, e \in Int :
              p = z.n + 1 /\ q = z.idx - 1 /\ e = z.k - Byte
        BY <3>1
      <3>3. x = [z EXCEPT !.k = e, !.n = p, !.idx = q]
        BY <1>2, <2>1, <3>2
      <3>4. /\ x \in Decoders /\ x.mode = z.mode
            /\ x.i = z.i /\ x.left = z.left /\ x.dist = z.dist
            /\ x.win = z.win /\ x.read = z.read /\ x.write = z.write /\ x.out = z.out
        BY <3>1, <3>2, <3>3 DEF Decoders
      <3>5. QED BY <1>1, <3>4 DEF Held, Same
    <2>2. CASE ~ (z.k >= Byte)
      BY <1>1, <1>2, <2>2 DEF Same
    <2>3. QED BY <2>1, <2>2
  <1>4. Tells(x, handed \o x.out)
    BY <1>1, <1>3, SameTells DEF Same
  <1>5. PICK y : y = Flush(x)
    OBVIOUS
  <1>6. Tells(y, handed \o y.out)
    BY <1>1, <1>3, <1>4, <1>5, FlushTells
  <1>7. Held(y) /\ CoreOf(x, y)
    BY <1>3, <1>5, FlushFacts, CoreIs
  <1>8. y.mode = "WASH" /\ y.i <= Len(s) /\ Live(y)
    BY <1>1, <1>3, <1>7 DEF CoreOf, Live
  <1>9. Return(y) \/ Go([y EXCEPT !.r = "OK", !.mode = NextBlock(y)])
    BY <1>2, <1>5 DEF Wash
  <1>10. CASE Return(y)
    BY <1>6, <1>7, <1>8, <1>10, BackTells
  <1>11. CASE Go([y EXCEPT !.r = "OK", !.mode = NextBlock(y)])
    <2>1. PICK v : v = [y EXCEPT !.r = "OK", !.mode = NextBlock(y)]
      OBVIOUS
    <2>2. NextBlock(y) \in {"DRY", "TYPE"}
      BY DEF NextBlock
    <2>3. Same(y, v) /\ v.i = y.i /\ v.mode \in {"DRY", "TYPE"} /\ v.out = y.out
      BY <1>7, <2>1, <2>2 DEF Held, Decoders, Same
    <2>4. Tells(v, handed \o v.out)
      BY <1>6, <1>8, <2>3, StillTells DEF Owing
    <2>5. QED BY <1>11, <2>1, <2>3, <2>4, OnTells
  <1>12. QED BY <1>9, <1>10, <1>11

\* No field is due at the end.
LEMMA NothingFits ==
  ASSUME NEW d, d.what = "end", NEW f, NEW o
  PROVE  ~ Fits(d, f, o)
  BY DEF Fits

LEMMA DryTells ==
  ASSUME NEW g, Before(g), Dry
  PROVE  Told(z', pc', handed')
  <1>1. /\ s \in Streams /\ Ready(z, g) /\ z.mode = "DRY" /\ Live(z) /\ Held(z) /\ z.i <= Len(s)
        /\ handed \in Seq(Nat) /\ Tells(z, handed \o z.out) /\ Place(z)
    BY DEF Dry, In, Before, Ready, Kept
  <1>2. PICK y : y = Flush(z)
    OBVIOUS
  <1>3. Tells(y, handed \o y.out)
    BY <1>1, <1>2, FlushTells
  <1>4. Held(y) /\ CoreOf(z, y)
    BY <1>1, <1>2, FlushFacts, CoreIs
  <1>5. y.mode = "DRY" /\ y.i = z.i /\ y.i <= Len(s) /\ Live(y)
    BY <1>1, <1>4 DEF CoreOf, Live
  <1>6. \/ Return(y)
        \/ y.read = y.write /\ Return([y EXCEPT !.mode = "DONE", !.r = "END"])
    BY <1>2 DEF Dry
  <1>7. CASE Return(y)
    BY <1>3, <1>4, <1>5, <1>7, BackTells
  <1>8. CASE y.read = y.write /\ Return([y EXCEPT !.mode = "DONE", !.r = "END"])
    <2>1. PICK v : v = [y EXCEPT !.mode = "DONE", !.r = "END"]
      OBVIOUS
    <2>2. v \in Decoders /\ v.mode = "DONE" /\ v.i = y.i /\ Same(y, v) /\ v.out = y.out
      BY <1>4, <2>1 DEF Held, Decoders, Modes, Same
    <2>3. Held(v) /\ ~ Live(v) /\ v.i <= Len(s)
      BY <1>4, <1>5, <2>2 DEF Held, Live
    <2>4. PICK h : h = handed \o y.out
      OBVIOUS
    <2>5. Begins(v, h)
      BY <1>1, <1>3, <1>4, <1>5, <2>2, <2>4, OwesLeads, SameBegins
    <2>6. Pending(v) = 0 /\ Pending(y) = 0
      BY <1>4, <1>8, <2>2, HeldFields DEF Pending, Same
    <2>7. z.i = Len(s)
      <3>1. DueAt(z).what = "end"
        BY <1>1 DEF Place
      <3>2. z.i + 1 \notin 1 .. Len(s)
        <4>1. ASSUME z.i + 1 \in 1 .. Len(s) PROVE FALSE
          <5>1. Fits(DueAt(z), s[z.i + 1], Out[s][z.i + 1])
            BY <1>1, <4>1, StreamAssumption DEF DueAt
          <5>2. QED BY <3>1, <5>1, NothingFits
        <4>2. QED BY <4>1
      <3>3. QED BY <1>1, <3>2, HeldFields, StreamTypes
    <2>8. PICK p : Sent(y, h, p) /\ Owes(y, p)
      BY <1>3, <2>4 DEF Tells
    <2>9. PICK n : n = Decoded(s)
      OBVIOUS
    <2>10. n \in Seq(Nat) /\ Out[s][y.i + 1] = n
      <3>1. Len(s) + 1 \in 1 .. Len(s) + 1
        BY <1>1, StreamTypes
      <3>2. QED BY <1>1, <1>5, <2>7, <2>9, <3>1, OutTypes DEF Decoded
    <2>11. /\ p \in Seq(Nat) /\ h \in Seq(Nat) /\ Leads(h, p) /\ Len(h) + 0 = Len(p)
           /\ Leads(p, n) /\ Len(p) + 0 = Len(n)
      BY <1>5, <2>6, <2>8, <2>10 DEF Sent, Owes, Owing
    <2>12. p = n
      <3>1. Leads(n, n) /\ Len(p) = Len(n) /\ Len(p) <= Len(n)
        BY <2>10, <2>11, LeadsSelf
      <3>2. QED BY <2>10, <2>11, <3>1, LeadsEither
    <2>13. h = p
      <3>1. Leads(p, p) /\ Len(h) = Len(p) /\ Len(h) <= Len(p)
        BY <2>11, LeadsSelf
      <3>2. QED BY <2>11, <3>1, LeadsEither
    <2>14. handed \o v.out = Decoded(s)
      BY <2>2, <2>4, <2>9, <2>12, <2>13
    <2>15. Begins(v, handed \o v.out) /\ Return(v)
      BY <1>8, <2>1, <2>2, <2>4, <2>5
    <2>16. QED BY <1>1, <2>3, <2>6, <2>14, <2>15, ReturnTells
  <1>9. QED BY <1>6, <1>7, <1>8

LEMMA AfterEndTells ==
  ASSUME NEW g, Ready(z, g), Told(z, pc, handed), AfterEnd
  PROVE  Told(z', pc', handed')
  <1>1. z.mode = "DONE" /\ z' = [z EXCEPT !.r = "END"] /\ handed' = handed /\ z \in Decoders
    BY DEF AfterEnd, In, Ready, Kept, Held
  <1>2. z'.mode = "DONE"
    BY <1>1 DEF Decoders
  <1>3. QED BY <1>1, <1>2 DEF Told, Live

LEMMA TakeoverTells ==
  ASSUME s \in Streams, NEW g, NEW x, Ready(x, g), x.mode = "STORED",
         NEW t \in Nat, t <= x.left, t <= Room(x), x.write + Room(x) <= End,
         NEW mode, NEW w, NEW y, Takeover(x, t, mode, w, y),
         NEW h, Tells(x, h)
  PROVE  Tells(y, h) /\ y.out = x.out /\ y.mode # "DONE"
  <1>1. Held(x) /\ Place(x) /\ x.i <= Len(s)
    BY DEF Ready, Kept, Live
  <1>2. PICK d : d = DueAt(x)
    OBVIOUS
  <1>3. d.what = "byte" /\ d.left = x.left /\ d.last = x.last /\ d \in States
    BY <1>1, <1>2, Places DEF Place
  <1>4. d = Due("byte", x.left, x.last) /\ x.left \in Nat /\ x.left # 0
    BY <1>3, DueIs
  <1>5. PICK j \in Nat, left \in Nat, last \in {x.last} :
          j = x.i + 1 /\ left = x.left /\ last = x.last
    BY <1>1, <1>4, HeldFields
  <1>6. Len(s) \in Nat /\ x.i \in Nat
    BY <1>1, HeldFields, StreamTypes
  <1>7. Gained(j, t)
    <2>1. Dues[s][j] = Due("byte", left, last)
      BY <1>2, <1>4, <1>5 DEF DueAt
    <2>2. j >= 1 /\ j <= Len(s) + 1 /\ left # 0
      BY <1>1, <1>4, <1>5, <1>6
    <2>3. t \in 0 .. left
      BY <1>5
    <2>4. QED BY <2>1, <2>2, <2>3, BytesGained
  <1>8. PICK o, n : o = Out[s][j] /\ n = Out[s][j + t]
    OBVIOUS
  <1>9. /\ n \in Seq(Nat) /\ Len(n) = Len(o) + t /\ Leads(o, n)
        /\ \A u \in Nat : u < t => n[Len(o) + 1 + u] = s[j + u].val
    BY <1>7, <1>8 DEF Gained
  <1>10. o \in Seq(Nat)
    <2>1. j \in 1 .. Len(s) + 1
      BY <1>1, <1>5, <1>6
    <2>2. QED BY <1>8, <2>1, OutTypes
  <1>11. PICK p : Sent(x, h, p) /\ Owes(x, p)
    BY DEF Tells
  <1>12. p = o
    <2>1. p \in Seq(Nat) /\ Leads(p, o) /\ Len(p) + 0 = Len(o)
      BY <1>5, <1>8, <1>11 DEF Sent, Owes, Owing
    <2>2. Leads(o, o) /\ Len(p) = Len(o) /\ Len(p) <= Len(o)
      BY <1>10, <2>1, LeadsSelf
    <2>3. QED BY <1>10, <2>1, <2>2, LeadsEither
  <1>13. /\ y.win = w /\ y.write = x.write + t /\ y.read = x.read /\ y.out = x.out
         /\ y.i = x.i + t /\ y.mode = mode
    <2>1. x \in Decoders
      BY <1>1 DEF Held
    <2>2. y = Moved(x, w, x.write + t, x.idx + t, x.n - t, x.i + t, x.left - t, mode)
      BY DEF Takeover
    <2>3. QED BY <2>1, <2>2 DEF Moved, Decoders
  <1>14. mode \in {"STORED", "TYPE", "DRY"}
    BY DEF NextBlock, Takeover
  <1>15. Wrote(x, y, o, n, t)
    <2>1. PICK q \in Nat, v \in Cells : q = x.write /\ v = x.win
      <3>1. x.write \in Nat /\ x.win \in Cells
        BY <1>1, HeldFields DEF Cells
      <3>2. QED BY <3>1
    <2>2. v \in [0 .. End - 1 -> Nat] /\ DOMAIN v = 0 .. End - 1 /\ q + t <= End
      <3>1. v \in [0 .. End - 1 -> Nat]
        BY <1>1, <2>1, HeldFields DEF Cells
      <3>2. Room(x) \in Nat /\ End \in Nat
        BY <1>1, HeldFields, Sizes DEF Room
      <3>3. q + t <= End
        BY <2>1, <3>2
      <3>4. QED BY <3>1, <3>3
    <2>3. w = [c \in 0 .. End - 1 |->
                IF c \in q .. q + t - 1 THEN s[x.i + 1 + c - q].val ELSE v[c]]
      BY <2>1, <2>2 DEF Takeover
    <2>4. ASSUME NEW c \in 0 .. End - 1, c < q \/ c >= q + t PROVE w[c] = v[c]
      <3>1. c \notin q .. q + t - 1
        BY <2>1, <2>4, Sizes
      <3>2. QED BY <2>3, <3>1
    <2>5. ASSUME NEW k \in Nat, k < t PROVE w[q + k] = n[Len(o) + 1 + k]
      <3>1. PICK c : c = q + k
        OBVIOUS
      <3>2. c \in 0 .. End - 1 /\ c \in q .. q + t - 1 /\ x.i + 1 + c - q = j + k
        <4>1. End \in Nat /\ q + t <= End /\ k < t /\ q \in Nat /\ k \in Nat /\ j \in Nat
          BY <1>5, <2>1, <2>2, <2>5, Sizes
        <4>2. c \in 0 .. End - 1 /\ c \in q .. q + t - 1
          BY <3>1, <4>1
        <4>3. x.i \in Nat /\ j = x.i + 1
          BY <1>5, <1>6
        <4>4. x.i + 1 + c - q = j + k
          BY <3>1, <4>1, <4>3
        <4>5. QED BY <4>2, <4>4
      <3>3. w[c] = s[j + k].val
        BY <2>3, <3>2
      <3>4. n[Len(o) + 1 + k] = s[j + k].val
        BY <1>9, <2>5
      <3>5. QED BY <3>1, <3>3, <3>4
    <2>6. QED BY <1>9, <1>13, <2>1, <2>4, <2>5 DEF Wrote
  <1>16. Sent(y, h, n)
    BY <1>1, <1>11, <1>12, <1>15, WroteSent
  <1>17. y.i + 1 = j + t
    BY <1>5, <1>6, <1>13
  <1>18. Owes(y, n)
    <2>1. Leads(n, n) /\ Len(n) + 0 = Len(n)
      BY <1>9, LeadsSelf
    <2>2. QED BY <1>8, <1>13, <1>14, <1>17, <2>1 DEF Owes, Owing
  <1>19. QED BY <1>13, <1>14, <1>16, <1>18 DEF Tells

\* The least of three.
LEMMA MinThree ==
  ASSUME NEW a \in Nat, NEW b \in Nat, NEW c \in Nat, NEW t, t = Min({a, b, c})
  PROVE  t \in Nat /\ t <= a /\ t <= b /\ t <= c
  <1>1. PICK m \in {a, b, c} : m <= a /\ m <= b /\ m <= c
    OBVIOUS
  <1>2. m \in {a, b, c} /\ \A e \in {a, b, c} : m <= e
    BY <1>1
  <1>3. \A e \in {a, b, c} : (\A v \in {a, b, c} : e <= v) => e = m
    BY <1>1, <1>2
  <1>4. Min({a, b, c}) = CHOOSE e \in {a, b, c} : \A v \in {a, b, c} : e <= v
    BY DEF Min
  <1>5. Min({a, b, c}) = m
    BY <1>2, <1>3, <1>4
  <1>6. QED BY <1>1, <1>5

LEMMA StoredTells ==
  ASSUME NEW g, Before(g), Stored
  PROVE  Told(z', pc', handed')
  <1>1. /\ s \in Streams /\ Ready(z, g) /\ z.mode = "STORED" /\ Live(z) /\ Held(z)
        /\ z.i <= Len(s) /\ z.n \in Nat /\ z.left \in Nat
        /\ handed \in Seq(Nat) /\ Tells(z, handed \o z.out)
    BY HeldFields DEF Stored, In, Before, Live, Ready, Kept, Amounts
  <1>2. PICK x : x = MakeRoom(z)
    OBVIOUS
  <1>3. /\ Ready(x, g) /\ CoreOf(z, x) /\ Held(x)
        /\ Room(x) \in Nat /\ x.write + Room(x) <= End
    BY <1>1, <1>2, RoomReady DEF Fastest
  <1>4. /\ x.mode = "STORED" /\ x.left = z.left /\ x.n = z.n /\ x.i = z.i /\ x.idx = z.idx
        /\ Live(x) /\ x.i <= Len(s)
    BY <1>1, <1>3 DEF CoreOf, Live
  <1>5. Tells(x, handed \o x.out)
    BY <1>1, <1>2, RoomTells
  <1>6. PICK t : t = Min({z.left, z.n, Room(x)})
    OBVIOUS
  <1>7. PICK mode : mode = IF x.left = t THEN NextBlock(x) ELSE x.mode
    OBVIOUS
  <1>8. PICK w : w = [c \in DOMAIN x.win |->
                       IF c \in x.write .. x.write + t - 1
                         THEN s[x.i + 1 + c - x.write].val ELSE x.win[c]]
    OBVIOUS
  <1>9. PICK y : y = Moved(x, w, x.write + t, x.idx + t, x.n - t, x.i + t, x.left - t, mode)
    OBVIOUS
  <1>10. \/ z.n = 0 /\ Return(z)
         \/ Room(x) = 0 /\ Return(x)
         \/ Astray
         \/ Go(y)
    <2>1. [x EXCEPT
              !.win   = [c \in DOMAIN @ |->
                           IF c \in x.write .. x.write + t - 1
                             THEN s[z.i + 1 + c - x.write].val ELSE @[c]],
              !.write = @ + t, !.idx = @ + t, !.n = @ - t, !.i = @ + t,
              !.left  = @ - t, !.r = "OK",
              !.mode  = IF x.left = t THEN NextBlock(x) ELSE @] = y
      BY <1>3, <1>4, <1>7, <1>8, <1>9 DEF Moved, Held, Decoders
    <2>2. QED BY <1>2, <1>6, <2>1 DEF Stored
  <1>11. CASE Return(z)
    BY <1>1, <1>11, BackTells
  <1>12. CASE Return(x)
    BY <1>3, <1>4, <1>5, <1>12, BackTells
  <1>13. CASE Astray
    BY <1>13, AstrayTells
  <1>14. CASE Go(y)
    <2>1. t \in Nat /\ t <= x.left /\ t <= Room(x)
      BY <1>1, <1>3, <1>4, <1>6, MinThree
    <2>2. Takeover(x, t, mode, w, y)
      BY <1>7, <1>8, <1>9 DEF Takeover
    <2>3. PICK h : h = handed \o x.out
      OBVIOUS
    <2>4. Tells(y, h) /\ y.out = x.out /\ y.mode # "DONE"
      BY <1>1, <1>3, <1>4, <1>5, <2>1, <2>2, <2>3, TakeoverTells
    <2>5. QED BY <1>14, <2>3, <2>4, OnTells
  <1>15. QED BY <1>10, <1>11, <1>12, <1>13, <1>14

-----------------------------------------------------------------------------
(***************************************************************************)
(* The copies of inflate_fast(), which writes many bytes at once: in two   *)
(* parts where it begins before the start of the window, else in a period  *)
(* of as many bytes as it goes back.                                       *)
(***************************************************************************)
\* m is win with c bytes from from copied to to, in a period of per.
Copies(win, m, from, to, c, per) ==
  /\ \A w \in 0 .. End - 1 : w < to \/ w >= to + c => m[w] = win[w]
  /\ \A k \in Nat : k < c => m[to + k] = win[from + (k % per)]

LEMMA MoveCells ==
  ASSUME NEW win, win \in Cells, NEW from, from \in Nat, NEW to, to \in Nat,
         NEW c, c \in Nat, to + c <= End,
         NEW per, per = IF from < to THEN to - from ELSE c
  PROVE  Copies(win, Move(win, from, to, c), from, to, c, per)
  <1>1. win \in [0 .. End - 1 -> Nat] /\ DOMAIN win = 0 .. End - 1 /\ End \in Nat
    BY Sizes DEF Cells
  <1>2. PICK m : m = Move(win, from, to, c)
    OBVIOUS
  <1>3. m = [w \in 0 .. End - 1 |->
              IF w \in to .. to + c - 1 THEN win[from + ((w - to) % per)] ELSE win[w]]
    BY <1>1, <1>2 DEF Move
  <1>4. ASSUME NEW w \in 0 .. End - 1, w < to \/ w >= to + c PROVE m[w] = win[w]
    <2>1. w \notin to .. to + c - 1
      BY <1>1, <1>4
    <2>2. QED BY <1>3, <2>1
  <1>5. ASSUME NEW k \in Nat, k < c PROVE m[to + k] = win[from + (k % per)]
    <2>1. PICK w : w = to + k
      OBVIOUS
    <2>2. w \in 0 .. End - 1 /\ w \in to .. to + c - 1 /\ w - to = k
      BY <1>1, <1>5, <2>1
    <2>3. m[w] = win[from + ((w - to) % per)]
      BY <1>3, <2>2
    <2>4. QED BY <2>1, <2>2, <2>3
  <1>6. QED BY <1>2, <1>4, <1>5 DEF Copies

\* A copy of c bytes from d back, as the fast path makes it behind q.
Behind(win, v, q, d, c) ==
  /\ \A w \in 0 .. End - 1 : w < q \/ w >= q + c => v[w] = win[w]
  /\ \A k \in Nat : k < c => v[q + k] = win[Back(q, d - (k % d))]

\* It begins d bytes back, two bytes first.
LEMMA BehindNear ==
  ASSUME NEW win, NEW q, q \in Nat, NEW d, d \in Nat, d >= 1, d <= q, NEW c, c \in Nat, c >= 2,
         q + c <= End,
         NEW from, from = q - d,
         NEW w1, Copies(win, w1, from, q, 2, d),
         NEW rest, rest = from + 2, NEW to, to = q + 2, NEW c2, c2 = c - 2,
         NEW w2, Copies(w1, w2, rest, to, c2, d)
  PROVE  Behind(win, w2, q, d, c)
  <1>0. End \in Nat /\ from \in Nat /\ d > 0
    BY Sizes
  <1>1. /\ \A w \in 0 .. End - 1 : w < q \/ w >= q + 2 => w1[w] = win[w]
        /\ \A k \in Nat : k < 2 => w1[q + k] = win[from + (k % d)]
    BY DEF Copies
  <1>2. /\ \A w \in 0 .. End - 1 : w < to \/ w >= to + c2 => w2[w] = w1[w]
        /\ \A k \in Nat : k < c2 => w2[to + k] = w1[rest + (k % d)]
    BY DEF Copies
  <1>3. ASSUME NEW w \in 0 .. End - 1, w < q \/ w >= q + c PROVE w2[w] = win[w]
    <2>1. (w < to \/ w >= to + c2) /\ (w < q \/ w >= q + 2)
      BY <1>0, <1>3
    <2>2. QED BY <1>1, <1>2, <2>1
  <1>4. ASSUME NEW k \in Nat, k < c PROVE w2[q + k] = win[from + (k % d)]
    <2>1. CASE k < 2
      <3>1. PICK w : w = q + k
        OBVIOUS
      <3>2. w \in 0 .. End - 1 /\ w < to
        BY <1>0, <1>4, <2>1, <3>1
      <3>3. w2[w] = w1[w]
        BY <1>2, <3>2
      <3>4. QED BY <1>1, <2>1, <3>1, <3>3
    <2>2. CASE k >= 2
      <3>1. PICK b \in Nat : b = k - 2
        BY <2>2
      <3>2. PICK j : j = b % d
        OBVIOUS
      <3>3. j \in Nat /\ j < d
        BY <1>0, <3>1, <3>2, ModStep
      <3>4. PICK i : i = rest + j
        OBVIOUS
      <3>5. w2[q + k] = w1[i]
        <4>1. b < c2 /\ to + b = q + k
          BY <1>4, <3>1
        <4>2. w2[to + b] = w1[rest + (b % d)]
          BY <1>2, <3>1, <4>1
        <4>3. QED BY <3>2, <3>4, <4>1, <4>2
      <3>6. i = from + (j + 2) /\ i = q + (j + 2 - d)
        BY <1>0, <3>3, <3>4
      <3>7. CASE d = 1
        <4>1. PICK e \in Nat : e = 1
          OBVIOUS
        <4>2. i = q + e /\ e < 2
          BY <1>0, <3>3, <3>6, <3>7, <4>1
        <4>3. w1[q + e] = win[from + (e % d)]
          BY <1>1, <4>2
        <4>4. e % d = 0 /\ k % d = 0
          <5>1. e % d \in Nat /\ e % d < d /\ k % d \in Nat /\ k % d < d
            BY <1>0, ModStep
          <5>2. QED BY <3>7, <5>1
        <4>5. QED BY <3>5, <4>2, <4>3, <4>4
      <3>8. CASE d # 1
        <4>1. PICK e \in Nat : e = 2
          OBVIOUS
        <4>2. e <= k /\ e <= d /\ k - e = b
          BY <1>0, <2>2, <3>1, <3>8, <4>1
        <4>3. Skips(k, d, e, j)
          <5>1. b + e = k
            BY <3>1, <4>1
          <5>2. QED BY <1>0, <3>2, <5>1, ModSkip
        <4>4. CASE j + e < d
          <5>1. i \in 0 .. End - 1 /\ i < q
            BY <1>0, <3>3, <3>6, <4>1, <4>4
          <5>2. w1[i] = win[i]
            BY <1>1, <5>1
          <5>3. i = from + (k % d)
            BY <3>6, <4>1, <4>3, <4>4 DEF Skips
          <5>4. QED BY <3>5, <5>2, <5>3
        <4>5. CASE ~ (j + e < d)
          <5>1. PICK a \in Nat : a = j + e - d /\ a < 2
            BY <1>0, <3>3, <4>1, <4>5
          <5>2. w1[q + a] = win[from + (a % d)]
            BY <1>1, <5>1
          <5>3. i = q + a /\ a % d = k % d
            <6>1. i = q + a
              BY <3>6, <4>1, <5>1
            <6>2. k % d = (j + e - d) % d
              BY <4>3, <4>5 DEF Skips
            <6>3. QED BY <5>1, <6>1, <6>2, Zenon
          <5>4. QED BY <3>5, <5>2, <5>3
        <4>6. QED BY <4>4, <4>5
      <3>9. QED BY <3>7, <3>8
    <2>3. QED BY <2>1, <2>2
  <1>5. ASSUME NEW k \in Nat, k < c PROVE w2[q + k] = win[Back(q, d - (k % d))]
    <2>1. PICK r : r = k % d
      OBVIOUS
    <2>2. r \in Nat /\ r < d
      BY <1>0, <2>1, ModStep
    <2>3. Back(q, d - r) = from + r
      BY <1>0, <2>2 DEF Back
    <2>4. QED BY <1>4, <1>5, <2>1, <2>3
  <1>6. QED BY <1>3, <1>5 DEF Behind

\* It begins near the end of the window and does not reach the end.
LEMMA BehindFar ==
  ASSUME NEW win, NEW q, q \in Nat, NEW d, d \in Nat, d >= 1, d <= End, q < d,
         NEW c, c \in Nat, c >= 2, q + c <= End,
         NEW from, from = q - d + End, c <= End - from,
         NEW w1, Copies(win, w1, from, q, 0, 0),
         NEW w2, Copies(w1, w2, from, q, c, c)
  PROVE  Behind(win, w2, q, d, c)
  <1>0. End \in Nat /\ from \in Nat /\ d > 0 /\ c > 0 /\ from >= q
    BY Sizes
  <1>1. \A w \in 0 .. End - 1 : w1[w] = win[w]
    <2>1. \A w \in 0 .. End - 1 : w < q \/ w >= q + 0
      BY <1>0
    <2>2. QED BY <2>1 DEF Copies
  <1>2. /\ \A w \in 0 .. End - 1 : w < q \/ w >= q + c => w2[w] = w1[w]
        /\ \A k \in Nat : k < c => w2[q + k] = w1[from + (k % c)]
    BY DEF Copies
  <1>3. ASSUME NEW k \in Nat, k < c PROVE w2[q + k] = win[Back(q, d - (k % d))]
    <2>1. k % c = k
      BY <1>0, <1>3, ModStep
    <2>2. k < d
      BY <1>0, <1>3
    <2>3. k % d = k
      BY <1>0, <2>2, ModStep
    <2>4. PICK i : i = from + k
      OBVIOUS
    <2>5. i \in 0 .. End - 1 /\ Back(q, d - k) = i
      BY <1>0, <1>3, <2>4 DEF Back
    <2>6. w2[q + k] = w1[i] /\ w1[i] = win[i]
      BY <1>1, <1>2, <1>3, <2>1, <2>4, <2>5
    <2>7. QED BY <2>3, <2>5, <2>6
  <1>4. QED BY <1>1, <1>2, <1>3 DEF Behind

\* It begins near the end of the window and goes on at the start.
LEMMA BehindRound ==
  ASSUME NEW win, NEW q, q \in Nat, NEW d, d \in Nat, d >= 1, d <= End, q < d,
         NEW c, c \in Nat, c >= 2, q + c <= End,
         NEW from, from = q - d + End, NEW e, e = End - from, c > e,
         NEW w1, Copies(win, w1, from, q, e, e),
         NEW to, to = q + e, NEW c2, c2 = c - e,
         NEW w2, Copies(w1, w2, 0, to, c2, d)
  PROVE  Behind(win, w2, q, d, c)
  <1>0. End \in Nat /\ from \in Nat /\ d > 0 /\ e \in Nat /\ e > 0 /\ e = d - q /\ to = d
        /\ e <= d /\ from >= q /\ c2 \in Nat
    BY Sizes
  <1>1. /\ \A w \in 0 .. End - 1 : w < q \/ w >= q + e => w1[w] = win[w]
        /\ \A k \in Nat : k < e => w1[q + k] = win[from + (k % e)]
    BY DEF Copies
  <1>2. /\ \A w \in 0 .. End - 1 : w < to \/ w >= to + c2 => w2[w] = w1[w]
        /\ \A k \in Nat : k < c2 => w2[to + k] = w1[0 + (k % d)]
    BY DEF Copies
  <1>3. ASSUME NEW w \in 0 .. End - 1, w < q \/ w >= q + c PROVE w2[w] = win[w]
    <2>1. (w < to \/ w >= to + c2) /\ (w < q \/ w >= q + e)
      BY <1>0, <1>3
    <2>2. QED BY <1>1, <1>2, <2>1
  <1>4. ASSUME NEW k \in Nat, k < e PROVE w1[q + k] = win[from + k]
    <2>1. k % e = k
      BY <1>0, <1>4, ModStep
    <2>2. QED BY <1>1, <1>4, <2>1
  <1>5. ASSUME NEW k \in Nat, k < c PROVE w2[q + k] = win[Back(q, d - (k % d))]
    <2>1. CASE k < e
      <3>1. k < d
        BY <1>0, <2>1
      <3>2. k % d = k
        BY <1>0, <3>1, ModStep
      <3>3. PICK w : w = q + k
        OBVIOUS
      <3>4. w \in 0 .. End - 1 /\ w < to
        BY <1>0, <1>5, <2>1, <3>3
      <3>5. w2[w] = w1[w]
        BY <1>2, <3>4
      <3>6. Back(q, d - k) = from + k
        BY <1>0, <2>1 DEF Back
      <3>7. QED BY <1>4, <2>1, <3>2, <3>3, <3>5, <3>6
    <2>2. CASE k >= e
      <3>1. PICK b \in Nat : b = k - e
        BY <1>0, <2>2
      <3>2. PICK j : j = b % d
        OBVIOUS
      <3>3. j \in Nat /\ j < d
        BY <1>0, <3>1, <3>2, ModStep
      <3>4. w2[q + k] = w1[j]
        <4>1. b < c2 /\ to + b = q + k /\ 0 + j = j
          BY <1>0, <1>5, <3>1, <3>3
        <4>2. w2[to + b] = w1[0 + (b % d)]
          BY <1>2, <3>1, <4>1
        <4>3. QED BY <3>2, <4>1, <4>2
      <3>5. Skips(k, d, e, j)
        <4>1. b + e = k
          BY <1>0, <3>1
        <4>2. QED BY <1>0, <3>2, <4>1, ModSkip
      <3>6. CASE j < q
        <4>1. j + e < d /\ j \in 0 .. End - 1
          BY <1>0, <3>3, <3>6
        <4>2. w1[j] = win[j]
          BY <1>1, <3>6, <4>1
        <4>3. Back(q, d - (j + e)) = j
          BY <1>0, <3>3, <3>6 DEF Back
        <4>4. k % d = j + e
          BY <3>5, <4>1 DEF Skips
        <4>5. QED BY <3>4, <4>2, <4>3, <4>4
      <3>7. CASE ~ (j < q)
        <4>1. PICK a \in Nat : a = j - q
          BY <3>3, <3>7
        <4>2. a < e /\ a < d /\ j = q + a /\ ~ (j + e < d) /\ j + e - d = a
          BY <1>0, <3>3, <3>7, <4>1
        <4>3. a % d = a
          BY <1>0, <4>2, ModStep
        <4>4. w1[q + a] = win[from + a]
          BY <1>4, <4>2
        <4>5. Back(q, d - a) = from + a
          BY <1>0, <4>1, <4>2 DEF Back
        <4>6. k % d = a
          <5>1. k % d = (j + e - d) % d
            BY <3>5, <4>2 DEF Skips
          <5>2. QED BY <4>2, <4>3, <5>1, Zenon
        <4>7. QED BY <3>4, <4>2, <4>4, <4>5, <4>6
      <3>8. QED BY <3>6, <3>7
    <2>3. QED BY <1>0, <2>1, <2>2
  <1>6. QED BY <1>3, <1>5 DEF Behind

LEMMA MoveCopies ==
  ASSUME NEW win, win \in Cells, NEW from, from \in Nat, NEW to, to \in Nat,
         NEW c, c \in Nat, to + c <= End,
         NEW per, per = IF from < to THEN to - from ELSE c,
         from < to \/ from + c <= End,
         NEW w, w = Move(win, from, to, c)
  PROVE  Copies(win, w, from, to, c, per) /\ w \in Cells
  <1>1. IF from < to THEN to <= End ELSE from + c <= End
    BY Sizes
  <1>2. w \in Cells
    BY <1>1, MoveType
  <1>3. QED BY <1>2, MoveCells

LEMMA FastCopyBehind ==
  ASSUME NEW x, Held(x), NEW d, d \in Nat, d >= 1, d <= End, NEW c, c \in Nat, c >= 2,
         x.write + c <= End, NEW y, y = FastCopy(x, d, c)
  PROVE  y.write = x.write + c /\ y.read = x.read /\ Behind(x.win, y.win, x.write, d, c)
  <1>1. PICK q \in Nat, win \in Cells : q = x.write /\ win = x.win
    BY HeldFields
  <1>2. PICK from, head : /\ from = IF q >= d THEN q - d ELSE q - d + End
                          /\ head = IF q >= d THEN 2 ELSE IF c > End - from THEN End - from ELSE 0
    <2>1. PICK from : from = IF q >= d THEN q - d ELSE q - d + End
      OBVIOUS
    <2>2. QED BY <2>1
  <1>3. PICK w1 : w1 = Move(win, from, q, head)
    OBVIOUS
  <1>4. PICK rest, to, c2 : /\ rest = IF q < d /\ head > 0 THEN 0 ELSE from + head
                            /\ to = q + head /\ c2 = c - head
    OBVIOUS
  <1>5. PICK w2 : w2 = Move(w1, rest, to, c2)
    OBVIOUS
  <1>6. y = [x EXCEPT !.win = w2, !.write = @ + c]
    BY <1>1, <1>2, <1>3, <1>4, <1>5 DEF FastCopy
  <1>7. y.write = x.write + c /\ y.read = x.read /\ y.win = w2
    <2>1. x \in Decoders
      BY DEF Held
    <2>2. QED BY <1>6, <2>1 DEF Decoders
  <1>8. End \in Nat /\ q + c <= End
    BY <1>1, Sizes
  <1>9. CASE d <= q
    <2>1. /\ from = q - d /\ head = 2 /\ from \in Nat /\ head \in Nat /\ q + head <= End
          /\ rest = from + 2 /\ to = q + 2 /\ c2 = c - 2 /\ rest \in Nat /\ to \in Nat
          /\ c2 \in Nat /\ to + c2 <= End /\ from < q /\ rest < to
          /\ d = (IF from < q THEN q - from ELSE head)
          /\ d = (IF rest < to THEN to - rest ELSE c2)
      BY <1>2, <1>4, <1>8, <1>9
    <2>2. Copies(win, w1, from, q, head, d) /\ w1 \in Cells
      BY <1>3, <2>1, MoveCopies
    <2>3. Copies(w1, w2, rest, to, c2, d)
      BY <1>5, <2>1, <2>2, MoveCopies
    <2>4. Copies(win, w1, from, q, 2, d)
      BY <2>1, <2>2
    <2>5. Behind(win, w2, q, d, c)
      BY <1>8, <1>9, <2>1, <2>3, <2>4, BehindNear
    <2>6. QED BY <1>1, <1>7, <2>5
  <1>10. CASE ~ (d <= q) /\ c <= End - from
    <2>1. /\ from = q - d + End /\ head = 0 /\ from \in Nat /\ head \in Nat /\ q + head <= End
          /\ rest = from /\ to = q /\ c2 = c /\ q < d
          /\ ~ (from < q) /\ from + head <= End /\ from + c <= End
          /\ 0 = (IF from < q THEN q - from ELSE head)
          /\ c = (IF from < q THEN q - from ELSE c)
      BY <1>2, <1>4, <1>8, <1>10
    <2>2. Copies(win, w1, from, q, head, 0) /\ w1 \in Cells
      BY <1>3, <2>1, MoveCopies
    <2>3. w2 = Move(w1, from, q, c)
      BY <1>5, <2>1
    <2>4. Copies(w1, w2, from, q, c, c)
      BY <1>8, <2>1, <2>2, <2>3, MoveCopies
    <2>5. Copies(win, w1, from, q, 0, 0)
      BY <2>1, <2>2
    <2>6. Behind(win, w2, q, d, c)
      BY <1>8, <1>10, <2>1, <2>4, <2>5, BehindFar
    <2>7. QED BY <1>1, <1>7, <2>6
  <1>11. CASE ~ (d <= q) /\ ~ (c <= End - from)
    <2>1. PICK e : e = End - from
      OBVIOUS
    <2>2. PICK o \in Nat : o = 0
      OBVIOUS
    <2>3. /\ from = q - d + End /\ from \in Nat /\ e \in Nat /\ q < d /\ c > e /\ e = d - q
          /\ ~ (from < q) /\ from + e <= End /\ q + e <= End
          /\ e = (IF from < q THEN q - from ELSE e)
      BY <1>2, <1>8, <1>11, <2>1
    <2>4. head = e /\ e > 0
      BY <1>2, <1>11, <2>1, <2>3
    <2>5. /\ rest = o /\ to = q + e /\ c2 = c - e /\ to \in Nat /\ c2 \in Nat /\ to + c2 <= End
          /\ o < to /\ d = (IF o < to THEN to - o ELSE c2)
      BY <1>4, <1>8, <2>2, <2>3, <2>4
    <2>6. Copies(win, w1, from, q, e, e) /\ w1 \in Cells
      BY <1>3, <2>3, <2>4, MoveCopies
    <2>7. w2 = Move(w1, o, to, c2)
      BY <1>5, <2>5
    <2>8. Copies(w1, w2, o, to, c2, d)
      BY <2>2, <2>5, <2>6, <2>7, MoveCopies
    <2>9. Copies(w1, w2, 0, to, c2, d)
      BY <2>2, <2>8
    <2>10. Behind(win, w2, q, d, c)
      BY <1>8, <1>11, <2>1, <2>3, <2>5, <2>6, <2>9, BehindRound
    <2>11. QED BY <1>1, <1>7, <2>10
  <1>12. QED BY <1>9, <1>10, <1>11

\* The copy of the fast path is the copy that the distance stands for.
LEMMA BehindWrites ==
  ASSUME NEW x, Held(x), NEW y, NEW d, d \in Nat, d >= 1, d <= End, NEW c, c \in Nat,
         x.write + c <= End, y.write = x.write + c, y.read = x.read,
         Behind(x.win, y.win, x.write, d, c),
         NEW o, o \in Seq(Nat), d <= Len(o), NEW n, Repeats(o, n, d, c), Shows(x, o)
  PROVE  Wrote(x, y, o, n, c)
  <1>1. /\ \A w \in 0 .. End - 1 : w < x.write \/ w >= x.write + c => y.win[w] = x.win[w]
        /\ \A k \in Nat : k < c => y.win[x.write + k] = x.win[Back(x.write, d - (k % d))]
    BY DEF Behind
  <1>2. /\ n \in Seq(Nat) /\ Len(n) = Len(o) + c /\ Leads(o, n)
        /\ \A m \in 0 .. c - 1 : n[Len(o) + 1 + m] = o[Len(o) - d + 1 + (m % d)]
    BY DEF Repeats
  <1>3. ASSUME NEW k \in Nat, k < c PROVE y.win[x.write + k] = n[Len(o) + 1 + k]
    <2>1. PICK r : r = k % d
      OBVIOUS
    <2>2. r \in Nat /\ r < d
      <3>1. d > 0
        OBVIOUS
      <3>2. QED BY <2>1, <3>1, ModStep
    <2>3. PICK e : e = d - r
      OBVIOUS
    <2>4. e \in 1 .. End /\ e <= Len(o) /\ Len(o) + 1 - e = Len(o) - d + 1 + r
      <3>1. PICK a \in Nat : a = Len(o)
        OBVIOUS
      <3>2. e \in 1 .. End /\ e <= a /\ a + 1 - e = a - d + 1 + r
        BY <2>2, <2>3, <3>1, Sizes
      <3>3. QED BY <3>1, <3>2
    <2>5. y.win[x.write + k] = x.win[Back(x.write, e)]
      BY <1>1, <1>3, <2>1, <2>3
    <2>6. x.win[Back(x.write, e)] = o[Len(o) + 1 - e]
      BY <2>4 DEF Shows
    <2>7. k \in 0 .. c - 1
      BY <1>3
    <2>8. n[Len(o) + 1 + k] = o[Len(o) - d + 1 + r]
      BY <1>2, <2>1, <2>7
    <2>9. QED BY <2>4, <2>5, <2>6, <2>8
  <1>4. QED BY <1>1, <1>2, <1>3 DEF Wrote

LEMMA GiveBackSame ==
  ASSUME NEW x, Held(x), NEW y, y = GiveBack(x)
  PROVE  /\ Held(y) /\ Same(x, y) /\ y.i = x.i /\ y.mode = x.mode /\ y.left = x.left
         /\ y.dist = x.dist
  <1>1. Held(y) /\ y.mode = x.mode /\ y.i = x.i
    BY GiveBackFacts
  <1>2. PICK c : c = Min({x.k \div Byte, x.n0 - x.n})
    OBVIOUS
  <1>3. y = [x EXCEPT !.n = @ + c, !.idx = @ - c, !.k = @ - c * Byte]
    BY <1>2 DEF GiveBack
  <1>4. x \in Decoders
    BY DEF Held
  <1>5. Same(x, y) /\ y.left = x.left /\ y.dist = x.dist
    BY <1>3, <1>4 DEF Same, Decoders
  <1>6. QED BY <1>1, <1>5

LEMMA FastOn ==
  ASSUME NEW g, Before(g), NEW x, Held(x), x.mode = "FAST", Tells(x, handed \o x.out), On(x)
  PROVE  Told(z', pc', handed')
  <1>1. PICK v : v = [x EXCEPT !.mode = "FAST"]
    OBVIOUS
  <1>2. PICK u : u = GiveBack(x)
    OBVIOUS
  <1>3. PICK w : w = [u EXCEPT !.mode = "LEN", !.r = "OK"]
    OBVIOUS
  <1>4. Held(u) /\ Same(x, u) /\ u.i = x.i
    BY <1>2, GiveBackSame
  <1>5. Same(x, v) /\ v.i = x.i /\ v.mode = "FAST" /\ v.out = x.out
    BY <1>1 DEF Held, Decoders, Same
  <1>6. Same(x, w) /\ w.i = x.i /\ w.mode = "LEN" /\ w.out = x.out
    BY <1>3, <1>4 DEF Held, Decoders, Same
  <1>7. PICK y \in {v, w} : Go(y)
    BY <1>1, <1>2, <1>3 DEF On
  <1>8. Same(x, y) /\ y.i = x.i /\ y.mode \in {"FAST", "LEN"} /\ y.out = x.out
    BY <1>5, <1>6, <1>7
  <1>9. Tells(y, handed \o y.out)
    BY <1>8, StillTells DEF Owing
  <1>10. QED BY <1>7, <1>8, <1>9, OnTells

LEMMA FastFails ==
  ASSUME NEW g, Before(g), NEW x, Held(x), x.i <= Len(s), Tells(x, handed \o x.out),
         Fail(GiveBack(x))
  PROVE  Told(z', pc', handed')
  <1>1. PICK u : u = GiveBack(x)
    OBVIOUS
  <1>2. /\ Held(u) /\ Same(x, u) /\ u.i = x.i /\ u.mode = x.mode /\ u.left = x.left
        /\ u.dist = x.dist
    BY <1>1, GiveBackSame
  <1>3. Tells(u, handed \o u.out)
    BY <1>2, SameTells DEF Same
  <1>4. QED BY <1>1, <1>2, <1>3, BadTells

\* A literal that is read and written at once.
LEMMA LitWritten ==
  ASSUME s \in Streams, NEW x, NEW h, Faced(x), Tells(x, h), F.is = "lit", Owing(x) = 0,
         Room(x) # 0, NEW val, val = F.val,
         NEW y, Same(Put(x, val), y), y.i = x.i + 1, y.mode = "FAST"
  PROVE  Tells(y, h)
  <1>1. PICK i : i = x.i + 1
    OBVIOUS
  <1>2. i \in 1 .. Len(s) /\ F = s[i] /\ y.i = i /\ i \in Nat /\ val \in Nat /\ Held(x)
    BY <1>1 DEF Faced
  <1>3. PICK o, n : o = Out[s][i] /\ n = Out[s][i + 1]
    OBVIOUS
  <1>4. o \in Seq(Nat)
    <2>1. i \in 1 .. Len(s) + 1
      BY <1>2, StreamTypes
    <2>2. QED BY <1>3, <2>1, OutTypes
  <1>5. n = Append(o, val)
    BY <1>2, <1>3, <1>4, GrownFacts
  <1>6. n \in Seq(Nat)
    BY <1>2, <1>4, <1>5, AppendFacts
  <1>7. PICK p : Sent(x, h, p) /\ Owes(x, p)
    BY DEF Tells
  <1>8. p \in Seq(Nat) /\ Leads(p, o) /\ Len(p) + 0 = Len(o)
    BY <1>1, <1>3, <1>7 DEF Sent, Owes
  <1>9. p = o
    <2>1. Leads(o, o) /\ Len(p) = Len(o) /\ Len(p) <= Len(o)
      BY <1>4, <1>8, LeadsSelf
    <2>2. QED BY <1>4, <1>8, <2>1, LeadsEither
  <1>10. Sent(Put(x, val), h, n)
    BY <1>2, <1>5, <1>7, <1>9, PutSent
  <1>11. Sent(y, h, n)
    BY <1>10, QuietSent DEF Same
  <1>12. Owes(y, n)
    <2>1. Leads(n, n) /\ Len(n) + 0 = Len(n)
      BY <1>6, LeadsSelf
    <2>2. QED BY <1>2, <1>3, <2>1 DEF Owes, Owing
  <1>13. QED BY <1>11, <1>12 DEF Tells

LEMMA FastTells ==
  ASSUME NEW g, Before(g), Fast
  PROVE  Told(z', pc', handed')
  <1>1. /\ s \in Streams /\ Ready(z, g) /\ z.mode = "FAST" /\ Live(z) /\ Kept(z, g) /\ Held(z)
        /\ Tells(z, handed \o z.out) /\ z.i <= Len(s)
    BY DEF Fast, In, Before, Ready, Kept
  <1>2. PICK l : l = Load(z, LitBits)
    OBVIOUS
  <1>3. /\ Kept(l, g) /\ Held(l) /\ l.k >= LitBits
        /\ l.i = z.i /\ l.mode = z.mode /\ l.left = z.left /\ l.dist = z.dist
        /\ Same(z, l) /\ Room(l) >= MaxLen
    BY <1>1, <1>2, FastLoads DEF Same
  <1>4. Ahead(l) = F
    BY <1>3 DEF Ahead, F
  <1>5. PICK b : b = F.bits + F.extra
    OBVIOUS
  <1>6. b \in Nat /\ DueAt(l).what = "code"
    BY <1>1, <1>3, <1>4, <1>5, FastTakes
  <1>7. PICK x : x = Drop(l, b)
    OBVIOUS
  <1>8. /\ Held(x) /\ Same(l, x) /\ x.i = l.i /\ x.mode = l.mode /\ x.left = l.left
        /\ x.dist = l.dist
    BY <1>3, <1>6, <1>7, DropFacts DEF Became, Rest, Same
  <1>9. Same(z, x) /\ x.i = z.i /\ x.mode = z.mode /\ x.left = z.left /\ x.dist = z.dist
        /\ x.out = z.out
    BY <1>3, <1>8 DEF Same
  <1>10. Tells(x, handed \o x.out)
    BY <1>1, <1>9, SameTells
  <1>11. Room(x) # 0 /\ x.write < End
    <2>1. Room(x) = Room(l)
      BY <1>8 DEF Room, Same
    <2>2. Room(x) >= MaxLen
      BY <1>3, <2>1
    <2>3. QED BY <1>8, <2>2, RoomWrite, HeldFields, Sizes DEF Room
  <1>12. Faced(x) /\ x \in Decoders
    <2>1. z.i + 1 \in 1 .. Len(s) /\ Ahead(z) \in Fields
      <3>1. DueAt(z).what \notin {"end", "nothing"}
        BY <1>3, <1>6 DEF DueAt
      <3>2. QED BY <1>1, <3>1, FieldAhead
    <2>2. F = s[z.i + 1] /\ F \in Fields
      BY <2>1 DEF F, Ahead
    <2>3. F.bits \in Nat /\ F.look \in Nat /\ F.extra \in Nat /\ F.val \in Nat
      BY <2>2, FieldFacts
    <2>4. QED BY <1>1, <1>8, <1>9, <1>10, <2>1, <2>2, <2>3, HeldFields DEF Faced, Held
  <1>13. \/ F.is = "lit" /\ On(Done(Put(x, F.val), "FAST"))
         \/ F.is = "len" /\ Go(Done([x EXCEPT !.left = F.val], "FASTDIST"))
         \/ F.is = "eob" /\ Go([Done(GiveBack(x), "WASH") EXCEPT !.r = "END"])
         \/ F.is \notin {"lit", "len", "eob"} /\ Fail(GiveBack(x))
    BY <1>2, <1>5, <1>7 DEF Fast
  <1>14. CASE F.is = "lit" /\ On(Done(Put(x, F.val), "FAST"))
    <2>1. PICK val : val = F.val
      OBVIOUS
    <2>2. PICK u : u = Put(x, val)
      OBVIOUS
    <2>3. val \in Nat
      BY <1>12, <2>1 DEF Faced
    <2>4. Held(u) /\ Core(u) = Core(x) /\ u.out = x.out
      BY <1>8, <1>11, <2>2, <2>3, PutFacts
    <2>5. CoreOf(x, u)
      BY <2>4, CoreIs
    <2>6. PICK mode : mode = "FAST" /\ mode \in Modes
      BY DEF Modes
    <2>7. PICK y : y = Done(u, mode)
      OBVIOUS
    <2>8. Became(u, y, u.k, u.i + 1, mode, u.left, u.dist, u.last)
      BY <2>4, <2>6, <2>7, DoneFacts
    <2>9. Held(y) /\ Same(u, y) /\ y.i = x.i + 1 /\ y.mode = "FAST" /\ y.out = x.out
      BY <2>4, <2>5, <2>6, <2>8 DEF Became, Rest, Same, CoreOf
    <2>10. Owing(x) = 0
      BY <1>1, <1>9 DEF Owing
    <2>11. PICK h : h = handed \o x.out
      OBVIOUS
    <2>12. Tells(y, h)
      BY <1>1, <1>10, <1>11, <1>12, <1>14, <2>1, <2>2, <2>9, <2>10, <2>11, LitWritten
    <2>13. On(y)
      BY <1>14, <2>1, <2>2, <2>6, <2>7
    <2>14. QED BY <2>9, <2>11, <2>12, <2>13, FastOn
  <1>15. CASE F.is = "len" /\ Go(Done([x EXCEPT !.left = F.val], "FASTDIST"))
    <2>1. PICK mode : mode = "FASTDIST"
      OBVIOUS
    <2>2. PICK y : y = Done([x EXCEPT !.left = F.val], mode)
      OBVIOUS
    <2>3. Went(x, y, mode) /\ y.left = F.val
      BY <1>12, <2>2 DEF Went, Same, Done, Decoders
    <2>4. Go(y)
      BY <1>15, <2>1, <2>2
    <2>5. QED BY <1>1, <1>12, <1>15, <2>1, <2>3, <2>4, SilentGoes
  <1>16. CASE F.is = "eob" /\ Go([Done(GiveBack(x), "WASH") EXCEPT !.r = "END"])
    <2>1. PICK u : u = GiveBack(x)
      OBVIOUS
    <2>2. Held(u) /\ Same(x, u) /\ u.i = x.i
      BY <1>8, <2>1, GiveBackSame
    <2>3. PICK mode : mode = "WASH"
      OBVIOUS
    <2>4. PICK y : y = [Done(u, mode) EXCEPT !.r = "END"]
      OBVIOUS
    <2>5. Went(x, y, mode)
      BY <2>2, <2>4 DEF Went, Same, Done, Held, Decoders
    <2>6. Go(y)
      BY <1>16, <2>1, <2>3, <2>4
    <2>7. QED BY <1>1, <1>12, <1>16, <2>3, <2>5, <2>6, SilentGoes
  <1>17. CASE F.is \notin {"lit", "len", "eob"} /\ Fail(GiveBack(x))
    <2>1. x.i <= Len(s)
      BY <1>1, <1>9
    <2>2. QED BY <1>8, <1>10, <1>17, <2>1, FastFails
  <1>18. QED BY <1>13, <1>14, <1>15, <1>16, <1>17

\* Loading bits leaves the window alone.
LEMMA LoadSame ==
  ASSUME NEW x, Held(x), x.k \in Nat, NEW bits, bits \in Nat, NEW y, y = Load(x, bits)
  PROVE  /\ Held(y) /\ Same(x, y) /\ y.i = x.i /\ y.mode = x.mode /\ y.left = x.left
         /\ y.dist = x.dist
  <1>1. PICK w \in Nat : w = Want(x, bits)
    BY WantFacts
  <1>2. PICK v : v = Fetch(x, w)
    OBVIOUS
  <1>3. /\ Held(v) /\ v.i = x.i /\ v.mode = x.mode /\ v.left = x.left /\ v.dist = x.dist
        /\ v.win = x.win /\ v.out = x.out /\ v.read = x.read /\ v.write = x.write
    BY <1>2, FetchFields
  <1>4. y = v
    BY <1>1, <1>2 DEF Load
  <1>5. QED BY <1>3, <1>4 DEF Same

LEMMA DropSame ==
  ASSUME NEW x, Held(x), NEW bits, bits \in Nat, NEW y, y = Drop(x, bits)
  PROVE  /\ Held(y) /\ Same(x, y) /\ y.i = x.i /\ y.mode = x.mode /\ y.left = x.left
         /\ y.dist = x.dist /\ y.k = x.k - bits
  BY DropFacts DEF Became, Rest, Same

LEMMA SameOn ==
  ASSUME NEW x, NEW y, NEW v, Same(x, y), Same(y, v)
  PROVE  Same(x, v)
  BY DEF Same

\* The copy of the fast path: the field's distance with the length before it.
LEMMA CopyWritten ==
  ASSUME s \in Streams, NEW x, NEW h, Held(x), Tells(x, h), x.mode = "FASTDIST",
         x.i \in Nat, x.i + 1 \in 1 .. Len(s), s[x.i + 1].is = "dist",
         NEW d, d = s[x.i + 1].val, NEW c, c = x.left, c \in Nat, c >= 2,
         Room(x) >= c, x.write + c <= End,
         NEW u, u = FastCopy(x, d, c),
         NEW y, Same(u, y), y.i = x.i + 1, y.mode = "FAST"
  PROVE  Tells(y, h)
  <1>1. PICK i : i = x.i + 1
    OBVIOUS
  <1>2. i \in 1 .. Len(s) /\ s[i].is = "dist" /\ d = s[i].val /\ y.i = i /\ i \in Nat
        /\ i - 1 = x.i
    BY <1>1
  <1>3. PICK o, n : o = Out[s][i] /\ n = Out[s][i + 1]
    OBVIOUS
  <1>4. o \in Seq(Nat)
    <2>1. i \in 1 .. Len(s) + 1
      BY <1>2, StreamTypes
    <2>2. QED BY <1>3, <2>1, OutTypes
  <1>5. d \in Nat /\ d >= 1 /\ d <= End /\ d <= Len(o)
    <2>1. d \in 1 .. End /\ d <= Len(o) /\ d \in Nat
      BY <1>2, <1>3, DistBehindLen
    <2>2. QED BY <2>1, Sizes
  <1>6. PICK p : Sent(x, h, p) /\ Owes(x, p)
    BY DEF Tells
  <1>7. p \in Seq(Nat) /\ Leads(p, o) /\ Len(p) + 0 = Len(o) /\ x.left = s[x.i].val
    BY <1>1, <1>3, <1>6 DEF Sent, Owes, Owing
  <1>8. p = o
    <2>1. Leads(o, o) /\ Len(p) = Len(o) /\ Len(p) <= Len(o)
      BY <1>4, <1>7, LeadsSelf
    <2>2. QED BY <1>4, <1>7, <2>1, LeadsEither
  <1>9. Repeats(o, n, d, c)
    BY <1>2, <1>3, <1>4, <1>7, GrownFacts
  <1>10. n \in Seq(Nat)
    BY <1>9 DEF Repeats
  <1>11. u.write = x.write + c /\ u.read = x.read /\ Behind(x.win, u.win, x.write, d, c)
    BY <1>5, FastCopyBehind
  <1>12. Wrote(x, u, o, n, c)
    <2>1. Shows(x, o)
      BY <1>6, <1>8 DEF Sent
    <2>2. QED BY <1>4, <1>5, <1>9, <1>11, <2>1, BehindWrites
  <1>13. Sent(u, h, n)
    <2>1. c <= Room(x)
      BY HeldFields, Sizes DEF Room
    <2>2. QED BY <1>6, <1>8, <1>12, <2>1, WroteSent
  <1>14. Sent(y, h, n)
    BY <1>13, QuietSent DEF Same
  <1>15. Owes(y, n)
    <2>1. Leads(n, n) /\ Len(n) + 0 = Len(n)
      BY <1>10, LeadsSelf
    <2>2. QED BY <1>2, <1>3, <2>1 DEF Owes, Owing
  <1>16. QED BY <1>14, <1>15 DEF Tells

LEMMA FastDistTells ==
  ASSUME NEW g, Before(g), FastDist
  PROVE  Told(z', pc', handed')
  <1>1. /\ s \in Streams /\ Ready(z, g) /\ z.mode = "FASTDIST" /\ Live(z) /\ Kept(z, g) /\ Held(z)
        /\ Tells(z, handed \o z.out) /\ z.i <= Len(s) /\ z.k \in Nat /\ DistBits \in Nat
    BY HeldFields, Sizes DEF FastDist, In, Before, Ready, Kept, Amounts
  <1>2. PICK l : l = Load(z, DistBits)
    OBVIOUS
  <1>3. Kept(l, g) /\ l.k >= DistBits /\ Room(l) >= MaxLen /\ l.k \in Int
    BY <1>1, <1>2, DistLoads, HeldFields
  <1>4. /\ Held(l) /\ Same(z, l) /\ l.i = z.i /\ l.mode = z.mode /\ l.left = z.left
        /\ l.dist = z.dist
    BY <1>1, <1>2, LoadSame
  <1>5. PICK f : f = Ahead(l)
    OBVIOUS
  <1>6. f = F
    BY <1>4, <1>5 DEF Ahead, F
  <1>7. /\ f.bits \in Nat /\ f.extra \in Nat
        /\ DueAt(l).what = "dist" /\ l.left \in 2 .. MaxLen
        /\ Bad(f) \/ (f.is = "dist" /\ f.bits <= l.k)
    BY <1>1, <1>3, <1>4, <1>5, DistTakes
  <1>8. PICK x : x = Drop(l, f.bits)
    OBVIOUS
  <1>9. /\ Held(x) /\ Same(l, x) /\ x.i = l.i /\ x.mode = l.mode /\ x.left = l.left
        /\ x.dist = l.dist /\ x.k = l.k - f.bits
    BY <1>4, <1>7, <1>8, DropSame
  <1>10. PICK y : y = Drop(Load(x, f.extra), f.extra)
    OBVIOUS
  <1>11. \/ Bad(f) /\ Fail(GiveBack(x))
         \/ ~ Bad(f) /\ On(Done(FastCopy(y, f.val, z.left), "FAST"))
    BY <1>2, <1>6, <1>8, <1>10 DEF FastDist
  <1>12. CASE Bad(f) /\ Fail(GiveBack(x))
    <2>1. Same(z, x) /\ x.out = z.out
      BY <1>4, <1>9 DEF Same
    <2>2. Tells(x, handed \o x.out)
      BY <1>1, <1>4, <1>9, <2>1, SameTells
    <2>3. x.i <= Len(s)
      BY <1>1, <1>4, <1>9
    <2>4. QED BY <1>9, <1>12, <2>2, <2>3, FastFails
  <1>13. CASE ~ Bad(f) /\ On(Done(FastCopy(y, f.val, z.left), "FAST"))
    <2>1. x.k \in Nat /\ f.is = "dist"
      BY <1>3, <1>7, <1>9, <1>13
    <2>2. PICK e : e = Load(x, f.extra)
      OBVIOUS
    <2>3. /\ Held(e) /\ Same(x, e) /\ e.i = x.i /\ e.mode = x.mode /\ e.left = x.left
          /\ e.dist = x.dist
      BY <1>7, <1>9, <2>1, <2>2, LoadSame
    <2>4. /\ Held(y) /\ Same(e, y) /\ y.i = e.i /\ y.mode = e.mode /\ y.left = e.left
          /\ y.dist = e.dist
      BY <1>7, <1>10, <2>2, <2>3, DropSame
    <2>5. /\ Held(y) /\ Same(z, y) /\ Same(l, y) /\ y.i = z.i /\ y.mode = z.mode
          /\ y.left = z.left /\ y.dist = z.dist
      BY <1>4, <1>9, <2>3, <2>4, SameOn
    <2>6. y.out = z.out
      BY <2>5 DEF Same
    <2>7. Tells(y, handed \o y.out)
      BY <1>1, <2>5, <2>6, SameTells
    <2>8. PICK d, c : d = f.val /\ c = z.left
      OBVIOUS
    <2>9. c \in Nat /\ c >= 2 /\ c <= MaxLen /\ MaxLen \in Nat
      BY <1>4, <1>7, <2>8, Sizes
    <2>10. Room(y) >= MaxLen
      <3>1. Room(y) = Room(l)
        BY <2>5 DEF Room, Same
      <3>2. QED BY <1>3, <3>1
    <2>11. y.write + c <= End /\ Room(y) >= c
      <3>1. y.write + MaxLen <= End
        BY <2>5, <2>10, RoomWrite
      <3>2. y.write \in Nat /\ End \in Nat /\ Room(y) \in Int
        BY <2>5, HeldFields, Sizes DEF Room
      <3>3. QED BY <2>9, <2>10, <3>1, <3>2
    <2>12. z.i + 1 \in 1 .. Len(s) /\ z.i \in Nat /\ s[z.i + 1] = f
      <3>1. DueAt(z).what \notin {"end", "nothing"}
        BY <1>4, <1>7 DEF DueAt
      <3>2. z.i + 1 \in 1 .. Len(s)
        BY <1>1, <3>1, FieldAhead
      <3>3. QED BY <1>1, <1>6, <3>2, HeldFields DEF F
    <2>13. d \in 1 .. End
      BY <1>1, <2>1, <2>8, <2>12, DistBehindLen
    <2>14. PICK u : u = FastCopy(y, d, c)
      OBVIOUS
    <2>15. Held(u) /\ Core(u) = Core(y) /\ u.out = y.out
      BY <2>5, <2>9, <2>11, <2>13, <2>14, FastCopyFacts
    <2>16. CoreOf(y, u)
      BY <2>15, CoreIs
    <2>17. PICK mode : mode = "FAST" /\ mode \in Modes
      BY DEF Modes
    <2>18. PICK v : v = Done(u, mode)
      OBVIOUS
    <2>19. Became(u, v, u.k, u.i + 1, mode, u.left, u.dist, u.last)
      BY <2>15, <2>17, <2>18, DoneFacts
    <2>20. Held(v) /\ Same(u, v) /\ v.i = y.i + 1 /\ v.mode = "FAST" /\ v.out = y.out
      BY <2>15, <2>16, <2>17, <2>19 DEF Became, Rest, Same, CoreOf
    <2>21. PICK h : h = handed \o y.out
      OBVIOUS
    <2>22. Tells(v, h)
      <3>1. y.i \in Nat /\ y.i + 1 \in 1 .. Len(s) /\ s[y.i + 1].is = "dist" /\ d = s[y.i + 1].val
            /\ c = y.left /\ y.mode = "FASTDIST" /\ Tells(y, h)
        BY <1>1, <2>1, <2>5, <2>7, <2>8, <2>12, <2>21
      <3>2. QED BY <1>1, <2>5, <2>9, <2>11, <2>14, <2>20, <3>1, CopyWritten
    <2>23. On(v)
      BY <1>13, <2>8, <2>14, <2>17, <2>18
    <2>24. QED BY <2>20, <2>21, <2>22, <2>23, FastOn
  <1>14. QED BY <1>11, <1>12, <1>13

-----------------------------------------------------------------------------
(***************************************************************************)
(* The refinement.                                                         *)
(***************************************************************************)
LEMMA DecodeTells ==
  ASSUME s \in Streams, NEW g, Ready(z, g), Told(z, pc, handed), Decode
  PROVE  Told(z', pc', handed')
  <1>1. CASE AfterEnd
    BY <1>1, AfterEndTells
  <1>2. CASE \/ Type \/ Lens \/ Stored \/ Table \/ Trees \/ Dry
             \/ StartCodes \/ LenCode \/ LenExt \/ Dist \/ DistExt \/ Copy \/ Lit \/ Wash
             \/ Fast \/ FastDist
    <2>1. pc = "inflate" /\ Live(z)
      BY <1>2 DEF Type, Lens, Stored, Table, Trees, Dry, StartCodes, LenCode,
           LenExt, Dist, DistExt, Copy, Lit, Wash, Fast, FastDist, In, Live
    <2>2. Before(g)
      BY <2>1, BeforeIs
    <2>3. QED BY <1>2, <2>2, TypeTells, LensTells, StoredTells, TableTells, TreesTells,
                 DryTells, StartTells, LenCodeTells, LenExtTells, DistTells, DistExtTells,
                 CopyTells, LitTells, WashTells, FastTells, FastDistTells
  <1>3. QED BY <1>1, <1>2 DEF Decode

\* What is Told of the decoder outlives the emptying of the buffer.
LEMMA ToldOn ==
  ASSUME NEW x, NEW place, NEW h, Told(x, place, h), NEW y, NEW there,
         y.win = x.win, y.read = x.read, y.write = x.write, y.i = x.i, y.mode = x.mode,
         y.left = x.left, y.dist = x.dist,
         Total(y, there, h) = Total(x, place, h)
  PROVE  Told(y, there, h)
  <1>1. PICK t : t = Total(x, place, h)
    OBVIOUS
  <1>2. ASSUME Live(y) PROVE Tells(y, t)
    <2>1. Tells(x, t)
      BY <1>1, <1>2 DEF Told, Live
    <2>2. PICK p : Sent(x, t, p) /\ Owes(x, p)
      BY <2>1 DEF Tells
    <2>3. Sent(y, t, p)
      BY <2>2, QuietSent
    <2>4. Owes(y, p)
      BY <2>2 DEF Owes, Owing
    <2>5. QED BY <2>3, <2>4 DEF Tells
  <1>3. QED BY <1>1, <1>2 DEF Told

\* What has been handed out begins what the stream stands for, and the window
\* and the output buffer hold the rest of what has been decoded.
Delivered == Told(z, pc, handed)

LEMMA SameDelivered ==
  ASSUME s' = s, Told(z', pc', handed')
  PROVE  Delivered'
  BY DEF Delivered, Told, Total, Tells, Sent, Shows, Back, Pending, Owes, Owing, Leads, Live,
         Decoded

LEMMA InitDelivers ==
  ASSUME Init
  PROVE  Delivered
  <1>1. s \in Streams /\ z = Start /\ pc = "step" /\ handed = <<>>
    BY DEF Init
  <1>2. PICK x : x = z
    OBVIOUS
  <1>3. x.mode = "TYPE" /\ x.i = 0 /\ x.read = 0 /\ x.write = 0 /\ x.left = 0
    BY <1>1, <1>2 DEF Start
  <1>4. PICK h : h = handed
    OBVIOUS
  <1>5. h \in Seq(Nat) /\ Len(h) = 0
    BY <1>1, <1>4
  <1>6. Out[s][1] = h
    BY <1>1, <1>4, OutSteps
  <1>7. Decoded(s) \in Seq(Nat) /\ Leads(h, Decoded(s))
    <2>1. 1 \in 1 .. Len(s) + 1
      BY <1>1, StreamTypes
    <2>2. QED BY <1>1, <1>6, <2>1, OutLeads
  <1>8. Leads(h, h)
    BY <1>5, LeadsSelf
  <1>9. Shows(x, h)
    <2>1. \A c \in 1 .. End : ~ (c <= 0)
      BY Sizes
    <2>2. QED BY <1>5, <2>1 DEF Shows
  <1>10. Pending(x) = 0
    BY <1>3 DEF Pending
  <1>11. Sent(x, h, h)
    BY <1>5, <1>8, <1>9, <1>10 DEF Sent
  <1>12. Owing(x) = 0 /\ Out[s][x.i + 1] = h
    BY <1>3, <1>6 DEF Owing
  <1>13. Owes(x, h)
    BY <1>3, <1>5, <1>8, <1>12 DEF Owes
  <1>14. Tells(x, h) /\ Total(x, pc, h) = h
    BY <1>1, <1>11, <1>13 DEF Tells, Total
  <1>15. QED BY <1>2, <1>3, <1>4, <1>5, <1>7, <1>14 DEF Delivered, Told

LEMMA NextDelivers ==
  ASSUME IInv, Delivered, [Next]_vars
  PROVE  Delivered' /\ s' = s
  <1>1. s \in Streams /\ Ready(z, given) /\ Held(z) /\ z \in Decoders
        /\ Told(z, pc, handed) /\ handed \in Seq(Nat)
    BY DEF IInv, Typed, Ready, Kept, Held, Delivered, Told
  <1>2. CASE Decode
    <2>1. s' = s
      BY <1>2 DEF Decode, Type, Lens, Stored, Table, Trees, Dry, AfterEnd, StartCodes, LenCode,
           LenExt, Dist, DistExt, Copy, Lit, Wash, Fast, FastDist, Fed
    <2>2. QED BY <1>1, <1>2, <2>1, DecodeTells, SameDelivered
  <1>3. CASE Turn
    <2>1. s' = s /\ handed' = handed /\ pc = "loop" /\ pc' = "inflate"
      BY <1>3 DEF Turn
    <2>2. PICK y : y = z'
      OBVIOUS
    <2>3. /\ y.win = z.win /\ y.read = z.read /\ y.write = z.write /\ y.i = z.i
          /\ y.mode = z.mode /\ y.left = z.left /\ y.dist = z.dist /\ y.out = <<>>
      BY <1>1, <1>3, <2>2 DEF Turn, Decoders
    <2>4. Total(y, "inflate", handed) = handed /\ Total(z, "loop", handed) = handed
      BY <1>1, <2>3 DEF Total
    <2>5. Told(y, "inflate", handed)
      BY <1>1, <2>1, <2>3, <2>4, ToldOn
    <2>6. QED BY <2>1, <2>2, <2>5, SameDelivered
  <1>4. CASE Check
    <2>1. /\ s' = s /\ handed' = handed /\ z' = z /\ pc = "check"
          /\ pc' \notin {"inflate", "astray"}
      BY <1>4 DEF Check, Settle, Answer
    <2>2. Told(z', pc', handed')
      BY <1>1, <2>1 DEF Told, Total
    <2>3. QED BY <2>1, <2>2, SameDelivered
  <1>5. CASE Step \/ Written \/ IoFails \/ Flushed
    <2>1. /\ s' = s /\ handed' = handed /\ z' = z
          /\ pc \notin {"inflate", "astray"} /\ pc' \notin {"inflate", "astray"}
      BY <1>5 DEF Step, Written, IoFails, Flushed, Fed
    <2>2. Told(z', pc', handed')
      BY <1>1, <2>1 DEF Told, Total
    <2>3. QED BY <2>1, <2>2, SameDelivered
  <1>6. CASE ChunkRead
    <2>1. s' = s /\ handed' = handed /\ pc = "reading" /\ pc' = "loop"
      BY <1>6 DEF ChunkRead
    <2>2. PICK y : y = z'
      OBVIOUS
    <2>3. /\ y.win = z.win /\ y.read = z.read /\ y.write = z.write /\ y.i = z.i
          /\ y.mode = z.mode /\ y.left = z.left /\ y.dist = z.dist
      BY <1>1, <1>6, <2>2 DEF ChunkRead, Decoders
    <2>4. Total(y, "loop", handed) = handed /\ Total(z, "reading", handed) = handed
      BY DEF Total
    <2>5. Told(y, "loop", handed)
      BY <1>1, <2>1, <2>3, <2>4, ToldOn
    <2>6. QED BY <2>1, <2>2, <2>5, SameDelivered
  <1>7. CASE UNCHANGED vars
    <2>1. s' = s /\ z' = z /\ pc' = pc /\ handed' = handed
      BY <1>7 DEF vars
    <2>2. QED BY <1>1, <2>1, SameDelivered
  <1>8. QED BY <1>2, <1>3, <1>4, <1>5, <1>6, <1>7 DEF Next, Feed

\* inflate() hands out what it returns with.
LEMMA ReturnHands ==
  ASSUME NEW x, Return(x), z' \in Decoders
  PROVE  handed' = handed \o z'.out
  <1>1. PICK y : y = Flush(x)
    OBVIOUS
  <1>2. /\ z' = IF y.mode = "DONE" THEN [y EXCEPT !.read = 0, !.write = 0, !.k = 0] ELSE y
        /\ handed' = handed \o y.out
    BY <1>1 DEF Return
  <1>3. "out" \in DOMAIN z'
    BY DEF Decoders
  <1>4. z'.out = y.out
    BY <1>2, <1>3
  <1>5. QED BY <1>2, <1>4

LEMMA DecodeHands ==
  ASSUME Decode, z' \in Decoders
  PROVE  \/ pc' \in {"inflate", "astray"} /\ handed' = handed
         \/ pc' = "check" /\ handed' = handed \o z'.out
         \/ AfterEnd
  <1>0. pc = "inflate"
    BY DEF Decode, Type, Lens, Stored, Table, Trees, Dry, AfterEnd, StartCodes, LenCode,
           LenExt, Dist, DistExt, Copy, Lit, Wash, Fast, FastDist, In
  <1>1. (\E x : Return(x)) => pc' = "check" /\ handed' = handed \o z'.out
    <2>1. ASSUME NEW x, Return(x) PROVE pc' = "check" /\ handed' = handed \o z'.out
      <3>1. pc' = "check"
        BY <2>1 DEF Return
      <3>2. QED BY <2>1, <3>1, ReturnHands
    <2>2. QED BY <2>1
  <1>2. (\E x : Fail(x)) => \E x : Return(x)
    BY DEF Fail
  <1>3. Astray \/ (\E x : Go(x)) => pc' \in {"inflate", "astray"} /\ handed' = handed
    BY <1>0 DEF Astray, Go
  <1> DEFINE Some == Astray \/ (\E x : Go(x)) \/ (\E x : Return(x)) \/ (\E x : Fail(x))
  <1>4. Type => Some
    BY DEF Type, Need
  <1>5. Lens => Some
    BY DEF Lens, Need
  <1>6. Stored => Some
    BY DEF Stored
  <1>7. Table => Some
    BY DEF Table, Need
  <1>8. Trees => Some
    BY DEF Trees, Need
  <1>9. Dry => Some
    BY DEF Dry
  <1>11. StartCodes => Some
    BY DEF StartCodes
  <1>12. LenCode => Some
    BY DEF LenCode, Need
  <1>13. LenExt => Some
    BY DEF LenExt, Need
  <1>14. Dist => Some
    BY DEF Dist, Need
  <1>15. DistExt => Some
    BY DEF DistExt, Need
  <1>16. Copy => Some
    BY DEF Copy
  <1>17. Lit => Some
    BY DEF Lit
  <1>18. Wash => Some
    BY DEF Wash
  <1>19. Fast => Some
    BY DEF Fast, On
  <1>20. FastDist => Some
    BY DEF FastDist, On
  <1> HIDE DEF Some
  <1>21. Some => \/ pc' \in {"inflate", "astray"} /\ handed' = handed
                 \/ pc' = "check" /\ handed' = handed \o z'.out
    BY <1>1, <1>2, <1>3 DEF Some
  <1>22. QED BY <1>4, <1>5, <1>6, <1>7, <1>8, <1>9, <1>11, <1>12, <1>13, <1>14, <1>15,
                <1>16, <1>17, <1>18, <1>19, <1>20, <1>21 DEF Decode

LEMMA NothingAfterEnd ==
  ASSUME IInv, z.mode = "DONE", [Next]_vars
  PROVE  z'.mode = "DONE" /\ handed' = handed
  <1>1. z \in Decoders
    BY DEF IInv, Ready, Kept, Held
  <1>2. CASE Decode
    <2>1. AfterEnd
      BY <1>2 DEF Decode, Type, Lens, Stored, Table, Trees, Dry, StartCodes, LenCode,
           LenExt, Dist, DistExt, Copy, Lit, Wash, Fast, FastDist, In
    <2>2. z' = [z EXCEPT !.r = "END"] /\ handed' = handed
      BY <2>1 DEF AfterEnd
    <2>3. QED BY <1>1, <2>2 DEF Decoders
  <1>3. CASE Turn
    BY <1>1, <1>3 DEF Turn, Decoders
  <1>4. CASE Check
    BY <1>4 DEF Check, Settle
  <1>5. CASE Feed
    BY <1>1, <1>5 DEF Feed, Step, ChunkRead, Written, IoFails, Flushed, Decoders
  <1>6. CASE UNCHANGED vars
    BY <1>6 DEF vars
  <1>7. QED BY <1>2, <1>3, <1>4, <1>5, <1>6 DEF Next

LEMMA LeadsIs ==
  ASSUME NEW a \in Seq(Nat), NEW b \in Seq(Nat), Leads(a, b)
  PROVE  a = SubSeq(b, 1, Len(a)) /\ Len(a) <= Len(b)
  <1>1. PICK m \in Nat, n \in Nat : m = Len(a) /\ n = Len(b)
    OBVIOUS
  <1>2. m <= n /\ \A j \in 1 .. m : a[j] = b[j] /\ b[j] \in Nat
    BY <1>1 DEF Leads
  <1>3. PICK c : c = SubSeq(b, 1, m)
    OBVIOUS
  <1>4. c \in Seq(Nat) /\ Len(c) = m /\ \A j \in 1 .. m : c[j] = b[j]
    BY <1>1, <1>2, <1>3
  <1>5. a = c
    <2>1. Len(a) = Len(c) /\ \A j \in 1 .. Len(a) : a[j] = c[j]
      BY <1>1, <1>2, <1>4
    <2>2. QED BY <1>4, <2>1, SeqEqual
  <1>6. QED BY <1>1, <1>2, <1>3, <1>5

LEMMA HandsOut ==
  ASSUME IInv, IInv', Delivered, Delivered', s' = s, [Next]_vars
  PROVE  [Decoder!HandOut]_<<Decoded(s), handed, z.mode = "DONE">>
  <1>1. PICK n, h, k : n = Decoded(s) /\ h = handed /\ k = handed'
    OBVIOUS
  <1>2. n \in Seq(Nat)
    <2>1. s \in Streams
      BY DEF IInv, Typed
    <2>2. Len(s) + 1 \in 1 .. Len(s) + 1
      BY <2>1, StreamTypes
    <2>3. QED BY <1>1, <2>1, <2>2, OutTypes DEF Decoded
  <1>3. Decoded(s)' = n
    BY <1>1 DEF Decoded
  <1>4. h \in Seq(Nat) /\ k \in Seq(Nat) /\ Leads(k, n)
    <2>1. k \in Seq(Nat) /\ Leads(k, Decoded(s)')
      BY <1>1 DEF Delivered, Told, Leads
    <2>2. QED BY <1>1, <1>3, <2>1 DEF Delivered, Told
  <1>5. z' \in Decoders
    BY DEF IInv, Ready, Kept, Held
  <1>6. z'.mode = "DONE" => k = n
    BY <1>1, <1>3 DEF Delivered, Told
  <1>7. CASE z.mode = "DONE"
    <2>1. z'.mode = "DONE" /\ handed' = handed
      BY <1>7, NothingAfterEnd
    <2>2. QED BY <1>1, <1>3, <1>7, <2>1
  <1>8. CASE z.mode # "DONE"
    <2>1. Len(h) <= Len(k)
      <3>1. handed' = handed \/ handed' = handed \o z'.out
        <4>1. CASE Decode
          BY <1>5, <4>1, DecodeHands DEF AfterEnd
        <4>2. CASE Turn \/ Check \/ Feed
          BY <4>2 DEF Turn, Check, Settle, Feed, Step, ChunkRead, Written, IoFails, Flushed
        <4>3. CASE UNCHANGED vars
          BY <4>3 DEF vars
        <4>4. QED BY <4>1, <4>2, <4>3 DEF Next
      <3>2. PICK o : o = z'.out
        OBVIOUS
      <3>3. o \in Seq(Nat)
        BY <1>5, <3>2 DEF Decoders
      <3>4. Len(h \o o) = Len(h) + Len(o) /\ Len(h) \in Nat /\ Len(o) \in Nat
        BY <1>4, <3>3, JoinFacts
      <3>5. k = h \/ k = h \o o
        BY <1>1, <3>1, <3>2
      <3>6. QED BY <3>4, <3>5
    <2>2. k = SubSeq(n, 1, Len(k)) /\ Len(k) <= Len(n)
      BY <1>2, <1>4, LeadsIs
    <2>3. PICK c : c = Len(k)
      OBVIOUS
    <2>4. c \in Len(h) .. Len(n)
      BY <1>2, <1>4, <2>1, <2>2, <2>3
    <2>5. \E j \in Len(handed) .. Len(Decoded(s)) : handed' = SubSeq(Decoded(s), 1, j)
      BY <1>1, <2>2, <2>3, <2>4
    <2>6. Decoder!HandOut
      BY <1>1, <1>3, <1>6, <1>8, <2>5 DEF Decoder!HandOut
    <2>7. QED BY <2>6
  <1>9. QED BY <1>7, <1>8

\* The decoder keeps what it promises to its user, for every stream of the
\* format and every size of chunk, window and buffer: whether inflate_fast() or
\* the modes of InfCodes write a byte, wherever a copy meets the end of the
\* window and inflate_flush() the end of the buffer, each call of inflate()
\* copies out the next decoded bytes, and Z_STREAM_END comes with the last,
\* as far as the decoder does not go astray.
THEOREM OnlyDecoded == Spec => []Delivered
  <1>1. Init => IInv /\ Delivered
    BY InitHolds, InitDelivers
  <1>2. IInv /\ Delivered /\ [Next]_vars => (IInv /\ Delivered)'
    BY NextKeeps, NextDelivers
  <1>3. QED BY <1>1, <1>2, PTL DEF Spec

\* That is the refinement: seen as the decoded stream, the bytes copied out and
\* whether the decoder is done, each step of the decoder, of append() and of the
\* reader hands out the next bytes of Decoding or leaves all three alone, also
\* where a chunk is refused and where the caller has the end.  A decoder that goes
\* astray has done so up to there.
THEOREM ImplementsDecoding == Spec => DecodesInOrder
  <1>1. Init => Decoder!Init
    <2>1. ASSUME Init PROVE handed = <<>> /\ (z.mode = "DONE") = FALSE
      BY <2>1 DEF Init, Start
    <2>2. QED BY <2>1 DEF Decoder!Init
  <1>2. /\ IInv /\ Delivered /\ [Next]_vars
        => [Decoder!HandOut]_<<Decoded(s), handed, z.mode = "DONE">>
    BY NextKeeps, NextDelivers, HandsOut
  <1>3. Spec => []IInv
    BY DecoderInvariant
  <1>4. Spec => []Delivered
    BY OnlyDecoded
  <1>5. QED BY <1>1, <1>2, <1>3, <1>4, PTL DEF Spec, DecodesInOrder, Decoder!Spec

-----------------------------------------------------------------------------
(***************************************************************************)
(* Nothing is lost silently.  Two things are followed beside IInv: where the *)
(* bytes handed out are (in the text, in the buffers of the present append(), *)
(* in the output of the decoder), unless the text shows that a chunk was   *)
(* lost; and that the decoder waits between two chunks only for bits that the *)
(* file has not given yet.  At the end of the file this says that no field *)
(* whose bits are there is left.                                           *)
(***************************************************************************)
\* The file has the bits that it takes to look up field j.
Seen(j) == At[s][j] + s[j].look <= Bytes(s) * Byte

\* The decoder has looked up no field for which the file has too few bits.
Passed(x) ==
  x.mode # "BAD" =>
    /\ \A j \in 1 .. x.i : Seen(j)
    /\ x.mode \in {"LENEXT", "DISTEXT"} => Seen(x.i + 1)
    /\ x.mode = "DONE" => x.i = Len(s)

\* The bits that the decoder waits for, counted from where the field begins.
Needed(x) ==
  IF x.mode \in {"LENEXT", "DISTEXT"} THEN Ahead(x).bits + Ahead(x).extra ELSE Ahead(x).look

\* The decoder has done all that can be done with g bytes of the file.
Idle(x, g) ==
  Live(x) => /\ Pending(x) = 0 /\ Owing(x) = 0
             /\ x.i + 1 \in 1 .. Len(s)
             /\ At[s][x.i + 1] + Needed(x) > g * Byte

LEMMA Scaled ==
  ASSUME NEW a \in Nat, NEW b \in Nat, a <= b, NEW c \in Nat
  PROVE  a * c <= b * c /\ a * c \in Nat /\ b * c \in Nat
  <1>1. PICK d \in Nat : d = b - a
    OBVIOUS
  <1>2. (a + d) * c = a * c + d * c /\ a * c \in Nat /\ d * c \in Nat /\ b = a + d
    BY <1>1, Dist2, Times
  <1>3. QED BY <1>2

\* Fields follow each other in the file.
LEMMA AtMost ==
  ASSUME s \in Streams
  PROVE  /\ Bytes(s) \in Nat /\ Bytes(s) * Byte \in Nat
         /\ \A i \in 1 .. Len(s) + 1 : At[s][i] \in Nat /\ At[s][i] <= Bytes(s) * Byte
  <1> DEFINE m == Len(s)
             end == At[s][m + 1]
             S == {k \in 1 .. m + 1 : At[s][m + 2 - k] <= end}
  <1>1. m \in Nat /\ m + 1 \in 1 .. m + 1 /\ \A i \in 1 .. m : s[i] \in Fields
    BY StreamTypes
  <1>2. \A i \in 1 .. m + 1 : At[s][i] \in Nat
    BY AtFacts
  <1>3. end \in Nat
    BY <1>1, <1>2
  <1>4. Bytes(s) \in Nat /\ end <= Bytes(s) * Byte /\ Bytes(s) * Byte \in Nat
    BY <1>3, InBytesFacts, Times, Sizes DEF Bytes
  <1>5. ASSUME NEW i \in 1 .. m PROVE At[s][i] <= At[s][i + 1]
    <2>1. At[s][i + 1] = NextBit(At[s][i], s[i])
      BY AtFacts
    <2>2. PICK p \in Nat, f \in Fields : p = At[s][i] /\ f = s[i]
      BY <1>1, <1>2
    <2>3. f.bits \in Nat /\ f.extra \in Nat
      BY FieldFacts
    <2>4. PICK e \in Nat : e = p + f.bits + f.extra
      BY <2>3
    <2>5. p <= e /\ e <= InBytes(e) * Byte
      <3>1. p <= e
        BY <2>3, <2>4
      <3>2. e <= InBytes(e) * Byte
        BY InBytesFacts, Zenon
      <3>3. QED BY <3>1, <3>2
    <2>6. NextBit(p, f) = e \/ NextBit(p, f) = InBytes(e) * Byte
      BY <2>4 DEF NextBit, Up
    <2>7. InBytes(e) * Byte \in Nat
      BY InBytesFacts, Times, Sizes
    <2>8. p <= NextBit(p, f)
      BY <2>5, <2>6, <2>7
    <2>9. QED BY <2>1, <2>2, <2>8, Zenon
  <1>6. 1 \in S
    <2>1. m + 2 - 1 = m + 1 /\ 1 \in 1 .. m + 1
      BY <1>1
    <2>2. QED BY <1>3, <2>1
  <1>7. ASSUME NEW k \in 1 .. (m + 1) - 1, k \in S PROVE k + 1 \in S
    <2>1. PICK j : j = m + 2 - (k + 1)
      OBVIOUS
    <2>2. j \in 1 .. m /\ j \in 1 .. m + 1 /\ j + 1 \in 1 .. m + 1 /\ j + 1 = m + 2 - k
          /\ k + 1 \in 1 .. m + 1
      BY <1>1, <2>1
    <2>3. At[s][j] <= At[s][j + 1] /\ At[s][j + 1] <= end
      BY <1>5, <1>7, <2>2
    <2>4. At[s][j] \in Nat /\ At[s][j + 1] \in Nat
      BY <1>2, <2>2
    <2>5. At[s][j] <= end
      BY <1>3, <2>3, <2>4
    <2>6. QED BY <2>1, <2>2, <2>5
  <1> HIDE DEF S
  <1>8. \A k \in 1 .. m + 1 : k \in S
    <2> HIDE DEF m
    <2>1. m + 1 \in Nat
      BY <1>1
    <2>2. QED BY <1>6, <1>7, <2>1, Chain
  <1>9. ASSUME NEW i \in 1 .. m + 1 PROVE At[s][i] <= Bytes(s) * Byte
    <2>1. m + 2 - i \in 1 .. m + 1 /\ m + 2 - (m + 2 - i) = i
      BY <1>1
    <2>2. At[s][i] <= end
      BY <1>8, <2>1 DEF S
    <2>3. At[s][i] \in Nat
      BY <1>2
    <2>4. QED BY <1>3, <1>4, <2>2, <2>3
  <1>10. QED BY <1>2, <1>4, <1>9

\* A field is in the file, from its first bit to its last.
LEMMA Whole ==
  ASSUME s \in Streams, NEW j \in 1 .. Len(s)
  PROVE  /\ At[s][j] + s[j].bits + s[j].extra <= Bytes(s) * Byte
         /\ s[j].look = s[j].bits => Seen(j)
  <1>1. PICK p, f, e : p = At[s][j] /\ f = s[j] /\ e = At[s][j + 1]
    OBVIOUS
  <1>2. PICK m \in Nat : m = Len(s)
    BY StreamTypes
  <1>3. j \in 1 .. m + 1 /\ j + 1 \in 1 .. m + 1
    BY <1>2
  <1>4. p \in Nat /\ e \in Nat /\ e <= Bytes(s) * Byte /\ Bytes(s) * Byte \in Nat
    BY <1>1, <1>2, <1>3, AtMost
  <1>5. f \in Fields /\ f.bits \in Nat /\ f.extra \in Nat
    BY <1>1, StreamTypes, FieldFacts
  <1>6. e = NextBit(p, f)
    BY <1>1, AtFacts
  <1>7. PICK b \in Nat : b = p + f.bits + f.extra
    BY <1>4, <1>5
  <1>8. b <= InBytes(b) * Byte /\ InBytes(b) * Byte \in Nat
    BY InBytesFacts, Times, Sizes
  <1>9. e = b \/ e = InBytes(b) * Byte
    BY <1>6, <1>7 DEF NextBit, Up
  <1>10. b <= Bytes(s) * Byte
    BY <1>4, <1>8, <1>9
  <1>11. f.look = f.bits => p + f.look <= Bytes(s) * Byte
    BY <1>4, <1>5, <1>7, <1>10
  <1>12. QED BY <1>1, <1>7, <1>10, <1>11 DEF Seen

\* The bits that the buffer and the chunk hold, and those that lie beyond.
LEMMA Reached ==
  ASSUME s \in Streams, NEW g, Ready(z, g), Live(z), NEW bits, bits \in Nat,
         g \in Nat, g <= Bytes(s)
  PROVE  /\ Want(z, bits) <= z.n => Pos(z) + bits <= Bytes(s) * Byte
         /\ Want(z, bits) > z.n => Pos(z) + bits > g * Byte
         /\ Want(z, bits) \in Nat /\ z.n \in Nat
  <1>1. /\ z.base \in Int /\ z.idx \in Int /\ z.n \in Int /\ z.k \in Int /\ z.n >= 0 /\ z.k >= 0
        /\ z.base + z.idx + z.n = g
    BY HeldFields DEF Ready, Kept, Amounts
  <1>2. PICK n \in Nat, k \in Nat, p \in Int : n = z.n /\ k = z.k /\ p = z.base + z.idx
    BY <1>1
  <1>3. PICK w \in Nat : w = Want(z, bits)
    BY <1>1, WantFacts
  <1>4. k + w * Byte >= bits /\ (n < w => k + n * Byte < bits)
    BY <1>1, <1>2, <1>3, WantFacts
  <1>5. p + n = g
    BY <1>1, <1>2
  <1>6. p * Byte + n * Byte = g * Byte /\ p * Byte \in Int /\ n * Byte \in Nat
    <2>1. (p + n) * Byte = p * Byte + n * Byte /\ p * Byte \in Int
      BY Sizes, Dist2
    <2>2. n * Byte \in Nat
      BY Sizes, Times
    <2>3. QED BY <1>5, <2>1, <2>2
  <1>7. Pos(z) = p * Byte - k
    BY <1>2 DEF Pos
  <1>8. ASSUME w <= n PROVE Pos(z) + bits <= Bytes(s) * Byte
    <2>1. w * Byte <= n * Byte /\ w * Byte \in Nat
      BY <1>8, Sizes, Scaled
    <2>2. Bytes(s) \in Nat
      BY AtMost
    <2>3. g * Byte <= Bytes(s) * Byte /\ g * Byte \in Nat /\ Bytes(s) * Byte \in Nat
      BY <2>2, Sizes, Scaled
    <2>4. PICK a \in Int, b \in Int, c \in Int, d \in Int, e \in Int :
             /\ a = p * Byte /\ b = n * Byte /\ c = w * Byte /\ d = g * Byte
             /\ e = Bytes(s) * Byte
      BY <1>6, <2>1, <2>3
    <2>5. a + b = d /\ c <= b /\ d <= e /\ k + c >= bits
      BY <1>4, <1>6, <2>1, <2>3, <2>4
    <2>6. a - k + bits <= e
      BY <2>5
    <2>7. QED BY <1>7, <2>4, <2>6
  <1>9. ASSUME w > n PROVE Pos(z) + bits > g * Byte
    <2>1. PICK a \in Int, b \in Int, d \in Int :
             a = p * Byte /\ b = n * Byte /\ d = g * Byte
      BY <1>6
    <2>2. a + b = d /\ k + b < bits
      BY <1>4, <1>6, <1>9, <2>1
    <2>3. a - k + bits > d
      BY <2>2
    <2>4. QED BY <1>7, <2>1, <2>3
  <1>10. QED BY <1>2, <1>3, <1>8, <1>9

\* What a step of the decoder brings about, which has g bytes of the file.
Fine(g) ==
  /\ Passed(z')
  /\ pc' = "check" /\ Len(z'.out) # BufSize => Idle(z', g)
  /\ pc' = "inflate" => z'.mode # "DONE"

LEMMA FailBad ==
  ASSUME NEW x, Fail(x), z' \in Decoders
  PROVE  z'.mode = "BAD"
  <1>1. PICK v : v = [x EXCEPT !.r = "DATA", !.mode = "BAD"]
    OBVIOUS
  <1>2. PICK n : n = v.write - v.read + IF v.read <= v.write THEN 0 ELSE End
    OBVIOUS
  <1>3. PICK y : y = Give(v, n)
    OBVIOUS
  <1>4. z' = IF y.mode = "DONE" THEN [y EXCEPT !.read = 0, !.write = 0, !.k = 0] ELSE y
    BY <1>1, <1>2, <1>3 DEF Fail, Return, Flush
  <1>5. "mode" \in DOMAIN z'
    BY DEF Decoders
  <1>6. DOMAIN z' = DOMAIN y
    BY <1>4
  <1>7. DOMAIN y = DOMAIN v
    BY <1>3 DEF Give
  <1>8. y.mode = v.mode
    BY <1>3, <1>5, <1>6, <1>7 DEF Give
  <1>9. v.mode = "BAD"
    <2>1. "mode" \in DOMAIN x
      BY <1>1, <1>5, <1>6, <1>7
    <2>2. QED BY <1>1, <2>1
  <1>10. QED BY <1>4, <1>5, <1>6, <1>8, <1>9

LEMMA FailFine ==
  ASSUME NEW g, NEW x, Fail(x), z' \in Decoders
  PROVE  Fine(g)
  BY FailBad DEF Fine, Passed, Idle, Live

LEMMA GoFine ==
  ASSUME NEW g, NEW x, Go(x), pc = "inflate", Passed(x), x.mode # "DONE"
  PROVE  Fine(g)
  BY DEF Fine, Go

\* The same field is next, or the one behind it.
LEMMA PassedBy ==
  ASSUME NEW x, Held(x), Passed(x), x.mode # "BAD", NEW y,
         \/ y.i = x.i
         \/ y.i = x.i + 1 /\ Seen(x.i + 1),
         y.mode \in {"LENEXT", "DISTEXT"} => y.i = x.i /\ Seen(x.i + 1),
         y.mode = "DONE" => y.i = Len(s)
  PROVE  Passed(y)
  <1>1. PICK i \in Nat : i = x.i
    BY HeldFields
  <1>2. \A j \in 1 .. i : Seen(j)
    BY <1>1 DEF Passed
  <1>3. ASSUME NEW j \in 1 .. y.i PROVE Seen(j)
    <2>1. CASE y.i = x.i
      BY <1>1, <1>2, <2>1
    <2>2. CASE y.i = x.i + 1 /\ Seen(x.i + 1)
      <3>1. j \in 1 .. i \/ j = i + 1
        BY <1>1, <2>2
      <3>2. QED BY <1>1, <1>2, <2>2, <3>1
    <2>3. QED BY <2>1, <2>2
  <1>4. y.mode \in {"LENEXT", "DISTEXT"} => Seen(y.i + 1)
    OBVIOUS
  <1>5. QED BY <1>3, <1>4 DEF Passed

LEMMA ReturnFine ==
  ASSUME NEW g, NEW x, Held(x), Live(x), Return(x), Passed(x),
         Len(Flush(x).out) # BufSize =>
           Owing(x) = 0 /\ x.i + 1 \in 1 .. Len(s) /\ At[s][x.i + 1] + Needed(x) > g * Byte
  PROVE  Fine(g)
  <1>1. PICK y : y = Flush(x)
    OBVIOUS
  <1>2. Held(y) /\ CoreOf(x, y) /\ (y.read # y.write => Len(y.out) = BufSize)
    BY <1>1, FlushFacts, CoreIs
  <1>3. y.i = x.i /\ y.mode = x.mode /\ y.left = x.left
    BY <1>2 DEF CoreOf
  <1>4. z' = y /\ pc' = "check"
    BY <1>1, <1>3 DEF Return, Live
  <1>5. Passed(y)
    BY <1>3 DEF Passed
  <1>6. ASSUME Len(y.out) # BufSize PROVE Idle(y, g)
    <2>1. y.read = y.write
      BY <1>2, <1>6
    <2>2. Pending(y) = 0
      BY <1>2, <2>1, HeldFields DEF Pending
    <2>3. Owing(y) = Owing(x) /\ Needed(y) = Needed(x)
      BY <1>3 DEF Owing, Needed, Ahead
    <2>4. QED BY <1>1, <1>3, <1>6, <2>2, <2>3 DEF Idle
  <1>7. QED BY <1>4, <1>5, <1>6 DEF Fine

\* inflate() returns with its buffer full.
LEMMA FullFine ==
  ASSUME NEW g, NEW x, Held(x), Live(x), Return(x), Passed(x), Len(x.out) = BufSize
  PROVE  Fine(g)
  <1>1. PICK y : y = Flush(x)
    OBVIOUS
  <1>2. Len(y.out) = Len(x.out) + GiveCount(x) /\ Held(y)
    BY <1>1, FlushFacts
  <1>3. GiveCount(x) \in Nat /\ Len(y.out) <= BufSize
    BY <1>2, PendingFacts, HeldFields
  <1>4. Len(Flush(x).out) = BufSize
    BY <1>1, <1>2, <1>3, Sizes
  <1>5. QED BY <1>4, ReturnFine

\* NEEDBITS, where no more is known of the decoder than before a field.
LEMMA NeedFine ==
  ASSUME NEW g, Before(g), NEW bits, Looks(g, bits), g \in Nat, g <= Bytes(s), Passed(z),
         DueAt(z).what \notin {"end", "nothing"}, z.mode \notin {"LIT", "COPY"},
         bits = IF z.mode \in {"LENEXT", "DISTEXT"} THEN Ahead(z).extra ELSE Ahead(z).look
  PROVE  /\ Astray => Fine(g)
         /\ Want(z, bits) > z.n /\ Return(Fetch(z, z.n)) => Fine(g)
         /\ Want(z, bits) <= z.n => Seen(z.i + 1)
         /\ Want(z, bits) > z.n \/ Want(z, bits) <= z.n
  <1>1. /\ s \in Streams /\ Ready(z, g) /\ Live(z) /\ Held(z) /\ z.i <= Len(s) /\ Amounts(z, g)
        /\ bits \in Nat
    BY DEF Before, Looks, Ready, Kept
  <1>2. /\ Want(z, bits) <= z.n => Pos(z) + bits <= Bytes(s) * Byte
        /\ Want(z, bits) > z.n => Pos(z) + bits > g * Byte
        /\ Want(z, bits) \in Nat /\ z.n \in Nat
    BY <1>1, Reached
  <1>3. z.i + 1 \in 1 .. Len(s) /\ Ahead(z) \in Fields
    BY <1>1, FieldAhead
  <1>4. PICK a \in Nat, f \in Fields : a = At[s][z.i + 1] /\ f = Ahead(z)
    <2>1. z.i + 1 \in 1 .. Len(s) + 1
      BY <1>3, StreamTypes, <1>1
    <2>2. QED BY <1>1, <1>3, <2>1, AtMost
  <1>5. f.bits \in Nat /\ f.look \in Nat /\ f.extra \in Nat
    BY FieldFacts
  <1>6. Pos(z) + bits = a + Needed(z)
    <2>1. CASE z.mode \in {"LENEXT", "DISTEXT"}
      <3>1. Pos(z) = a + f.bits /\ bits = f.extra /\ Needed(z) = f.bits + f.extra
        BY <1>1, <1>4, <2>1 DEF Amounts, Begun, Needed
      <3>2. QED BY <1>5, <3>1
    <2>2. CASE z.mode \notin {"LENEXT", "DISTEXT"}
      <3>1. Pos(z) = a + 0 /\ bits = f.look /\ Needed(z) = f.look
        BY <1>1, <1>4, <2>2 DEF Amounts, Begun, Needed
      <3>2. QED BY <1>5, <3>1
    <2>3. QED BY <2>1, <2>2
  <1>7. Astray => Fine(g)
    BY DEF Astray, Fine
  <1>8. ASSUME Want(z, bits) > z.n, Return(Fetch(z, z.n)) PROVE Fine(g)
    <2>1. PICK y : y = Fetch(z, z.n)
      OBVIOUS
    <2>2. Held(y) /\ y.i = z.i /\ y.mode = z.mode /\ y.left = z.left
      BY <1>1, <1>2, <2>1, FetchFields
    <2>3. Passed(y) /\ Live(y) /\ Owing(y) = 0 /\ Needed(y) = Needed(z)
      BY <1>1, <2>2 DEF Passed, Live, Owing, Needed, Ahead
    <2>4. At[s][y.i + 1] + Needed(y) > g * Byte
      BY <1>2, <1>4, <1>6, <1>8, <2>2, <2>3
    <2>5. QED BY <1>3, <1>8, <2>1, <2>2, <2>3, <2>4, ReturnFine
  <1>9. ASSUME Want(z, bits) <= z.n PROVE Seen(z.i + 1)
    <2>1. CASE z.mode \in {"LENEXT", "DISTEXT"}
      BY <2>1, <1>1 DEF Passed, Live
    <2>2. CASE z.mode \notin {"LENEXT", "DISTEXT"}
      <3>1. Needed(z) = s[z.i + 1].look
        BY <2>2 DEF Needed, Ahead
      <3>2. QED BY <1>2, <1>4, <1>6, <1>9, <3>1 DEF Seen
    <2>3. QED BY <2>1, <2>2
  <1>10. QED BY <1>2, <1>7, <1>8, <1>9

\* What is known before a step of the decoder.
Poised(g) ==
  Before(g) /\ g \in Nat /\ g <= Bytes(s) /\ Passed(z) /\ z' \in Decoders /\ Held(z)

\* From z to y no field is passed over for which the file has too few bits.
Moves(y) ==
  /\ y.mode # "DONE"
  /\ y.i = z.i \/ (y.i = z.i + 1 /\ Seen(z.i + 1))
  /\ y.mode \in {"LENEXT", "DISTEXT"} => y.i = z.i /\ Seen(z.i + 1)

LEMMA OnFine ==
  ASSUME NEW g, Poised(g), NEW y, Moves(y), Go(y)
  PROVE  Fine(g)
  <1>1. Held(z) /\ Passed(z) /\ z.mode # "BAD" /\ pc = "inflate"
    BY DEF Poised, Before, Live
  <1>2. Passed(y) /\ y.mode # "DONE"
    BY <1>1, PassedBy DEF Moves
  <1>3. QED BY <1>1, <1>2, GoFine

\* What is made of a field whose bits are in the buffer of x.
Follows(x) ==
  \E v : \/ Fail(v)
         \/ /\ Go(v)
            /\ x \in Decoders =>
                 /\ v.mode # "DONE" /\ (v.i = x.i \/ v.i = x.i + 1)
                 /\ v.mode \in {"LENEXT", "DISTEXT"} => v.i = x.i

LEMMA FailFollows ==
  ASSUME NEW x, NEW v, Fail(v)
  PROVE  Follows(x)
  BY DEF Follows

LEMMA GoFollows ==
  ASSUME NEW x, NEW v, Go(v),
         x \in Decoders =>
           /\ v.mode # "DONE" /\ (v.i = x.i \/ v.i = x.i + 1)
           /\ v.mode \in {"LENEXT", "DISTEXT"} => v.i = x.i
  PROVE  Follows(x)
  BY DEF Follows

LEMMA FieldFine ==
  ASSUME NEW g, Poised(g), NEW bits, Looks(g, bits),
         DueAt(z).what \notin {"end", "nothing"}, z.mode \notin {"LIT", "COPY"},
         bits = IF z.mode \in {"LENEXT", "DISTEXT"} THEN Ahead(z).extra ELSE Ahead(z).look,
         NEW x, x = Load(z, bits),
         \/ Astray
         \/ Want(z, bits) > z.n /\ Return(Fetch(z, z.n))
         \/ ~ (Want(z, bits) > z.n) /\ Follows(x)
  PROVE  Fine(g)
  <1>1. Before(g) /\ g \in Nat /\ g <= Bytes(s) /\ Passed(z) /\ z' \in Decoders /\ Held(z)
    BY DEF Poised
  <1>2. /\ Astray => Fine(g)
        /\ Want(z, bits) > z.n /\ Return(Fetch(z, z.n)) => Fine(g)
        /\ Want(z, bits) <= z.n => Seen(z.i + 1)
        /\ Want(z, bits) > z.n \/ Want(z, bits) <= z.n
    BY <1>1, NeedFine
  <1>3. ASSUME Want(z, bits) <= z.n, Follows(x) PROVE Fine(g)
    <2>1. Seen(z.i + 1) /\ x \in Decoders /\ x.i = z.i
      BY <1>1, <1>2, <1>3, NeedFaces DEF Faced
    <2>2. PICK v : \/ Fail(v)
                   \/ /\ Go(v)
                      /\ x \in Decoders =>
                           /\ v.mode # "DONE" /\ (v.i = x.i \/ v.i = x.i + 1)
                           /\ v.mode \in {"LENEXT", "DISTEXT"} => v.i = x.i
      BY <1>3 DEF Follows
    <2>3. CASE Fail(v)
      BY <1>1, <2>3, FailFine
    <2>4. CASE Go(v) /\ ~ Fail(v)
      <3>1. Moves(v)
        BY <2>1, <2>2, <2>4 DEF Moves
      <3>2. QED BY <2>4, <3>1, OnFine
    <2>5. QED BY <2>2, <2>3, <2>4
  <1>4. QED BY <1>2, <1>3

LEMMA PoisedIs ==
  ASSUME NEW g, Poised(g)
  PROVE  /\ s \in Streams /\ Ready(z, g) /\ Live(z) /\ Kept(z, g) /\ Place(z) /\ Held(z)
         /\ Amounts(z, g) /\ z.i <= Len(s) /\ Before(g) /\ Passed(z) /\ z' \in Decoders
         /\ g \in Nat /\ g <= Bytes(s) /\ pc = "inflate" /\ Ahead(z) = F
  BY DEF Poised, Before, Ready, Kept, Ahead, F

LEMMA TypeFine ==
  ASSUME NEW g, Poised(g), Type
  PROVE  Fine(g)
  <1>1. z.mode = "TYPE"
    BY DEF Type, In
  <1>2. DueAt(z).what = "block" /\ Ahead(z) = F
    BY <1>1, PoisedIs DEF Place
  <1>3. F.look \in Nat /\ F.look <= LitBits
    BY <1>2, PoisedIs, Lookup
  <1>4. Looks(g, F.look)
    BY <1>1, <1>3, PoisedIs DEF Looks, Fastest
  <1>5. PICK x : x = Load(z, F.look)
    OBVIOUS
  <1>6. PICK y : y = [Drop(x, F.bits) EXCEPT !.last = F.val = 1]
    OBVIOUS
  <1>7. PICK v, mode : /\ v = Done([y EXCEPT !.k = @ - (@ % Byte)], mode) /\ mode = "LENS"
    OBVIOUS
  <1>8. \/ Astray
        \/ Want(z, F.look) > z.n /\ Return(Fetch(z, z.n))
        \/ /\ ~ (Want(z, F.look) > z.n)
           /\ \/ Fail(y)
              \/ Go(v)
              \/ \E to \in {"START", "TABLE"} : Go(Done(y, to))
    BY <1>5, <1>6, <1>7 DEF Type, Need
  <1>9. Go(v) => Follows(x)
    <2>1. x \in Decoders => v.mode = "LENS" /\ v.i = x.i + 1
      BY <1>6, <1>7 DEF Done, Drop, Decoders
    <2>2. QED BY <2>1, GoFollows
  <1>10. ASSUME NEW to \in {"START", "TABLE"}, Go(Done(y, to)) PROVE Follows(x)
    <2>1. PICK w : w = Done(y, to)
      OBVIOUS
    <2>2. x \in Decoders => w.mode = to /\ w.i = x.i + 1
      BY <1>6, <2>1 DEF Done, Drop, Decoders
    <2>3. QED BY <1>10, <2>1, <2>2, GoFollows
  <1>11. Fail(y) => Follows(x)
    BY FailFollows
  <1>12. QED BY <1>1, <1>2, <1>4, <1>5, <1>8, <1>9, <1>10, <1>11, FieldFine

LEMMA LensFine ==
  ASSUME NEW g, Poised(g), Lens
  PROVE  Fine(g)
  <1>1. z.mode = "LENS"
    BY DEF Lens, In
  <1>2. DueAt(z).what = "lens" /\ Ahead(z) = F
    BY <1>1, PoisedIs DEF Place
  <1>3. /\ F.look \in Nat
        /\ F.is = "lens" => F.look = F.bits /\ F.bits % Byte = 0
    BY <1>2, PoisedIs, Lookup
  <1>4. Looks(g, F.look)
    BY <1>1, <1>2, <1>3, PoisedIs DEF Looks, Fastest
  <1>5. PICK x : x = Load(z, F.look)
    OBVIOUS
  <1>6. PICK mode : mode = IF F.val # 0 THEN "STORED" ELSE NextBlock(x)
    OBVIOUS
  <1>7. PICK y : y = Done([x EXCEPT !.k = 0, !.left = F.val], mode)
    OBVIOUS
  <1>8. \/ Astray
        \/ Want(z, F.look) > z.n /\ Return(Fetch(z, z.n))
        \/ ~ (Want(z, F.look) > z.n) /\ (Fail(x) \/ Go(y))
    BY <1>5, <1>6, <1>7 DEF Lens, Need
  <1>9. Go(y) => Follows(x)
    <2>1. mode \in {"STORED", "DRY", "TYPE"}
      BY <1>6 DEF NextBlock
    <2>2. x \in Decoders => y.mode = mode /\ y.i = x.i + 1
      BY <1>7 DEF Done, Decoders
    <2>3. QED BY <2>1, <2>2, GoFollows
  <1>10. Fail(x) => Follows(x)
    BY FailFollows
  <1>11. QED BY <1>1, <1>2, <1>4, <1>5, <1>8, <1>9, <1>10, FieldFine

LEMMA TableFine ==
  ASSUME NEW g, Poised(g), Table
  PROVE  Fine(g)
  <1>1. z.mode = "TABLE"
    BY DEF Table, In
  <1>2. DueAt(z).what = "table" /\ Ahead(z) = F
    BY <1>1, PoisedIs DEF Place
  <1>3. F.look \in Nat /\ F.look <= LitBits
    BY <1>2, PoisedIs, Lookup
  <1>4. Looks(g, F.look)
    BY <1>1, <1>3, PoisedIs DEF Looks, Fastest
  <1>5. PICK x : x = Load(z, F.look)
    OBVIOUS
  <1>6. PICK y : y = Done([Drop(x, F.bits) EXCEPT !.left = F.val], "TREES")
    OBVIOUS
  <1>7. \/ Astray
        \/ Want(z, F.look) > z.n /\ Return(Fetch(z, z.n))
        \/ ~ (Want(z, F.look) > z.n) /\ (Fail(x) \/ Go(y))
    BY <1>5, <1>6 DEF Table, Need
  <1>8. Go(y) => Follows(x)
    <2>1. x \in Decoders => y.mode = "TREES" /\ y.i = x.i + 1
      BY <1>6 DEF Done, Drop, Decoders
    <2>2. QED BY <2>1, GoFollows
  <1>9. Fail(x) => Follows(x)
    BY FailFollows
  <1>10. QED BY <1>1, <1>2, <1>4, <1>5, <1>7, <1>8, <1>9, FieldFine

\* A step that decodes nothing.
LEMMA SameFieldFine ==
  ASSUME NEW g, Poised(g), NEW y, y.i = z.i,
         y.mode \in {"START", "FAST", "LEN", "COPY", "STORED", "DRY", "TYPE"}, Go(y)
  PROVE  Fine(g)
  BY OnFine DEF Moves

LEMMA TreesFine ==
  ASSUME NEW g, Poised(g), Trees
  PROVE  Fine(g)
  <1>1. z.mode = "TREES" /\ z \in Decoders
    BY PoisedIs DEF Trees, In, Held
  <1>2. CASE z.left = 0
    <2>1. PICK y : y = [z EXCEPT !.mode = "START"]
      OBVIOUS
    <2>2. y.i = z.i /\ y.mode = "START"
      BY <1>1, <2>1 DEF Decoders
    <2>3. Go(y)
      BY <1>2, <2>1 DEF Trees
    <2>4. QED BY <2>2, <2>3, SameFieldFine
  <1>3. CASE z.left # 0
    <2>1. DueAt(z).what = "tree" /\ Ahead(z) = F
      BY <1>1, <1>3, PoisedIs DEF Place
    <2>2. F.look \in Nat /\ F.look <= LitBits
      BY <2>1, PoisedIs, Lookup
    <2>3. Looks(g, F.look)
      BY <1>1, <2>2, PoisedIs DEF Looks, Fastest
    <2>4. PICK x : x = Load(z, F.look)
      OBVIOUS
    <2>5. PICK y : y = Done([Drop(x, F.bits) EXCEPT !.left = @ - 1], "TREES")
      OBVIOUS
    <2>6. \/ Astray
          \/ Want(z, F.look) > z.n /\ Return(Fetch(z, z.n))
          \/ ~ (Want(z, F.look) > z.n) /\ (Fail(x) \/ Go(y))
      BY <1>3, <2>4, <2>5 DEF Trees, Need
    <2>7. Go(y) => Follows(x)
      <3>1. x \in Decoders => y.mode = "TREES" /\ y.i = x.i + 1
        BY <2>5 DEF Done, Drop, Decoders
      <3>2. QED BY <3>1, GoFollows
    <2>8. Fail(x) => Follows(x)
      BY FailFollows
    <2>9. QED BY <1>1, <2>1, <2>3, <2>4, <2>6, <2>7, <2>8, FieldFine
  <1>4. QED BY <1>2, <1>3

LEMMA LenCodeFine ==
  ASSUME NEW g, Poised(g), LenCode
  PROVE  Fine(g)
  <1>1. z.mode = "LEN"
    BY DEF LenCode, In
  <1>2. DueAt(z).what = "code" /\ Ahead(z) = F
    BY <1>1, PoisedIs DEF Place
  <1>3. F.look \in Nat /\ F.look <= LitBits
    BY <1>2, PoisedIs, Lookup
  <1>4. Looks(g, F.look)
    BY <1>1, <1>3, PoisedIs DEF Looks, Fastest
  <1>5. PICK x : x = Load(z, F.look)
    OBVIOUS
  <1>6. PICK y : y = Drop(x, F.bits)
    OBVIOUS
  <1>7. PICK v : v = [y EXCEPT !.mode = "LENEXT"]
    OBVIOUS
  <1>8. \/ Astray
        \/ Want(z, F.look) > z.n /\ Return(Fetch(z, z.n))
        \/ /\ ~ (Want(z, F.look) > z.n)
           /\ \/ Fail(y)
              \/ Go(v)
              \/ \E to \in {"LIT", "WASH"} : Go(Done(y, to))
    BY <1>5, <1>6, <1>7 DEF LenCode, Need
  <1>9. Go(v) => Follows(x)
    <2>1. x \in Decoders => v.mode = "LENEXT" /\ v.i = x.i
      BY <1>6, <1>7 DEF Drop, Decoders
    <2>2. QED BY <2>1, GoFollows
  <1>10. ASSUME NEW to \in {"LIT", "WASH"}, Go(Done(y, to)) PROVE Follows(x)
    <2>1. PICK w : w = Done(y, to)
      OBVIOUS
    <2>2. x \in Decoders => w.mode = to /\ w.i = x.i + 1
      BY <1>6, <2>1 DEF Done, Drop, Decoders
    <2>3. QED BY <1>10, <2>1, <2>2, GoFollows
  <1>11. Fail(y) => Follows(x)
    BY FailFollows
  <1>12. QED BY <1>1, <1>2, <1>4, <1>5, <1>8, <1>9, <1>10, <1>11, FieldFine

LEMMA LenExtFine ==
  ASSUME NEW g, Poised(g), LenExt
  PROVE  Fine(g)
  <1>1. z.mode = "LENEXT"
    BY DEF LenExt, In
  <1>2. DueAt(z).what = "code" /\ Ahead(z) = F /\ F.is = "len"
    BY <1>1, PoisedIs DEF Place
  <1>3. F.extra \in Nat /\ F.extra <= LitBits
    BY <1>2, PoisedIs, Lookup DEF Bad
  <1>4. Looks(g, F.extra)
    BY <1>1, <1>3, PoisedIs DEF Looks, Fastest
  <1>5. PICK x : x = Load(z, F.extra)
    OBVIOUS
  <1>6. PICK y : y = Done([Drop(x, F.extra) EXCEPT !.left = F.val], "DIST")
    OBVIOUS
  <1>7. \/ Astray
        \/ Want(z, F.extra) > z.n /\ Return(Fetch(z, z.n))
        \/ ~ (Want(z, F.extra) > z.n) /\ Go(y)
    BY <1>5, <1>6 DEF LenExt, Need
  <1>8. Go(y) => Follows(x)
    <2>1. x \in Decoders => y.mode = "DIST" /\ y.i = x.i + 1
      BY <1>6 DEF Done, Drop, Decoders
    <2>2. QED BY <2>1, GoFollows
  <1>9. QED BY <1>1, <1>2, <1>4, <1>5, <1>7, <1>8, FieldFine

LEMMA DistFine ==
  ASSUME NEW g, Poised(g), Dist
  PROVE  Fine(g)
  <1>1. z.mode = "DIST"
    BY DEF Dist, In
  <1>2. DueAt(z).what = "dist" /\ Ahead(z) = F
    BY <1>1, PoisedIs DEF Place
  <1>3. F.look \in Nat /\ F.look <= LitBits
    BY <1>2, PoisedIs, Lookup
  <1>4. Looks(g, F.look)
    BY <1>1, <1>3, PoisedIs DEF Looks, Fastest
  <1>5. PICK x : x = Load(z, F.look)
    OBVIOUS
  <1>6. PICK y : y = Drop(x, F.bits)
    OBVIOUS
  <1>7. PICK v : v = [y EXCEPT !.mode = "DISTEXT"]
    OBVIOUS
  <1>8. \/ Astray
        \/ Want(z, F.look) > z.n /\ Return(Fetch(z, z.n))
        \/ ~ (Want(z, F.look) > z.n) /\ (Fail(y) \/ Go(v))
    BY <1>5, <1>6, <1>7 DEF Dist, Need
  <1>9. Go(v) => Follows(x)
    <2>1. x \in Decoders => v.mode = "DISTEXT" /\ v.i = x.i
      BY <1>6, <1>7 DEF Drop, Decoders
    <2>2. QED BY <2>1, GoFollows
  <1>10. Fail(y) => Follows(x)
    BY FailFollows
  <1>11. QED BY <1>1, <1>2, <1>4, <1>5, <1>8, <1>9, <1>10, FieldFine

LEMMA DistExtFine ==
  ASSUME NEW g, Poised(g), DistExt
  PROVE  Fine(g)
  <1>1. z.mode = "DISTEXT"
    BY DEF DistExt, In
  <1>2. DueAt(z).what = "dist" /\ Ahead(z) = F /\ F.is = "dist"
    BY <1>1, PoisedIs DEF Place
  <1>3. F.extra \in Nat /\ F.extra <= LitBits
    BY <1>2, PoisedIs, Lookup DEF Bad
  <1>4. Looks(g, F.extra)
    BY <1>1, <1>3, PoisedIs DEF Looks, Fastest
  <1>5. PICK x : x = Load(z, F.extra)
    OBVIOUS
  <1>6. PICK y : y = Done([Drop(x, F.extra) EXCEPT !.dist = F.val], "COPY")
    OBVIOUS
  <1>7. \/ Astray
        \/ Want(z, F.extra) > z.n /\ Return(Fetch(z, z.n))
        \/ ~ (Want(z, F.extra) > z.n) /\ Go(y)
    BY <1>5, <1>6 DEF DistExt, Need
  <1>8. Go(y) => Follows(x)
    <2>1. x \in Decoders => y.mode = "COPY" /\ y.i = x.i + 1
      BY <1>6 DEF Done, Drop, Decoders
    <2>2. QED BY <2>1, GoFollows
  <1>9. QED BY <1>1, <1>2, <1>4, <1>5, <1>7, <1>8, FieldFine

LEMMA StartFine ==
  ASSUME NEW g, Poised(g), StartCodes
  PROVE  Fine(g)
  <1>1. z \in Decoders
    BY PoisedIs DEF Held
  <1>2. PICK y : /\ y \in {[z EXCEPT !.mode = "FAST", !.n0 = z.n], [z EXCEPT !.mode = "LEN"]}
                 /\ Go(y)
    BY DEF StartCodes
  <1>3. y.i = z.i /\ y.mode \in {"FAST", "LEN"}
    BY <1>1, <1>2 DEF Decoders
  <1>4. QED BY <1>2, <1>3, SameFieldFine

\* Where there is no room the output buffer is full.
LEMMA RoomFine ==
  ASSUME NEW g, Poised(g), NEW x, x = MakeRoom(z), Room(x) = 0, Return(x)
  PROVE  Fine(g)
  <1>1. Held(z) /\ Passed(z) /\ Live(z)
    BY PoisedIs
  <1>2. Held(x) /\ CoreOf(z, x) /\ Len(x.out) = BufSize
    BY <1>1, MakeRoomFacts, CoreIs
  <1>3. x.i = z.i /\ x.mode = z.mode
    BY <1>2 DEF CoreOf
  <1>4. Passed(x) /\ Live(x)
    BY <1>1, <1>3 DEF Passed, Live
  <1>5. QED BY <1>2, <1>4, FullFine

LEMMA CopyFine ==
  ASSUME NEW g, Poised(g), Copy
  PROVE  Fine(g)
  <1>1. Held(z) /\ z \in Decoders /\ z.mode = "COPY"
    BY PoisedIs DEF Held, Copy, In
  <1>2. PICK x : x = MakeRoom(z)
    OBVIOUS
  <1>3. Held(x) /\ CoreOf(z, x) /\ x \in Decoders
    BY <1>1, <1>2, MakeRoomFacts, CoreIs DEF Held
  <1>4. x.i = z.i /\ x.mode = z.mode
    BY <1>3 DEF CoreOf
  <1>5. PICK y, v : /\ y = [z EXCEPT !.mode = "START"]
                    /\ v = [Put(x, x.win[(x.write - x.dist + End) % End]) EXCEPT !.left = @ - 1]
    OBVIOUS
  <1>6. Go(y) \/ (Room(x) = 0 /\ Return(x)) \/ Go(v)
    BY <1>2, <1>5 DEF Copy
  <1>7. y.i = z.i /\ y.mode = "START"
    BY <1>1, <1>5 DEF Decoders
  <1>8. v.i = z.i /\ v.mode = "COPY"
    BY <1>1, <1>3, <1>4, <1>5 DEF Put, Decoders
  <1>9. QED BY <1>2, <1>6, <1>7, <1>8, SameFieldFine, RoomFine

LEMMA LitFine ==
  ASSUME NEW g, Poised(g), Lit
  PROVE  Fine(g)
  <1>1. Held(z) /\ z.mode = "LIT"
    BY PoisedIs DEF Lit, In
  <1>2. PICK x : x = MakeRoom(z)
    OBVIOUS
  <1>3. CoreOf(z, x) /\ x \in Decoders
    BY <1>1, <1>2, MakeRoomFacts, CoreIs DEF Held
  <1>4. x.i = z.i
    BY <1>3 DEF CoreOf
  <1>5. PICK v : v = [Put(x, s[z.i].val) EXCEPT !.r = "OK", !.mode = "START"]
    OBVIOUS
  <1>6. (Room(x) = 0 /\ Return(x)) \/ Go(v)
    BY <1>2, <1>5 DEF Lit
  <1>7. v.i = z.i /\ v.mode = "START"
    BY <1>3, <1>4, <1>5 DEF Put, Decoders
  <1>8. QED BY <1>2, <1>6, <1>7, SameFieldFine, RoomFine

LEMMA WashFine ==
  ASSUME NEW g, Poised(g), Wash
  PROVE  Fine(g)
  <1>1. Held(z) /\ z \in Decoders /\ Passed(z) /\ z.mode = "WASH"
    BY PoisedIs DEF Wash, In, Held
  <1>2. PICK x : x = IF z.k >= Byte
             THEN [z EXCEPT !.k = @ - Byte, !.n = @ + 1, !.idx = @ - 1]
             ELSE z
    OBVIOUS
  <1>3. Held(x) /\ x.i = z.i /\ x.mode = z.mode
    <2>1. CASE z.k >= Byte
      <3>1. z.n + 1 \in Int /\ z.idx - 1 \in Int /\ z.k - Byte \in Int
        BY <1>1, HeldFields, Sizes
      <3>2. PICK p \in Int, q \in Int, e \in Int :
              p = z.n + 1 /\ q = z.idx - 1 /\ e = z.k - Byte
        BY <3>1
      <3>3. x = [z EXCEPT !.k = e, !.n = p, !.idx = q]
        BY <1>2, <2>1, <3>2
      <3>4. x \in Decoders /\ x.mode = z.mode /\ x.i = z.i /\ x.out = z.out
        BY <1>1, <3>2, <3>3 DEF Decoders
      <3>5. QED BY <1>1, <3>4 DEF Held
    <2>2. CASE ~ (z.k >= Byte)
      BY <1>1, <1>2, <2>2
    <2>3. QED BY <2>1, <2>2
  <1>4. PICK y : y = Flush(x)
    OBVIOUS
  <1>5. Held(y) /\ y \in Decoders /\ CoreOf(x, y) /\ (y.read # y.write => Len(y.out) = BufSize)
    BY <1>3, <1>4, FlushFacts, CoreIs DEF Held
  <1>6. y.i = z.i /\ y.mode = z.mode
    BY <1>3, <1>5 DEF CoreOf
  <1>7. Passed(y) /\ Live(y)
    BY <1>1, <1>6 DEF Passed, Live
  <1>8. PICK mode : mode = NextBlock(y)
    OBVIOUS
  <1>9. PICK v : v = [y EXCEPT !.r = "OK", !.mode = mode]
    OBVIOUS
  <1>10. (y.read # y.write /\ Return(y)) \/ Go(v)
    BY <1>2, <1>4, <1>8, <1>9 DEF Wash
  <1>11. v.i = z.i /\ v.mode \in {"DRY", "TYPE"}
    BY <1>5, <1>6, <1>8, <1>9 DEF NextBlock, Decoders
  <1>12. QED BY <1>5, <1>7, <1>10, <1>11, FullFine, SameFieldFine

\* No field is left at the end.
LEMMA DryAtEnd ==
  ASSUME NEW g, Poised(g), z.mode = "DRY"
  PROVE  z.i = Len(s)
  <1>1. s \in Streams /\ Held(z) /\ z.i <= Len(s) /\ DueAt(z).what = "end"
    BY PoisedIs DEF Place
  <1>2. z.i + 1 \notin 1 .. Len(s)
    <2>1. ASSUME z.i + 1 \in 1 .. Len(s) PROVE FALSE
      <3>1. Fits(DueAt(z), s[z.i + 1], Out[s][z.i + 1])
        BY <1>1, <2>1, StreamAssumption DEF DueAt
      <3>2. QED BY <1>1, <3>1, NothingFits
    <2>2. QED BY <2>1
  <1>3. QED BY <1>1, <1>2, HeldFields, StreamTypes

LEMMA DryFine ==
  ASSUME NEW g, Poised(g), Dry
  PROVE  Fine(g)
  <1>1. Held(z) /\ Passed(z) /\ z.mode = "DRY" /\ z' \in Decoders
    BY PoisedIs DEF Dry, In
  <1>2. PICK y : y = Flush(z)
    OBVIOUS
  <1>3. Held(y) /\ y \in Decoders /\ CoreOf(z, y) /\ (y.read # y.write => Len(y.out) = BufSize)
    BY <1>1, <1>2, FlushFacts, CoreIs DEF Held
  <1>4. y.i = z.i /\ y.mode = z.mode
    BY <1>3 DEF CoreOf
  <1>5. Passed(y) /\ Live(y)
    BY <1>1, <1>4 DEF Passed, Live
  <1>6. PICK v : v = [y EXCEPT !.mode = "DONE", !.r = "END"]
    OBVIOUS
  <1>7. (y.read # y.write /\ Return(y)) \/ Return(v)
    BY <1>2, <1>6 DEF Dry
  <1>8. CASE Return(v)
    <2>1. v \in Decoders /\ v.i = z.i /\ v.mode = "DONE" /\ v.out = y.out
      BY <1>3, <1>4, <1>6 DEF Decoders, Modes
    <2>2. PICK w : w = Flush(v)
      OBVIOUS
    <2>3. Held(w) /\ w \in Decoders /\ CoreOf(v, w)
      <3>1. Held(v)
        BY <1>3, <2>1 DEF Held
      <3>2. QED BY <2>2, <3>1, FlushFacts, CoreIs DEF Held
    <2>4. w.i = z.i /\ w.mode = "DONE"
      BY <2>1, <2>3 DEF CoreOf
    <2>5. z' = [w EXCEPT !.read = 0, !.write = 0, !.k = 0]
      BY <1>8, <2>2, <2>4 DEF Return
    <2>6. z'.i = z.i /\ z'.mode = "DONE"
      BY <2>3, <2>4, <2>5 DEF Decoders
    <2>7. PICK u : u = z'
      OBVIOUS
    <2>8. u.i = z.i /\ u.mode = "DONE" /\ z.i = Len(s)
      BY <1>1, <2>6, <2>7, DryAtEnd
    <2>9. Passed(u) /\ Idle(u, g)
      BY <1>1, <2>8 DEF Passed, Idle, Live
    <2>10. pc' = "check"
      BY <1>8 DEF Return
    <2>11. QED BY <2>7, <2>9, <2>10 DEF Fine
  <1>9. QED BY <1>3, <1>5, <1>7, <1>8, FullFine

LEMMA AfterEndFine ==
  ASSUME NEW g, Held(z), Passed(z), AfterEnd
  PROVE  Fine(g)
  <1>1. z \in Decoders /\ z.mode = "DONE" /\ z' = [z EXCEPT !.r = "END"] /\ pc' = "check"
    BY DEF Held, AfterEnd, In
  <1>2. PICK u : u = z'
    OBVIOUS
  <1>3. u.i = z.i /\ u.mode = "DONE"
    BY <1>1, <1>2 DEF Decoders
  <1>4. Passed(u) /\ Idle(u, g)
    BY <1>1, <1>3 DEF Passed, Idle, Live
  <1>5. QED BY <1>1, <1>2, <1>4 DEF Fine

\* The bytes of a stored block are in the file.
LEMMA BytesSeen ==
  ASSUME s \in Streams, NEW j \in Nat, j >= 1, j <= Len(s) + 1,
         NEW left \in Nat, left # 0, NEW last, Dues[s][j] = Due("byte", left, last),
         NEW u \in Nat, u < left
  PROVE  /\ j + u \in 1 .. Len(s) /\ Seen(j + u)
         /\ s[j + u].look = Byte
  <1>1. PICK m \in Nat : m = Len(s)
    BY StreamTypes
  <1>2. u \in 0 .. left /\ u + 1 \in 0 .. left
    OBVIOUS
  <1>3. Run(j, left, last, u) /\ Run(j, left, last, u + 1)
    BY <1>2, ByteRun, Zenon
  <1>4. j + u \in 1 .. Len(s)
    <2>1. j + (u + 1) <= m + 1
      BY <1>1, <1>3 DEF Run
    <2>2. j + u \in 1 .. m
      BY <2>1
    <2>3. QED BY <1>1, <2>2
  <1>5. PICK i : i = j + u
    OBVIOUS
  <1>6. Dues[s][i].what = "byte"
    BY <1>3, <1>5, DueFields DEF Run
  <1>7. i \in 1 .. Len(s) /\ Fits(Dues[s][i], s[i], Out[s][i])
    BY <1>4, <1>5, StreamAssumption
  <1>8. s[i].bits = Byte /\ s[i].look = Byte
    BY <1>6, <1>7 DEF Fits, Bad
  <1>9. Seen(i)
    BY <1>7, <1>8, Whole
  <1>10. QED BY <1>5, <1>7, <1>8, <1>9

LEMMA StoredFine ==
  ASSUME NEW g, Poised(g), Stored
  PROVE  Fine(g)
  <1>1. /\ s \in Streams /\ Ready(z, g) /\ Held(z) /\ Passed(z) /\ z.mode = "STORED" /\ Live(z)
        /\ z.i <= Len(s) /\ z.n \in Nat /\ z.left \in Nat /\ z.i \in Nat /\ Amounts(z, g)
        /\ DueAt(z).what = "byte" /\ DueAt(z).left = z.left /\ g \in Nat /\ DueAt(z) \in States
    <2>1. z.mode = "STORED"
      BY DEF Stored, In
    <2>2. s \in Streams /\ Held(z) /\ z.i <= Len(s)
      BY PoisedIs
    <2>3. DueAt(z) \in States
      BY <2>2, Places
    <2>4. z.n \in Nat /\ z.left \in Nat /\ z.i \in Nat
      BY PoisedIs, HeldFields DEF Amounts
    <2>5. QED BY <2>1, <2>3, <2>4, PoisedIs DEF Place
  <1>2. PICK j, left, last : /\ j = z.i + 1 /\ left = z.left /\ last = DueAt(z).last
                             /\ j \in Nat /\ left \in Nat
    BY <1>1
  <1>3. j >= 1 /\ j <= Len(s) + 1 /\ Dues[s][j] = Due("byte", left, last) /\ left # 0
    <2>1. j >= 1 /\ j <= Len(s) + 1
      BY <1>1, <1>2, StreamTypes
    <2>2. DueAt(z) = Due("byte", left, last)
      BY <1>1, <1>2, DueIs
    <2>3. left # 0
      BY <1>1, <1>2, DueIs
    <2>4. QED BY <1>2, <2>1, <2>2, <2>3 DEF DueAt
  <1>4. \A u \in Nat : u < left => /\ j + u \in 1 .. Len(s) /\ Seen(j + u)
                                   /\ s[j + u].look = Byte
    BY <1>1, <1>2, <1>3, BytesSeen
  <1>5. PICK x : x = MakeRoom(z)
    OBVIOUS
  <1>6. CoreOf(z, x) /\ Held(x) /\ x \in Decoders /\ Room(x) \in Nat
    BY <1>1, <1>5, MakeRoomFacts, CoreIs DEF Held
  <1>7. x.i = z.i /\ x.mode = z.mode /\ x.left = z.left
    BY <1>6 DEF CoreOf
  <1>8. PICK t : t = Min({z.left, z.n, Room(x)})
    OBVIOUS
  <1>9. t \in Nat /\ t <= left
    BY <1>1, <1>2, <1>6, <1>8, MinThree
  <1>10. PICK mode : mode = IF x.left = t THEN NextBlock(x) ELSE x.mode
    OBVIOUS
  <1>11. PICK w : w = [c \in DOMAIN x.win |->
                       IF c \in x.write .. x.write + t - 1
                         THEN s[x.i + 1 + c - x.write].val ELSE x.win[c]]
    OBVIOUS
  <1>12. PICK y : y = Moved(x, w, x.write + t, x.idx + t, x.n - t, x.i + t, x.left - t, mode)
    OBVIOUS
  <1>13. \/ z.n = 0 /\ Return(z)
         \/ Room(x) = 0 /\ Return(x)
         \/ Astray
         \/ Go(y)
    <2>1. x.n = z.n /\ x.idx = z.idx
      BY <1>6 DEF CoreOf
    <2>2. [x EXCEPT
              !.win   = [c \in DOMAIN @ |->
                           IF c \in x.write .. x.write + t - 1
                             THEN s[z.i + 1 + c - x.write].val ELSE @[c]],
              !.write = @ + t, !.idx = @ + t, !.n = @ - t, !.i = @ + t,
              !.left  = @ - t, !.r = "OK",
              !.mode  = IF x.left = t THEN NextBlock(x) ELSE @] = y
      BY <1>6, <1>7, <1>10, <1>11, <1>12 DEF Moved, Decoders
    <2>3. QED BY <1>5, <1>8, <2>2 DEF Stored
  <1>14. CASE z.n = 0 /\ Return(z)
    <2>1. j \in 1 .. Len(s) /\ s[j].look = Byte
      <3>1. 0 < left /\ 0 \in Nat /\ j + 0 = j
        BY <1>2, <1>3
      <3>2. QED BY <1>4, <3>1
    <2>2. Owing(z) = 0 /\ Needed(z) = Byte
      BY <1>1, <1>2, <2>1 DEF Owing, Needed, Ahead
    <2>3. At[s][z.i + 1] + Needed(z) > g * Byte
      <3>1. /\ z.base + z.idx + z.n = g /\ z.k = 0 /\ Pos(z) = At[s][j] + 0
            /\ z.base \in Int /\ z.idx \in Int
        BY <1>1, <1>2, HeldFields DEF Amounts, Begun
      <3>2. z.base + z.idx = g
        BY <1>14, <3>1
      <3>3. PICK a \in Nat : a = g * Byte
        BY <1>1, Times, Sizes
      <3>4. Pos(z) = a - 0
        BY <3>1, <3>2, <3>3 DEF Pos
      <3>5. PICK b \in Nat : b = At[s][j]
        <4>1. j \in 1 .. Len(s) + 1
          BY <1>1, <1>2, <1>3, StreamTypes
        <4>2. QED BY <1>1, <4>1, AtFacts
      <3>6. b + Byte > a
        BY <3>1, <3>4, <3>5, Sizes
      <3>7. QED BY <1>2, <2>2, <3>3, <3>5, <3>6
    <2>4. QED BY <1>1, <1>2, <1>14, <2>1, <2>2, <2>3, ReturnFine
  <1>15. CASE Room(x) = 0 /\ Return(x)
    BY <1>5, <1>15, RoomFine
  <1>16. CASE Astray
    BY <1>1, <1>16 DEF Astray, Fine
  <1>17. CASE Go(y)
    <2>1. y.i = z.i + t /\ y.mode = mode
      BY <1>6, <1>7, <1>12 DEF Moved, Decoders
    <2>2. mode \in {"STORED", "DRY", "TYPE"}
      BY <1>1, <1>7, <1>10 DEF NextBlock
    <2>3. ASSUME NEW e \in 1 .. y.i PROVE Seen(e)
      <3>1. PICK i \in Nat : i = z.i
        BY <1>1
      <3>2. CASE e \in 1 .. i
        BY <1>1, <3>1, <3>2 DEF Passed, Live
      <3>3. CASE e \notin 1 .. i
        <4>1. PICK u : u = e - j
          OBVIOUS
        <4>2. u \in Nat /\ u < left /\ j + u = e
          BY <1>2, <1>9, <2>1, <3>1, <3>3, <4>1
        <4>3. QED BY <1>4, <4>2
      <3>4. QED BY <3>2, <3>3
    <2>4. Passed(y) /\ y.mode # "DONE"
      BY <2>1, <2>2, <2>3 DEF Passed
    <2>5. QED BY <1>17, <2>4, PoisedIs, GoFine
  <1>18. QED BY <1>13, <1>14, <1>15, <1>16, <1>17

\* The fast path has more bytes in the chunk than a field can take.
LEMMA FastSees ==
  ASSUME NEW g, Poised(g), z.mode \in Fastest, NEW bits, bits \in Nat, InBytes(bits) <= z.n,
         F.look \in Nat, F.look <= bits
  PROVE  Seen(z.i + 1)
  <1>1. /\ s \in Streams /\ Ready(z, g) /\ Live(z) /\ g \in Nat /\ g <= Bytes(s) /\ Held(z)
        /\ z.i <= Len(s) /\ Amounts(z, g)
    BY PoisedIs
  <1>2. z.k \in Nat /\ z.n \in Nat
    BY <1>1, HeldFields DEF Amounts
  <1>3. Want(z, bits) <= z.n
    <2>1. Want(z, bits) \in Nat /\ Want(z, bits) <= InBytes(bits) /\ InBytes(bits) \in Nat
      BY <1>2, WantFacts, InBytesFacts
    <2>2. QED BY <1>2, <2>1
  <1>4. Pos(z) + bits <= Bytes(s) * Byte
    BY <1>1, <1>3, Reached
  <1>5. PICK a \in Nat : a = At[s][z.i + 1]
    BY <1>1, Places
  <1>6. Pos(z) = a + 0
    BY <1>1, <1>5 DEF Amounts, Begun, Fastest
  <1>7. PICK b \in Int : b = Bytes(s) * Byte
    BY <1>1, AtMost
  <1>8. a + F.look <= b
    BY <1>4, <1>6, <1>7
  <1>9. QED BY <1>5, <1>7, <1>8 DEF Seen, F

LEMMA FastOnFine ==
  ASSUME NEW g, Poised(g), NEW x, {"i", "mode"} \subseteq DOMAIN x, x.i = z.i + 1,
         Seen(z.i + 1), On(x)
  PROVE  Fine(g)
  <1>1. PICK c : c = Min({x.k \div Byte, x.n0 - x.n})
    OBVIOUS
  <1>2. PICK u : u = [x EXCEPT !.n = @ + c, !.idx = @ - c, !.k = @ - c * Byte]
    OBVIOUS
  <1>3. u = GiveBack(x)
    BY <1>1, <1>2 DEF GiveBack
  <1>4. DOMAIN u = DOMAIN x
    BY <1>2
  <1>5. u.i = x.i
    BY <1>2
  <1>6. PICK v : v = [x EXCEPT !.mode = "FAST"]
    OBVIOUS
  <1>7. PICK w : w = [u EXCEPT !.mode = "LEN", !.r = "OK"]
    OBVIOUS
  <1>8. v.i = x.i /\ v.mode = "FAST"
    BY <1>6
  <1>9. w.i = x.i /\ w.mode = "LEN"
    BY <1>4, <1>5, <1>7
  <1>10. Go(v) \/ Go(w)
    BY <1>3, <1>6, <1>7 DEF On
  <1>11. Moves(v) /\ Moves(w)
    BY <1>8, <1>9 DEF Moves
  <1>12. QED BY <1>10, <1>11, OnFine

LEMMA FastFine ==
  ASSUME NEW g, Poised(g), Fast
  PROVE  Fine(g)
  <1>1. /\ s \in Streams /\ Ready(z, g) /\ z.mode = "FAST" /\ Live(z) /\ Kept(z, g) /\ Held(z)
        /\ z.n >= FastIn /\ DueAt(z).what = "code" /\ Ahead(z) = F /\ z' \in Decoders
        /\ z.n \in Int
    <2>1. z.mode = "FAST"
      BY DEF Fast, In
    <2>2. QED BY <2>1, PoisedIs, HeldFields DEF Ready, Quick, Place
  <1>2. PICK l : l = Load(z, LitBits)
    OBVIOUS
  <1>3. Kept(l, g) /\ Held(l) /\ l.k >= LitBits /\ l.i = z.i /\ l.mode = z.mode
    BY <1>1, <1>2, FastLoads
  <1>4. Ahead(l) = F
    BY <1>3 DEF Ahead, F
  <1>5. PICK b : b = F.bits + F.extra
    OBVIOUS
  <1>6. b \in Nat
    BY <1>1, <1>3, <1>4, <1>5, FastTakes
  <1>7. PICK x : x = Drop(l, b)
    OBVIOUS
  <1>8. Held(x) /\ x.i = z.i /\ x \in Decoders
    BY <1>3, <1>6, <1>7, DropFacts DEF Became, Held
  <1>9. Seen(z.i + 1)
    <2>1. F.look \in Nat /\ F.look <= LitBits
      BY <1>1, Lookup
    <2>2. /\ LitBits \in Nat /\ InBytes(LitBits) \in Nat /\ InBytes(DistBits) \in Nat
          /\ InBytes(LitBits) + InBytes(DistBits) <= FastIn /\ FastIn \in Nat
      <3>1. LitBits \in Nat /\ DistBits \in Nat /\ FastIn \in Nat
        BY SizeAssumption
      <3>2. QED BY <3>1, SizeAssumption, InBytesFacts
    <2>3. InBytes(LitBits) <= z.n
      BY <1>1, <2>2
    <2>4. QED BY <1>1, <2>1, <2>2, <2>3, FastSees DEF Fastest
  <1>10. PICK u, v, w : /\ u = Done(Put(x, F.val), "FAST")
                        /\ v = Done([x EXCEPT !.left = F.val], "FASTDIST")
                        /\ w = [Done(GiveBack(x), "WASH") EXCEPT !.r = "END"]
    OBVIOUS
  <1>11. On(u) \/ Go(v) \/ Go(w) \/ Fail(GiveBack(x))
    BY <1>2, <1>5, <1>7, <1>10 DEF Fast
  <1>12. CASE On(u)
    <2>1. {"i", "mode"} \subseteq DOMAIN u /\ u.i = z.i + 1
      BY <1>8, <1>10 DEF Done, Put, Decoders
    <2>2. QED BY <1>9, <1>12, <2>1, FastOnFine
  <1>13. CASE Go(v)
    <2>1. v.i = z.i + 1 /\ v.mode = "FASTDIST"
      BY <1>8, <1>10 DEF Done, Decoders
    <2>2. Moves(v)
      BY <1>9, <2>1 DEF Moves
    <2>3. QED BY <1>13, <2>2, OnFine
  <1>14. CASE Go(w)
    <2>1. PICK e : e = GiveBack(x)
      OBVIOUS
    <2>2. e.i = z.i /\ e \in Decoders
      BY <1>8, <2>1, GiveBackFacts DEF Held
    <2>3. w.i = z.i + 1 /\ w.mode = "WASH"
      BY <1>10, <2>1, <2>2 DEF Done, Decoders
    <2>4. Moves(w)
      BY <1>9, <2>3 DEF Moves
    <2>5. QED BY <1>14, <2>4, OnFine
  <1>15. CASE Fail(GiveBack(x))
    BY <1>1, <1>15, FailFine
  <1>16. QED BY <1>11, <1>12, <1>13, <1>14, <1>15

LEMMA FastDistFine ==
  ASSUME NEW g, Poised(g), FastDist
  PROVE  Fine(g)
  <1>1. /\ s \in Streams /\ Ready(z, g) /\ z.mode = "FASTDIST" /\ Live(z) /\ Kept(z, g) /\ Held(z)
        /\ z.n >= FastIn - InBytes(LitBits) /\ DueAt(z).what = "dist" /\ Ahead(z) = F
        /\ z' \in Decoders /\ z.n \in Int /\ z.k \in Nat
    <2>1. z.mode = "FASTDIST"
      BY DEF FastDist, In
    <2>2. QED BY <2>1, PoisedIs, HeldFields DEF Ready, Quick, Place, Amounts
  <1>2. F \in Fields /\ F.bits \in Nat /\ F.look \in Nat /\ F.extra \in Nat
        /\ Fits(DueAt(z), F, Out[s][z.i + 1])
    BY <1>1, Facing
  <1>3. DistBits \in Nat /\ LitBits \in Nat /\ FastIn \in Nat
        /\ InBytes(LitBits) + InBytes(DistBits) <= FastIn
    BY SizeAssumption
  <1>4. ASSUME ~ Bad(F) PROVE Seen(z.i + 1)
    <2>1. F.look <= DistBits
      BY <1>1, <1>2, <1>4 DEF Fits
    <2>2. InBytes(DistBits) \in Nat /\ InBytes(LitBits) \in Nat
      BY <1>3, InBytesFacts
    <2>3. InBytes(DistBits) <= z.n
      BY <1>1, <1>3, <2>2
    <2>4. QED BY <1>1, <1>2, <1>3, <2>1, <2>3, FastSees DEF Fastest
  <1>5. PICK l : l = Load(z, DistBits)
    OBVIOUS
  <1>6. Held(l) /\ l.i = z.i /\ l.k \in Int /\ l.k >= DistBits
    <2>1. Held(l) /\ l.i = z.i
      BY <1>1, <1>3, <1>5, LoadSame
    <2>2. QED BY <1>1, <1>5, <2>1, DistLoads, HeldFields
  <1>7. PICK x : x = Drop(l, F.bits)
    OBVIOUS
  <1>8. Held(x) /\ x.i = z.i /\ x.k = l.k - F.bits
    BY <1>2, <1>6, <1>7, DropSame
  <1>9. PICK y : y = Drop(Load(x, F.extra), F.extra)
    OBVIOUS
  <1>10. PICK u : u = Done(FastCopy(y, F.val, z.left), "FAST")
    OBVIOUS
  <1>11. Fail(GiveBack(x)) \/ (~ Bad(F) /\ On(u))
    BY <1>5, <1>7, <1>9, <1>10 DEF FastDist
  <1>12. CASE Fail(GiveBack(x))
    BY <1>1, <1>12, FailFine
  <1>13. CASE ~ Bad(F) /\ On(u)
    <2>1. F.bits <= DistBits
      <3>1. F.bits <= F.look /\ F.look <= DistBits
        BY <1>1, <1>2, <1>13 DEF Fits
      <3>2. QED BY <1>2, <1>3, <3>1
    <2>2. x.k \in Nat
      BY <1>2, <1>3, <1>6, <1>8, <2>1
    <2>3. PICK e : e = Load(x, F.extra)
      OBVIOUS
    <2>4. Held(e) /\ e.i = z.i
      BY <1>2, <1>8, <2>2, <2>3, LoadSame
    <2>5. y.i = z.i /\ y \in Decoders
      BY <1>2, <1>9, <2>3, <2>4, DropSame DEF Held
    <2>6. {"i", "mode"} \subseteq DOMAIN u /\ u.i = z.i + 1
      BY <1>10, <2>5 DEF Done, FastCopy, Decoders
    <2>7. Seen(z.i + 1)
      BY <1>4, <1>13
    <2>8. QED BY <1>13, <2>6, <2>7, FastOnFine
  <1>14. QED BY <1>11, <1>12, <1>13

LEMMA DecodeFine ==
  ASSUME s \in Streams, NEW g, Ready(z, g), Told(z, pc, handed), g \in Nat, g <= Bytes(s),
         Passed(z), z' \in Decoders, Decode
  PROVE  Fine(g)
  <1>1. CASE AfterEnd
    BY <1>1, AfterEndFine DEF Ready, Kept
  <1>2. CASE \/ Type \/ Lens \/ Stored \/ Table \/ Trees \/ Dry
             \/ StartCodes \/ LenCode \/ LenExt \/ Dist \/ DistExt \/ Copy \/ Lit \/ Wash
             \/ Fast \/ FastDist
    <2>1. pc = "inflate" /\ Live(z)
      BY <1>2 DEF Type, Lens, Stored, Table, Trees, Dry, StartCodes, LenCode,
           LenExt, Dist, DistExt, Copy, Lit, Wash, Fast, FastDist, In, Live
    <2>2. Poised(g)
      BY <2>1, BeforeIs DEF Poised, Ready, Kept
    <2>3. QED BY <1>2, <2>2, TypeFine, LensFine, StoredFine, TableFine, TreesFine,
                 DryFine, StartFine, LenCodeFine, LenExtFine, DistFine, DistExtFine,
                 CopyFine, LitFine, WashFine, FastFine, FastDistFine
  <1>3. QED BY <1>1, <1>2 DEF Decode

\* What the text is made of.
Pieces == Nat \union {Garbage}

\* The text shows that a chunk was lost.
Marked(t) == \E j \in DOMAIN t : t[j] = Garbage

\* In the place pc, with h copied out, t given to the writer and b pushed on
\* buffers by the present append(): where each byte is, and that between two
\* chunks of the g bytes so far no more can be done.
Sated(place, x, g, h, t, b) ==
  /\ place \in {"step", "reading", "flushing", "ended"} => h = t /\ Idle(x, g)
  /\ place = "answered" => Marked(b) \/ (h = t \o b /\ Idle(x, g))
  /\ place \in {"loop", "inflate"} => h = t \o b
  /\ place = "check" => h = t \o (b \o x.out) /\ (Len(x.out) # BufSize => Idle(x, g))

\* Nothing is lost unmarked so far, and what is known of the rest: that the end
\* of the file is seen with all of it given, that a stream is not at its end
\* while inflate() runs with bytes to hand out, and Passed.
Balance(place, x, g, h, t, b) ==
  /\ t \in Seq(Pieces) /\ b \in Seq(Pieces)
  /\ Marked(t) \/ Sated(place, x, g, h, t, b)
  /\ g <= Bytes(s) /\ (place \in {"flushing", "ended"} => g = Bytes(s))
  /\ place = "inflate" /\ x.mode = "DONE" => x.out = <<>>
  /\ Passed(x)

\* The invariant behind NoSilentLoss.
Accounted == Balance(pc, z, given, handed, text, buffers)

LEMMA SameAccounted ==
  ASSUME s' = s, Balance(pc', z', given', handed', text', buffers')
  PROVE  Accounted'
  BY DEF Accounted, Balance, Sated, Marked, Idle, Live, Pending, Owing, Needed, Ahead, Passed,
         Seen, Bytes, Pieces

\* Sequences of bytes one after another, with or without Garbage.
LEMMA Strung ==
  ASSUME NEW t \in Seq(Pieces), NEW b \in Seq(Pieces)
  PROVE  /\ t \o b \in Seq(Pieces)
         /\ Marked(t) \/ Marked(b) => Marked(t \o b)
  <1>1. PICK c, m, n : c = t \o b /\ m = Len(t) /\ n = Len(b)
    OBVIOUS
  <1>2. /\ c \in Seq(Pieces) /\ Len(c) = m + n /\ m \in Nat /\ n \in Nat
        /\ \A i \in 1 .. m : c[i] = t[i]
        /\ \A i \in 1 .. n : c[m + i] = b[i]
    BY <1>1
  <1>3. DOMAIN t = 1 .. m /\ DOMAIN b = 1 .. n /\ DOMAIN c = 1 .. m + n
    BY <1>1, <1>2
  <1>4. ASSUME Marked(t) PROVE Marked(c)
    <2>1. PICK j \in 1 .. m : t[j] = Garbage
      BY <1>3, <1>4 DEF Marked
    <2>2. j \in 1 .. m + n /\ c[j] = Garbage
      BY <1>2, <2>1
    <2>3. QED BY <1>3, <2>2 DEF Marked
  <1>5. ASSUME Marked(b) PROVE Marked(c)
    <2>1. PICK j \in 1 .. n : b[j] = Garbage
      BY <1>3, <1>5 DEF Marked
    <2>2. m + j \in 1 .. m + n /\ c[m + j] = Garbage
      BY <1>2, <2>1
    <2>3. QED BY <1>3, <2>2 DEF Marked
  <1>6. QED BY <1>1, <1>2, <1>4, <1>5

LEMMA BytesArePieces ==
  ASSUME NEW o \in Seq(Nat)
  PROVE  o \in Seq(Pieces)
  <1>1. PICK m \in Nat : m = Len(o)
    OBVIOUS
  <1>2. o \in [1 .. m -> Nat]
    BY <1>1
  <1>3. o \in [1 .. m -> Pieces]
    BY <1>2 DEF Pieces
  <1>4. QED BY <1>3, AsTuple

LEMMA StringThree ==
  ASSUME NEW a \in Seq(Pieces), NEW b \in Seq(Pieces), NEW c \in Seq(Pieces)
  PROVE  (a \o b) \o c = a \o (b \o c)
  BY ConcatAssociative

\* Idle and Passed depend on no more of the decoder than this.
LEMMA StillIdle ==
  ASSUME NEW x, NEW y, y.read = x.read, y.write = x.write, y.i = x.i, y.mode = x.mode,
         y.left = x.left
  PROVE  (Passed(x) => Passed(y)) /\ \A g : Idle(x, g) => Idle(y, g)
  BY DEF Passed, Idle, Live, Pending, Owing, Needed, Ahead

LEMMA DecodeAccounts ==
  ASSUME IInv, Delivered, Accounted, z' \in Decoders, Decode
  PROVE  Accounted'
  <1>1. /\ s \in Streams /\ Ready(z, given) /\ given \in Nat /\ Told(z, pc, handed)
        /\ Balance(pc, z, given, handed, text, buffers) /\ z \in Decoders
    BY DEF IInv, Typed, Delivered, Accounted, Ready, Kept, Held
  <1>2. pc = "inflate" /\ UNCHANGED Fed
    BY DEF Decode, Type, Lens, Stored, Table, Trees, Dry, AfterEnd, StartCodes, LenCode,
           LenExt, Dist, DistExt, Copy, Lit, Wash, Fast, FastDist, In
  <1>3. s' = s /\ given' = given /\ text' = text /\ buffers' = buffers
    BY <1>2 DEF Fed
  <1>4. /\ text \in Seq(Pieces) /\ buffers \in Seq(Pieces) /\ given <= Bytes(s) /\ Passed(z)
        /\ Marked(text) \/ handed = text \o buffers
        /\ z.mode = "DONE" => z.out = <<>>
    BY <1>1, <1>2 DEF Balance, Sated
  <1>5. Fine(given)
    BY <1>1, <1>4, DecodeFine
  <1>6. PICK x, h, place, o : x = z' /\ h = handed' /\ place = pc' /\ o = x.out
    OBVIOUS
  <1>7. /\ Passed(x) /\ (place = "check" /\ Len(o) # BufSize => Idle(x, given))
        /\ place = "inflate" => x.mode # "DONE"
    BY <1>5, <1>6 DEF Fine
  <1>8. o \in Seq(Nat) /\ o \in Seq(Pieces)
    BY <1>6, BytesArePieces DEF Decoders
  <1>9. \/ place \in {"inflate", "astray"} /\ h = handed
        \/ place = "check" /\ h = handed \o o
    <2>1. CASE AfterEnd
      <3>1. place = "check" /\ h = handed /\ z.mode = "DONE" /\ x = [z EXCEPT !.r = "END"]
        BY <1>6, <2>1 DEF AfterEnd, In
      <3>2. o = <<>>
        BY <1>1, <1>4, <1>6, <3>1 DEF Decoders
      <3>3. handed \in Seq(Nat)
        BY <1>1 DEF Told
      <3>4. QED BY <3>1, <3>2, <3>3
    <2>2. CASE ~ AfterEnd
      BY <1>6, <2>2, DecodeHands
    <2>3. QED BY <2>1, <2>2
  <1>10. Marked(text) \/ Sated(place, x, given, h, text, buffers)
    <2>1. CASE place \in {"inflate", "astray"} /\ h = handed
      BY <1>4, <2>1 DEF Sated
    <2>2. CASE place = "check" /\ h = handed \o o
      <3>1. (text \o buffers) \o o = text \o (buffers \o o)
        BY <1>4, <1>8, StringThree
      <3>2. Marked(text) \/ h = text \o (buffers \o o)
        BY <1>4, <2>2, <3>1
      <3>3. QED BY <1>6, <1>7, <2>2, <3>2 DEF Sated
    <2>3. QED BY <1>9, <2>1, <2>2
  <1>11. place \notin {"flushing", "ended"}
    BY <1>9
  <1>12. Balance(place, x, given, h, text, buffers)
    BY <1>4, <1>7, <1>10, <1>11 DEF Balance
  <1>13. QED BY <1>3, <1>6, <1>12, SameAccounted

LEMMA TurnAccounts ==
  ASSUME IInv, Accounted, Turn
  PROVE  Accounted'
  <1>1. /\ s' = s /\ given' = given /\ text' = text /\ buffers' = buffers /\ handed' = handed
        /\ pc = "loop" /\ pc' = "inflate"
    BY DEF Turn
  <1>2. z \in Decoders
    BY DEF IInv, Ready, Kept, Held
  <1>3. PICK x : x = z'
    OBVIOUS
  <1>4. /\ x.read = z.read /\ x.write = z.write /\ x.i = z.i /\ x.mode = z.mode
        /\ x.left = z.left /\ x.out = <<>>
    BY <1>2, <1>3 DEF Turn, Decoders
  <1>5. Passed(z) => Passed(x)
    BY <1>4, StillIdle
  <1>6. Balance("inflate", x, given, handed, text, buffers)
    BY <1>1, <1>4, <1>5 DEF Accounted, Balance, Sated
  <1>7. QED BY <1>1, <1>3, <1>6, SameAccounted

LEMMA CheckAccounts ==
  ASSUME IInv, Accounted, Check
  PROVE  Accounted'
  <1>1. /\ s' = s /\ given' = given /\ text' = text /\ handed' = handed /\ z' = z
        /\ pc = "check"
    BY DEF Check, Settle
  <1>2. /\ text \in Seq(Pieces) /\ buffers \in Seq(Pieces) /\ given <= Bytes(s) /\ Passed(z)
        /\ \/ Marked(text)
           \/ /\ handed = text \o (buffers \o z.out)
              /\ Len(z.out) # BufSize => Idle(z, given)
    BY <1>1 DEF Accounted, Balance, Sated
  <1>3. z.out \in Seq(Pieces)
    BY BytesArePieces DEF IInv, Ready, Kept, Held, Decoders
  <1>4. PICK b, place : b = buffers' /\ place = pc'
    OBVIOUS
  <1>5. \/ place = "answered" /\ b = Minus1
        \/ place = "thrown" /\ b = buffers
        \/ place = "loop" /\ b = buffers \o z.out
        \/ place = "answered" /\ b = buffers \o z.out /\ Len(z.out) # BufSize
    BY <1>4 DEF Check, Settle, Answer
  <1>6. Minus1 \in Seq(Pieces) /\ Marked(Minus1)
    <2>1. Garbage \in Pieces
      BY DEF Pieces
    <2>2. Minus1 \in Seq(Pieces) /\ 1 \in DOMAIN Minus1 /\ Minus1[1] = Garbage
      BY <2>1 DEF Minus1
    <2>3. QED BY <2>2 DEF Marked
  <1>7. buffers \o z.out \in Seq(Pieces)
    BY <1>2, <1>3, Strung
  <1>8. b \in Seq(Pieces)
    BY <1>2, <1>5, <1>6, <1>7
  <1>9. Marked(text) \/ Sated(place, z, given, handed, text, b)
    BY <1>2, <1>5, <1>6 DEF Sated
  <1>10. Balance(place, z, given, handed, text, b)
    BY <1>2, <1>5, <1>8, <1>9 DEF Balance
  <1>11. QED BY <1>1, <1>4, <1>10, SameAccounted

LEMMA FeedAccounts ==
  ASSUME IInv, Accounted, Feed
  PROVE  Accounted'
  <1>1. /\ s \in Streams /\ z \in Decoders /\ given \in Nat /\ chunk \in Nat
        /\ pc = "reading" => given < Bytes(s)
    BY SizeAssumption DEF IInv, Typed, Ready, Kept, Held, Feeding
  <1>2. Bytes(s) \in Nat
    BY <1>1, AtMost
  <1>3. /\ text \in Seq(Pieces) /\ buffers \in Seq(Pieces) /\ given <= Bytes(s) /\ Passed(z)
        /\ Marked(text) \/ Sated(pc, z, given, handed, text, buffers)
        /\ pc \in {"flushing", "ended"} => given = Bytes(s)
    BY DEF Accounted, Balance
  <1>4. CASE Step \/ IoFails \/ Flushed
    <2>1. /\ s' = s /\ given' = given /\ text' = text /\ buffers' = buffers
          /\ handed' = handed /\ z' = z
      BY <1>4 DEF Step, IoFails, Flushed, Fed
    <2>2. /\ \/ pc = "step" /\ pc' = "reading"
             \/ pc = "step" /\ pc' = "flushing" /\ ~ (given < Bytes(s))
             \/ pc' = "failed"
             \/ pc = "flushing" /\ pc' = "ended"
      BY <1>4 DEF Step, IoFails, Flushed
    <2>3. PICK place : place = pc'
      OBVIOUS
    <2>4. place \in {"flushing", "ended"} => given = Bytes(s)
      BY <1>1, <1>2, <1>3, <2>2, <2>3
    <2>5. Marked(text) \/ Sated(place, z, given, handed, text, buffers)
      BY <1>3, <2>2, <2>3 DEF Sated
    <2>6. Balance(place, z, given, handed, text, buffers)
      BY <1>3, <2>2, <2>3, <2>4, <2>5 DEF Balance
    <2>7. QED BY <2>1, <2>3, <2>6, SameAccounted
  <1>5. CASE Written
    <2>1. /\ s' = s /\ given' = given /\ text' = text \o buffers /\ buffers' = buffers
          /\ handed' = handed /\ z' = z /\ pc = "answered" /\ pc' = "step"
      BY <1>5 DEF Written
    <2>2. PICK t : t = text \o buffers
      OBVIOUS
    <2>3. t \in Seq(Pieces) /\ (Marked(text) \/ Marked(buffers) => Marked(t))
      BY <1>3, <2>2, Strung
    <2>4. Marked(t) \/ Sated("step", z, given, handed, t, buffers)
      BY <1>3, <2>1, <2>2, <2>3 DEF Sated
    <2>5. Balance("step", z, given, handed, t, buffers)
      BY <1>3, <2>3, <2>4 DEF Balance
    <2>6. QED BY <2>1, <2>2, <2>5, SameAccounted
  <1>6. CASE ChunkRead
    <2>1. PICK c : c = Min({chunk, Bytes(s) - given})
      OBVIOUS
    <2>2. /\ s' = s /\ given' = given + c /\ text' = text /\ buffers' = <<>>
          /\ handed' = handed /\ z' = [z EXCEPT !.base = given, !.idx = 0, !.n = c]
          /\ pc = "reading" /\ pc' = "loop"
      BY <1>6, <2>1 DEF ChunkRead
    <2>3. PICK x, g, b : x = z' /\ g = given + c /\ b = <<>>
      OBVIOUS
    <2>4. /\ x.read = z.read /\ x.write = z.write /\ x.i = z.i /\ x.mode = z.mode
          /\ x.left = z.left
      BY <1>1, <2>2, <2>3 DEF Decoders
    <2>5. Passed(x)
      BY <1>3, <2>4, StillIdle
    <2>6. g <= Bytes(s)
      <3>1. PICK a \in Int, e \in Int : a = chunk /\ e = Bytes(s) - given
        BY <1>1, <1>2
      <3>2. c = IF a <= e THEN a ELSE e
        BY <2>1, <3>1, MinFacts
      <3>3. QED BY <1>1, <1>2, <2>3, <3>1, <3>2
    <2>7. b \in Seq(Pieces) /\ text \o b = text
      BY <1>3, <2>3
    <2>8. Marked(text) \/ Sated("loop", x, g, handed, text, b)
      BY <1>3, <2>2, <2>7 DEF Sated
    <2>9. Balance("loop", x, g, handed, text, b)
      BY <1>3, <2>5, <2>6, <2>7, <2>8 DEF Balance
    <2>10. QED BY <2>2, <2>3, <2>9, SameAccounted
  <1>7. QED BY <1>4, <1>5, <1>6 DEF Feed

LEMMA InitAccounts ==
  ASSUME Init
  PROVE  Accounted
  <1>1. /\ s \in Streams /\ z = Start /\ pc = "step" /\ given = 0 /\ buffers = <<>> /\ text = <<>>
        /\ handed = <<>>
    BY DEF Init
  <1>2. PICK x : x = z
    OBVIOUS
  <1>3. x.mode = "TYPE" /\ x.i = 0 /\ x.read = 0 /\ x.write = 0 /\ x.left = 0
    BY <1>1, <1>2 DEF Start
  <1>4. Passed(x)
    BY <1>3 DEF Passed
  <1>5. PICK m \in Nat : m = Len(s)
    BY <1>1, StreamTypes
  <1>6. Dues[s][1] = Due("block", 0, FALSE)
    BY <1>1, DuesFacts
  <1>7. m # 0
    <2>1. Dues[s][m + 1].what \in {"end", "nothing"}
      BY <1>1, <1>5, StreamAssumption
    <2>2. Dues[s][1].what = "block"
      BY <1>6 DEF Due
    <2>3. m = 0 => m + 1 = 1
      OBVIOUS
    <2>4. QED BY <2>1, <2>2, <2>3
  <1>8. 1 \in 1 .. Len(s) /\ 1 \in 1 .. Len(s) + 1
    BY <1>5, <1>7
  <1>9. s[1].look > 0 /\ s[1].look \in Nat
    <2>1. Fits(Dues[s][1], s[1], Out[s][1])
      BY <1>1, <1>8, StreamAssumption
    <2>2. Dues[s][1].what = "block"
      BY <1>6 DEF Due
    <2>3. s[1].look > 0
      BY <2>1, <2>2 DEF Fits
    <2>4. QED BY <1>1, <1>8, <2>3, StreamTypes, FieldFacts
  <1>10. At[s][1] = 0
    BY <1>1, AtFacts
  <1>11. Idle(x, 0)
    <2>1. Pending(x) = 0 /\ Owing(x) = 0 /\ Needed(x) = s[1].look /\ x.i + 1 = 1
      BY <1>3 DEF Pending, Owing, Needed, Ahead
    <2>2. 0 * Byte = 0
      BY Sizes
    <2>3. At[s][x.i + 1] + Needed(x) > 0 * Byte
      BY <1>9, <1>10, <2>1, <2>2
    <2>4. QED BY <1>8, <2>1, <2>3 DEF Idle
  <1>12. Bytes(s) \in Nat
    BY <1>1, AtMost
  <1>13. PICK e : e = <<>> /\ e \in Seq(Pieces)
    <2>1. <<>> \in Seq(Pieces)
      OBVIOUS
    <2>2. QED BY <2>1
  <1>14. Sated("step", x, 0, e, e, e)
    BY <1>11 DEF Sated
  <1>15. Balance("step", x, 0, e, e, e)
    BY <1>4, <1>12, <1>13, <1>14 DEF Balance
  <1>16. QED BY <1>1, <1>2, <1>13, <1>15 DEF Accounted

LEMMA NextAccounts ==
  ASSUME IInv, IInv', Delivered, Accounted, [Next]_vars
  PROVE  Accounted'
  <1>1. CASE Decode
    <2>1. z' \in Decoders
      BY DEF IInv, Ready, Kept, Held
    <2>2. QED BY <1>1, <2>1, DecodeAccounts
  <1>2. CASE Turn
    BY <1>2, TurnAccounts
  <1>3. CASE Check
    BY <1>3, CheckAccounts
  <1>4. CASE Feed
    BY <1>4, FeedAccounts
  <1>5. CASE UNCHANGED vars
    <2>1. /\ s' = s /\ given' = given /\ text' = text /\ buffers' = buffers
          /\ handed' = handed /\ z' = z /\ pc' = pc
      BY <1>5 DEF vars
    <2>2. QED BY <2>1, SameAccounted DEF Accounted
  <1>6. QED BY <1>1, <1>2, <1>3, <1>4, <1>5 DEF Next

\* Two beginnings of the same length.
LEMMA LeadsAll ==
  ASSUME NEW a \in Seq(Nat), NEW b \in Seq(Nat), Leads(a, b), Len(a) = Len(b)
  PROVE  a = b
  <1>1. Leads(b, b) /\ Len(a) <= Len(b)
    BY LeadsSelf
  <1>2. QED BY <1>1, LeadsEither

\* All that can be decoded, when the next field cannot be looked up.
LEMMA ReachableAt ==
  ASSUME s \in Streams, NEW i \in Nat, i <= Len(s), \A j \in 1 .. i : Seen(j),
         i # Len(s) => ~ Seen(i + 1)
  PROVE  Reachable(s) = Out[s][i + 1]
  <1>1. PICK m \in Nat : m = Len(s)
    BY StreamTypes
  <1>2. PICK S : S = {m + 1} \union Stuck(s)
    OBVIOUS
  <1>3. Bytes(s) * Byte \in Nat
    BY AtMost
  <1>4. \A j \in 1 .. m : At[s][j] \in Nat /\ s[j].look \in Nat
    BY <1>1, AtFacts, StreamTypes, FieldFacts
  <1>5. \A j \in 1 .. m : (j \in Stuck(s)) <=> ~ Seen(j)
    BY <1>1, <1>3, <1>4 DEF Stuck, Seen
  <1>6. i + 1 \in S
    <2>1. CASE i = m
      BY <1>2, <2>1
    <2>2. CASE i # m
      <3>1. i + 1 \in 1 .. m
        BY <1>1, <2>2
      <3>2. QED BY <1>1, <1>2, <1>5, <2>2, <3>1
    <2>3. QED BY <2>1, <2>2
  <1>7. ASSUME NEW e \in S PROVE e \in Int /\ i + 1 <= e
    <2>1. e = m + 1 \/ (e \in 1 .. m /\ ~ Seen(e))
      BY <1>1, <1>2, <1>5 DEF Stuck
    <2>2. e \in 1 .. m /\ ~ Seen(e) => ~ (e <= i)
      OBVIOUS
    <2>3. QED BY <1>1, <2>1, <2>2
  <1>8. Min(S) = i + 1
    <2>1. Min(S) = CHOOSE e \in S : \A v \in S : e <= v
      BY DEF Min
    <2>2. \A e \in S : (\A v \in S : e <= v) => e = i + 1
      BY <1>6, <1>7
    <2>3. \A v \in S : i + 1 <= v
      BY <1>7
    <2>4. QED BY <1>6, <2>1, <2>2, <2>3
  <1>9. QED BY <1>1, <1>2, <1>8 DEF Reachable

LEMMA EndAccounts ==
  ASSUME IInv, Delivered, Accounted
  PROVE  NoSilentLoss
  <1> SUFFICES ASSUME pc = "ended", ~ Marked(text)
               PROVE  text = Reachable(s)
    BY DEF NoSilentLoss, Marked
  <1>1. /\ s \in Streams /\ Held(z) /\ z.i <= Len(s) /\ z.mode # "BAD"
        /\ Told(z, pc, handed) /\ handed \in Seq(Nat)
    BY DEF IInv, Typed, Ready, Kept, Delivered, Told, Feeding
  <1>2. text = handed /\ Idle(z, given) /\ given = Bytes(s) /\ Passed(z)
    BY DEF Accounted, Balance, Sated
  <1>3. PICK i \in Nat, m \in Nat : i = z.i /\ m = Len(s)
    BY <1>1, HeldFields, StreamTypes
  <1>4. \A j \in 1 .. i : Seen(j)
    BY <1>1, <1>2, <1>3 DEF Passed
  <1>5. CASE z.mode = "DONE"
    <2>1. i = m /\ i <= Len(s)
      BY <1>2, <1>3, <1>5 DEF Passed
    <2>2. Reachable(s) = Out[s][i + 1]
      BY <1>1, <1>3, <1>4, <2>1, ReachableAt
    <2>3. handed = Decoded(s)
      BY <1>1, <1>5 DEF Told
    <2>4. QED BY <1>2, <1>3, <2>1, <2>2, <2>3 DEF Decoded
  <1>6. CASE z.mode # "DONE"
    <2>1. /\ Live(z) /\ Pending(z) = 0 /\ Owing(z) = 0 /\ i + 1 \in 1 .. Len(s)
          /\ At[s][i + 1] + Needed(z) > Bytes(s) * Byte
      BY <1>1, <1>2, <1>3, <1>6 DEF Idle, Live
    <2>2. PICK j : j = i + 1
      OBVIOUS
    <2>3. PICK a \in Nat, f \in Fields, e \in Nat :
             a = At[s][j] /\ f = s[j] /\ e = Bytes(s) * Byte
      <3>1. j \in 1 .. Len(s) /\ j \in 1 .. Len(s) + 1
        BY <1>3, <2>1, <2>2
      <3>2. QED BY <1>1, <3>1, AtMost, StreamTypes
    <2>4. f.bits \in Nat /\ f.look \in Nat /\ f.extra \in Nat
      BY FieldFacts
    <2>5. z.mode \notin {"LENEXT", "DISTEXT"}
      <3>1. j \in 1 .. Len(s)
        BY <2>1, <2>2
      <3>2. a + f.bits + f.extra <= e
        BY <1>1, <2>3, <3>1, Whole
      <3>3. ASSUME z.mode \in {"LENEXT", "DISTEXT"} PROVE FALSE
        <4>1. Needed(z) = f.bits + f.extra
          BY <1>3, <2>2, <2>3, <3>3 DEF Needed, Ahead
        <4>2. a + (f.bits + f.extra) > e
          BY <2>1, <2>2, <2>3, <4>1
        <4>3. QED BY <2>4, <3>2, <4>2
      <3>4. QED BY <3>3
    <2>6. ~ Seen(i + 1)
      <3>1. Needed(z) = f.look
        BY <1>3, <2>2, <2>3, <2>5 DEF Needed, Ahead
      <3>2. a + f.look > e
        BY <2>1, <2>2, <2>3, <3>1
      <3>3. ~ (a + f.look <= e)
        BY <2>4, <3>2
      <3>4. QED BY <2>2, <2>3, <3>3 DEF Seen
    <2>7. i <= Len(s)
      BY <1>1, <1>3
    <2>8. PICK n : n = Out[s][i + 1]
      OBVIOUS
    <2>9. Reachable(s) = n
      BY <1>1, <1>4, <2>6, <2>7, <2>8, ReachableAt
    <2>10. Tells(z, handed)
      BY <1>1, <2>1 DEF Told, Total
    <2>11. PICK p : Sent(z, handed, p) /\ Owes(z, p)
      BY <2>10 DEF Tells
    <2>12. n \in Seq(Nat)
      <3>1. i + 1 \in 1 .. Len(s) + 1
        BY <1>3, <2>1
      <3>2. QED BY <1>1, <2>8, <3>1, OutTypes
    <2>13. /\ p \in Seq(Nat) /\ Leads(handed, p) /\ Len(handed) + 0 = Len(p)
           /\ Leads(p, n) /\ Len(p) + 0 = Len(n)
      BY <1>3, <2>1, <2>8, <2>11 DEF Sent, Owes
    <2>14. Len(handed) = Len(p) /\ Len(p) = Len(n)
      BY <1>1, <2>12, <2>13
    <2>15. handed = p /\ p = n
      BY <1>1, <2>12, <2>13, <2>14, LeadsAll
    <2>16. QED BY <1>2, <2>9, <2>15
  <1>7. QED BY <1>5, <1>6

\* Whatever the stream and the cuts of the file into chunks: when the page has
\* its answer, either the text has the bytes of every field that the file has the
\* bits for, or a -1 of append() in it (Garbage) shows that a chunk was refused.
\* Nothing that could have been decoded stays behind in the window of InfCodes, in
\* the input of the decoder or in the buffers of append() when its loop ends.  A
\* decoder that goes astray gives no answer in the model.
THEOREM NothingLostSilently == Spec => []NoSilentLoss
  <1>1. Init => IInv /\ Delivered /\ Accounted
    BY InitHolds, InitDelivers, InitAccounts
  <1>2. IInv /\ Delivered /\ Accounted /\ [Next]_vars => (IInv /\ Delivered /\ Accounted)'
    BY NextKeeps, NextDelivers, NextAccounts
  <1>3. IInv /\ Delivered /\ Accounted => NoSilentLoss
    BY EndAccounts
  <1>4. QED BY <1>1, <1>2, <1>3, PTL DEF Spec
=============================================================================
