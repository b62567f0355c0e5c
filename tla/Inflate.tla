-------------------------------- MODULE Inflate --------------------------------
(***************************************************************************)
(* lib/inflate.js as the viewer runs it in a worker: the decoder (Inflate, *)
(* InfBlocks, InfCodes with its fast path) with its bit buffer and its     *)
(* circular window, Inflater.append() around it, and the callbacks of      *)
(* lib/zip.js that feed it one chunk of the file at a time.                *)
(*                                                                         *)
(* A compressed stream is a sequence of fields, each with the bits it      *)
(* takes and what it stands for; which code stands for what is decided by  *)
(* tables that are left out.  What is kept is where every bit and byte     *)
(* goes, and that each step may run out of input, of window or of buffer.  *)
(***************************************************************************)
EXTENDS Integers, Sequences, FiniteSetsExt

CONSTANTS
  Streams,   \* compressed streams
  Chunks,    \* sizes of a chunk (CHUNK_SIZE is 512 * 1024 bytes)
  Byte,      \* bits in a byte: 8
  End,       \* size of the window: 32768
  BufSize,   \* size of the output buffer: 512
  MaxLen,    \* longest copy, and the window the fast path asks for: 258
  FastIn,    \* bytes of input the fast path asks for: 10
  LitBits,   \* bits it loads before a literal or a length: 20
  DistBits,  \* bits it loads before a distance: 15
  Garbage    \* what a -1 in the place of an array becomes in the text

VARIABLES
  s,        \* the stream being read
  z,        \* the decoder: see Start
  pc,       \* where the worker, or the page that feeds it, is
  chunk,    \* size of all chunks but the last
  given,    \* bytes of the file that went into earlier chunks
  size,     \* data.length in append()
  nomore,   \* nomoreinput
  buffers,  \* bytes pushed on buffers by this append()
  text,     \* what the writer has got
  handed    \* history: all that inflate_flush() has copied out

vars == <<s, z, pc, chunk, given, size, nomore, buffers, text, handed>>

\* One field: what it is, the bits of its code and the bits that must be in
\* the buffer to look it up, the extra bits behind it, and its value.
Field(is, bits, look, extra, val) ==
  [is |-> is, bits |-> bits, look |-> look, extra |-> extra, val |-> val]

\* A field that ends the decoder's work with Z_DATA_ERROR.
Bad(f) == f.is = "bad"

\* Bytes that it takes to hold so many bits.
InBytes(bits) == (bits + Byte - 1) \div Byte

Up(bits) == InBytes(bits) * Byte

\* At[s][i]: the bit at which field i begins.  The length of a stored block
\* is at a byte boundary.
At == [t \in Streams |->
  LET at[i \in 1 .. Len(t) + 1] ==
        IF i = 1 THEN 0
        ELSE LET end == at[i - 1] + t[i - 1].bits + t[i - 1].extra
             IN  IF t[i - 1].is = "stored" THEN Up(end) ELSE end
  IN  <<>> \o [i \in 1 .. Len(t) + 1 |-> at[i]]]

Bytes(t) == InBytes(At[t][Len(t) + 1])

\* Out[s][i + 1]: what the first i fields stand for.
Out == [t \in Streams |->
  LET out[i \in 0 .. Len(t)] ==
        IF i = 0 THEN <<>>
        ELSE CASE t[i].is \in {"lit", "byte"} -> Append(out[i - 1], t[i].val)
               [] t[i].is = "dist" ->
                    LET o == out[i - 1] IN
                    o \o [j \in 1 .. t[i - 1].val |->
                            o[Len(o) - t[i].val + 1 + ((j - 1) % t[i].val)]]
               [] OTHER -> out[i - 1]
  IN  <<>> \o [i \in 1 .. Len(t) + 1 |-> out[i - 1]]]

Decoded(t) == Out[t][Len(t) + 1]

(***************************************************************************)
(* The format: what may come as field i of a stream, decided by the fields *)
(* before it.  Behind an error nothing is read: whatever is there counts   *)
(* as one more field in error.                                             *)
(***************************************************************************)
Due(what, left, last) == [what |-> what, left |-> left, last |-> last]

EndOfBlock(last) == Due(IF last THEN "end" ELSE "block", 0, last)

\* d was due before field f; this is due after it.
After(d, f) ==
  LET More(what, n, then) == IF n > 0 THEN Due(what, n, d.last) ELSE then
      code == Due("code", 0, d.last)
  IN
  IF d.what = "nothing" \/ Bad(f) THEN Due("nothing", 0, FALSE)
  ELSE CASE f.is = "stored"  -> Due("lens", 0, f.val = 1)
         [] f.is = "fixed"   -> Due("code", 0, f.val = 1)
         [] f.is = "dynamic" -> Due("table", 0, f.val = 1)
         [] f.is = "lens"    -> More("byte", f.val, EndOfBlock(d.last))
         [] f.is = "byte"    -> More("byte", d.left - 1, EndOfBlock(d.last))
         [] f.is = "table"   -> More("tree", f.val, code)
         [] f.is = "tree"    -> More("tree", d.left - 1, code)
         [] f.is = "len"     -> Due("dist", 0, d.last)
         [] f.is \in {"lit", "dist"} -> code
         [] OTHER            -> EndOfBlock(d.last)

\* Dues[t][i]: what is due when field i is read, or at the end.
Dues == [t \in Streams |->
  LET due[i \in 1 .. Len(t) + 1] ==
        IF i = 1 THEN Due("block", 0, FALSE) ELSE After(due[i - 1], t[i - 1])
  IN  <<>> \o [i \in 1 .. Len(t) + 1 |-> due[i]]]

\* Field f, with o decoded before it, may come where d is due.
Fits(d, f, o) ==
  \/ d.what = "nothing" /\ Bad(f)
  \/ /\ f.bits <= f.look /\ f.look > 0
     /\ f.look <= LitBits \/ f.is \in {"lens", "byte"} \/ d.what = "lens"
     /\ f.extra = 0 \/ f.is \in {"len", "dist", "bad"}
     /\ \/ Bad(f) /\ d.what \notin {"byte", "end"}
        \/ d.what = "block" /\ f.is \in {"stored", "fixed", "dynamic"}
        \/ d.what = "lens" /\ f.is = "lens" /\ f.look = f.bits /\ f.bits % Byte = 0
                           /\ f.bits >= LitBits + Byte - 1
        \/ d.what = "byte" /\ f.is = "byte" /\ f.bits = Byte /\ f.look = Byte
        \/ d.what = "table" /\ f.is = "table"
        \/ d.what = "tree" /\ f.is = "tree"
        \/ d.what = "code" /\ f.is \in {"lit", "len", "eob"}
                           /\ f.bits + f.extra <= LitBits
                           /\ (f.is = "len" => f.val \in 2 .. MaxLen)
        \/ d.what = "dist" /\ f.is = "dist"
                           /\ f.look <= DistBits /\ f.extra <= LitBits
                           /\ f.val \in 1 .. End /\ f.val <= Len(o)
                           /\ InBytes(LitBits) + InBytes(DistBits) + InBytes(f.extra)
                                <= FastIn

ASSUME SizeAssumption ==
  /\ Byte \in Nat \ {0} /\ End \in Nat \ {0} /\ BufSize \in Nat \ {0}
  /\ MaxLen \in Nat \ {0} /\ FastIn \in Nat
  /\ LitBits \in Nat \ {0} /\ DistBits \in 1 .. LitBits
  /\ InBytes(LitBits) + InBytes(DistBits) <= FastIn
  /\ Chunks \subseteq Nat \ {0}
ASSUME StreamAssumption ==
  \A t \in Streams :
    /\ t \in Seq([is : STRING, bits : Nat, look : Nat, extra : Nat, val : Nat])
    /\ \A i \in 1 .. Len(t) : Fits(Dues[t][i], t[i], Out[t][i])
    /\ Dues[t][Len(t) + 1].what \in {"end", "nothing"}

\* The decoder before its first byte: its place in the chunk (base, a history,
\* is the place in the file that index 0 stands for, idx is next_in_index, n is avail_in, n0 what n was when
\* the fast path was entered), k bits in the buffer, i fields decoded, the
\* mode and its data, the window with its two pointers, what the present
\* call has copied out (avail_out is BufSize less that), and r.
Start ==
  [base |-> 0, idx |-> 0, n |-> 0, n0 |-> 0, k |-> 0, i |-> 0,
   mode |-> "TYPE", left |-> 0, dist |-> 0, last |-> FALSE,
   win |-> [x \in 0 .. End - 1 |-> 0], read |-> 0, write |-> 0,
   out |-> <<>>, r |-> "BUF"]

Init ==
  /\ s \in Streams
  /\ z = Start
  /\ pc = "step"
  /\ chunk \in Chunks
  /\ given = 0
  /\ size = 0
  /\ nomore = FALSE
  /\ buffers = <<>>
  /\ text = <<>>
  /\ handed = <<>>

-----------------------------------------------------------------------------
(* The window.                                                             *)

\* Slip: the writer may catch up with the reader.
RoomToTheEnd(x) ==
  IF x.write < x.read THEN x.read - x.write ELSE End - x.write

\* Window bytes that may be written: m in the code.
Room(x) == IF x.write < x.read THEN x.read - x.write - 1 ELSE End - x.write

Put(x, val) == [x EXCEPT !.win[x.write] = val, !.write = @ + 1]

\* Copies out the next pending bytes, as far as the output buffer takes them.
Give(x, pending) ==
  LET n == Min({pending, BufSize - Len(x.out)}) IN
  [x EXCEPT !.out   = @ \o [j \in 1 .. n |-> x.win[(x.read + j - 1) % End]],
            !.read  = (@ + n) % End,
            !.write = IF x.read + n = End /\ @ = End THEN 0 ELSE @,
            !.r     = IF n # 0 /\ @ = "BUF" THEN "OK" ELSE @]

\* inflate_flush(): up to the end of the window, then from its start.
Flush(x) ==
  Give(x, x.write - x.read + IF x.read <= x.write THEN 0 ELSE End)

Wrap(x) == IF x.write = End /\ x.read # 0 THEN [x EXCEPT !.write = 0] ELSE x

\* What a mode that writes does when there is no room.
MakeRoom(x) ==
  IF Room(x) # 0 THEN x
  ELSE IF Room(Wrap(x)) # 0 THEN Wrap(x)
  ELSE Wrap(Flush(Wrap(x)))

-----------------------------------------------------------------------------
(* The input.                                                              *)

Want(x, bits) == IF x.k >= bits THEN 0 ELSE InBytes(bits - x.k)

\* c bytes go into the bit buffer.
Fetch(x, c) == [x EXCEPT !.idx = @ + c, !.n = @ - c, !.k = @ + c * Byte,
                         !.r = IF c = 0 THEN @ ELSE "OK"]

Load(x, bits) == Fetch(x, Want(x, bits))

F == s[z.i + 1]

In(mode) == pc = "inflate" /\ z.mode = mode

Go(x) == z' = x /\ UNCHANGED <<pc, handed>>

\* inflate() returns, after a last inflate_flush(); at the end of the stream
\* the blocks are reset.
Return(x) ==
  LET y == Flush(x) IN
  /\ z' = IF y.mode = "DONE" THEN [y EXCEPT !.read = 0, !.write = 0, !.k = 0]
                             ELSE y
  /\ handed' = handed \o y.out
  /\ pc' = "check"

Fail(x) == Return([x EXCEPT !.r = "DATA", !.mode = "BAD"])

\* A byte is read at next_in_index -1, where read_byte() finds nothing, for all
\* that inflate.js:1051 says ("can always return one"): the decoder takes it for
\* 0, and what it makes of the stream is not followed.
Astray == pc' = "astray" /\ UNCHANGED <<z, handed>>

\* With the bits in the buffer go on with x, else wait for more input.
Need(bits, Use(_)) ==
  IF z.idx < 0 /\ z.n > 0 /\ Want(z, bits) > 0 THEN Astray
  ELSE IF Want(z, bits) > z.n THEN Return(Fetch(z, z.n))
  ELSE Use(Load(z, bits))

Drop(x, bits) == [x EXCEPT !.k = @ - bits]

\* The field is decoded.
Done(x, mode) == [x EXCEPT !.i = @ + 1, !.mode = mode]

Fed == <<s, chunk, given, size, nomore, buffers, text>>

-----------------------------------------------------------------------------
(* InfBlocks.proc().                                                       *)

Type ==
  LET Use(x) ==
        LET y == [Drop(x, F.bits) EXCEPT !.last = F.val = 1] IN
        CASE F.is = "stored"  -> Go(Done([y EXCEPT !.k = @ - (@ % Byte)], "LENS"))
          [] F.is = "fixed"   -> Go(Done(y, "START"))
          [] F.is = "dynamic" -> Go(Done(y, "TABLE"))
          [] OTHER            -> Fail(y)
  IN
  /\ In("TYPE")
  /\ Need(F.look, Use)
  /\ UNCHANGED Fed

\* After the last block what is left in the window, else another block.
NextBlock(x) == IF x.last THEN "DRY" ELSE "TYPE"

Lens ==
  LET Use(x) ==
        IF Bad(F) THEN Fail(x)
        ELSE Go(Done([x EXCEPT !.k = 0, !.left = F.val],
                     IF F.val # 0 THEN "STORED" ELSE NextBlock(x)))
  IN
  /\ In("LENS")
  /\ Need(F.look, Use)
  /\ UNCHANGED Fed

\* A stored block: as many bytes as input, window and block allow.
Stored ==
  LET x == MakeRoom(z)
      t == Min({z.left, z.n, Room(x)})
      y == [x EXCEPT
              !.win   = [w \in DOMAIN @ |->
                           IF w \in x.write .. x.write + t - 1
                             THEN s[z.i + 1 + w - x.write].val ELSE @[w]],
              !.write = @ + t, !.idx = @ + t, !.n = @ - t, !.i = @ + t,
              !.left  = @ - t, !.r = "OK",
              !.mode  = IF x.left = t THEN NextBlock(x) ELSE @]
  IN
  /\ In("STORED")
  /\ IF z.n = 0 THEN Return(z) ELSE IF Room(x) = 0 THEN Return(x)
     ELSE IF z.idx < 0 THEN Astray ELSE Go(y)
  /\ UNCHANGED Fed

Table ==
  LET Use(x) == IF Bad(F) THEN Fail(x)
                ELSE Go(Done([Drop(x, F.bits) EXCEPT !.left = F.val], "TREES"))
  IN
  /\ In("TABLE")
  /\ Need(F.look, Use)
  /\ UNCHANGED Fed

\* BTREE and DTREE: the lengths of the codes, one after another.
Trees ==
  LET Use(x) == IF Bad(F) THEN Fail(x)
                ELSE Go(Done([Drop(x, F.bits) EXCEPT !.left = @ - 1], "TREES"))
  IN
  /\ In("TREES")
  /\ IF z.left = 0 THEN Go([z EXCEPT !.mode = "START"]) ELSE Need(F.look, Use)
  /\ UNCHANGED Fed

Dry ==
  LET y == Flush(z) IN
  /\ In("DRY")
  /\ IF y.read # y.write THEN Return(y)
     ELSE Return([y EXCEPT !.mode = "DONE", !.r = "END"])
  /\ UNCHANGED Fed

\* inflate() after the end.
AfterEnd ==
  /\ In("DONE")
  /\ z' = [z EXCEPT !.r = "END"]
  /\ pc' = "check"
  /\ UNCHANGED <<Fed, handed>>

-----------------------------------------------------------------------------
(* InfCodes.proc().                                                        *)

\* The fast path takes over while window and input are ample.
Ample(x) == Room(x) >= MaxLen /\ x.n >= FastIn

StartCodes ==
  /\ In("START")
  /\ Go(IF Ample(z) THEN [z EXCEPT !.mode = "FAST", !.n0 = z.n]
                    ELSE [z EXCEPT !.mode = "LEN"])
  /\ UNCHANGED Fed

LenCode ==
  LET Use(x) ==
        LET y == Drop(x, F.bits) IN
        CASE F.is = "lit" -> Go(Done(y, "LIT"))
          [] F.is = "len" -> Go([y EXCEPT !.mode = "LENEXT"])
          [] F.is = "eob" -> Go(Done(y, "WASH"))
          [] OTHER        -> Fail(y)
  IN
  /\ In("LEN")
  /\ Need(F.look, Use)
  /\ UNCHANGED Fed

LenExt ==
  LET Use(x) == Go(Done([Drop(x, F.extra) EXCEPT !.left = F.val], "DIST")) IN
  /\ In("LENEXT")
  /\ Need(F.extra, Use)
  /\ UNCHANGED Fed

Dist ==
  LET Use(x) == IF Bad(F) THEN Fail(Drop(x, F.bits))
                ELSE Go([Drop(x, F.bits) EXCEPT !.mode = "DISTEXT"])
  IN
  /\ In("DIST")
  /\ Need(F.look, Use)
  /\ UNCHANGED Fed

DistExt ==
  LET Use(x) == Go(Done([Drop(x, F.extra) EXCEPT !.dist = F.val], "COPY")) IN
  /\ In("DISTEXT")
  /\ Need(F.extra, Use)
  /\ UNCHANGED Fed

\* A byte of a copy, from dist bytes back in the window.
Copy ==
  LET x == MakeRoom(z) IN
  /\ In("COPY")
  /\ IF z.left = 0 THEN Go([z EXCEPT !.mode = "START"])
     ELSE IF Room(x) = 0 THEN Return(x)
     ELSE Go([Put(x, x.win[(x.write - x.dist + End) % End])
                EXCEPT !.left = @ - 1])
  /\ UNCHANGED Fed

Lit ==
  LET x == MakeRoom(z) IN
  /\ In("LIT")
  /\ IF Room(x) = 0 THEN Return(x)
     ELSE Go([Put(x, s[z.i].val) EXCEPT !.r = "OK", !.mode = "START"])
  /\ UNCHANGED Fed

\* Slip: the byte that was loaded too many stays in the bit buffer.
WashKeepsByte ==
  LET y == Flush(z) IN
  /\ In("WASH")
  /\ IF y.read # y.write /\ y.r # "END" THEN Return(y)
     ELSE Go([y EXCEPT !.r = "OK", !.mode = NextBlock(y), !.k = @ % Byte])
  /\ UNCHANGED Fed

\* The end of a block: an unused byte goes back, and the window is emptied,
\* unless the fast path has left Z_STREAM_END in r, which passes for done.
Wash ==
  LET x == IF z.k >= Byte
             THEN [z EXCEPT !.k = @ - Byte, !.n = @ + 1, !.idx = @ - 1]
             ELSE z
      y == Flush(x)
  IN
  /\ In("WASH")
  /\ IF y.read # y.write /\ y.r # "END" THEN Return(y)
     ELSE Go([y EXCEPT !.r = "OK", !.mode = NextBlock(y)])
  /\ UNCHANGED Fed

-----------------------------------------------------------------------------
(* inflate_fast().                                                         *)

\* c bytes from from to to, byte by byte where they overlap.
Move(win, from, to, c) ==
  [w \in DOMAIN win |->
     IF w \in to .. to + c - 1
       THEN win[from + ((w - to) % IF from < to THEN to - from ELSE c)]
       ELSE win[w]]

\* The copy of the fast path: two bytes and the rest, or, when it begins
\* before the start of the window, up to its end and then from its start.
FastCopy(x, d, c) ==
  LET q    == x.write
      from == IF q >= d THEN q - d ELSE q - d + End
      head == IF q >= d THEN 2 ELSE IF c > End - from THEN End - from ELSE 0
      w1   == Move(x.win, from, q, head)
      rest == IF q < d /\ head > 0 THEN 0 ELSE from + head
  IN  [x EXCEPT !.win = Move(w1, rest, q + head, c - head), !.write = @ + c]

\* Whole bytes of the bit buffer go back, if this call loaded them.
GiveBack(x) ==
  LET c == Min({x.k \div Byte, x.n0 - x.n}) IN
  [x EXCEPT !.n = @ + c, !.idx = @ - c, !.k = @ - c * Byte]

\* The loop goes on, or hands over to the modes above.
On(x) == Go(IF Ample(x) THEN [x EXCEPT !.mode = "FAST"]
            ELSE [GiveBack(x) EXCEPT !.mode = "LEN", !.r = "OK"])

\* A turn of the loop: a literal, the length of a copy, or the end of block.
Fast ==
  LET x == Drop(Load(z, LitBits), F.bits + F.extra) IN
  /\ In("FAST")
  /\ CASE F.is = "lit" -> On(Done(Put(x, F.val), "FAST"))
       [] F.is = "len" -> Go(Done([x EXCEPT !.left = F.val], "FASTDIST"))
       [] F.is = "eob" -> Go([Done(GiveBack(x), "WASH") EXCEPT !.r = "END"])
       [] OTHER        -> Fail(GiveBack(x))
  /\ UNCHANGED Fed

\* The rest of the turn: the distance, and the copy.
FastDist ==
  LET x == Drop(Load(z, DistBits), F.bits)
      y == Drop(Load(x, F.extra), F.extra)
  IN
  /\ In("FASTDIST")
  /\ IF Bad(F) THEN Fail(GiveBack(x))
     ELSE On(Done(FastCopy(y, F.val, z.left), "FAST"))
  /\ UNCHANGED Fed

Decode ==
  \/ Type \/ Lens \/ Stored \/ Table \/ Trees \/ Dry \/ AfterEnd
  \/ StartCodes \/ LenCode \/ LenExt \/ Dist \/ DistExt \/ Copy \/ Lit \/ Wash
  \/ Fast \/ FastDist

-----------------------------------------------------------------------------
(* Inflater.append().                                                      *)

\* A turn of its loop: an empty buffer, and a note that the input is used up.
Turn ==
  /\ pc = "loop"
  /\ LET dry == z.n = 0 /\ ~ nomore IN
     /\ nomore' = (nomore \/ dry)
     /\ z' = [z EXCEPT !.out = <<>>, !.r = "BUF",
                       !.base = IF dry THEN @ + z.idx ELSE @,
                       !.idx  = IF dry THEN 0 ELSE @]
  /\ pc' = "inflate"
  /\ UNCHANGED <<s, chunk, given, size, buffers, text, handed>>

Minus1 == <<Garbage>>

\* append() returns, and the worker posts what it returned.
Answer(data) == buffers' = data /\ pc' = "answered"

\* What append() takes for the end of its input.
AtEdge == \/ nomore /\ z.r = "BUF"
          \/ /\ z.r = "END" \/ (nomore /\ z.r = "OK")
             /\ BufSize - Len(z.out) = size

\* An exception, -1, another turn, or all that was pushed on buffers.
Settle(edge, last) ==
  /\ pc = "check"
  /\ IF edge THEN Answer(Minus1)
     ELSE IF z.r \notin {"OK", "END"} THEN pc' = "thrown" /\ UNCHANGED buffers
     ELSE IF z.n > 0 \/ Len(z.out) = BufSize
       THEN pc' = "loop" /\ buffers' = buffers \o z.out
       ELSE Answer(buffers \o last)
  /\ UNCHANGED <<s, z, chunk, given, size, nomore, text, handed>>

\* Slip: the last buffer is left out when the input is used up.
CheckDropsLast == Settle(AtEdge, <<>>)

\* Slip: Z_BUF_ERROR is an error, although the input is used up.
CheckThrows == Settle(AtEdge /\ z.r # "BUF", z.out)

\* What append() makes of a return of inflate().
Check == Settle(AtEdge, z.out)

-----------------------------------------------------------------------------
(* launchWorkerProcess() of zip.js: read, append, write, and again.        *)

Step ==
  /\ pc = "step"
  /\ pc' = IF given < Bytes(s) THEN "reading" ELSE "flushing"
  /\ UNCHANGED <<Fed, z, handed>>

\* The chunk has been read and is posted to the worker.
ChunkRead ==
  LET c == Min({chunk, Bytes(s) - given}) IN
  /\ pc = "reading"
  /\ z' = [z EXCEPT !.base = given, !.idx = 0, !.n = c]
  /\ size' = c
  /\ given' = given + c
  /\ buffers' = <<>>
  /\ pc' = "loop"
  /\ UNCHANGED <<s, chunk, nomore, text, handed>>

\* onappend: what append() returned goes to the writer.
Written ==
  /\ pc = "answered"
  /\ text' = text \o buffers
  /\ pc' = "step"
  /\ UNCHANGED <<s, z, chunk, given, size, nomore, buffers, handed>>

\* onreaderror and onwriteerror: the worker is terminated.
IoFails ==
  /\ pc \in {"reading", "answered"}
  /\ pc' = "failed"
  /\ UNCHANGED <<Fed, z, handed>>

\* onflush: onend() gets the text.
Flushed ==
  /\ pc = "flushing"
  /\ pc' = "ended"
  /\ UNCHANGED <<Fed, z, handed>>

Feed == Step \/ ChunkRead \/ Written \/ IoFails \/ Flushed

Next == Decode \/ Turn \/ Check \/ Feed

\* The worker runs, and a read or a write is answered, by success or failure.
Spec == Init /\ [][Next]_vars /\ WF_vars(Next)

-----------------------------------------------------------------------------
\* The bits before the next one to be decoded.
Position == (z.base + z.idx) * Byte - z.k

\* Fields that cannot be looked up for want of bits behind them.
Stuck(t) == {i \in 1 .. Len(t) : At[t][i] + t[i].look > Bytes(t) * Byte}

\* What is decoded of t at most, and whether t is a stream without errors.
Reachable(t) == Out[t][Min({Len(t) + 1} \union Stuck(t))]
Sound(t) == \A i \in 1 .. Len(t) : ~ Bad(t[i])

\* The decoder as its user sees it implements Decoding: every byte is handed
\* out once and in order, whatever the pieces the input comes in and
\* wherever window and buffer end, and the end is reported after the last.  This
\* holds up to the point where the decoder goes astray, if it does.
Decoder == INSTANCE Decoding WITH plain <- Decoded(s), handed <- handed,
                                  over <- (z.mode = "DONE")
DecodesInOrder == Decoder!Spec

\* No bit is lost or read twice: what the bit buffer and the chunk still hold
\* begins where the next field begins, bytes given back included, and the
\* fast path takes no byte from beyond the chunk.  The place is right also at
\* index -1, but the byte is not there: it holds until that byte is asked for.
InputKept ==
  pc = "inflate" /\ z.mode \notin {"BAD", "DONE"} =>
    /\ z.n >= 0
    /\ Position = At[s][z.i + 1] + IF z.mode \in {"LENEXT", "DISTEXT"}
                                     THEN F.bits ELSE 0

\* Nothing is lost silently: the text that is given to the page is complete,
\* up to fields that cannot be looked up, or shows where a chunk was lost, unless
\* the decoder has gone astray: no text is followed beyond that.
NoSilentLoss ==
  pc = "ended" => \/ text = Reachable(s)
                  \/ \E j \in DOMAIN text : text[j] = Garbage

\* A sound stream is read to its end, or a read or a write of the page fails,
\* or the decoder has gone astray: the loop of append() ends, and no exception
\* leaves the page waiting.
Answered == Sound(s) => <>(pc \in {"ended", "failed", "astray"})
=============================================================================
