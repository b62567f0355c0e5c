------------------------------ MODULE BufAlloc ------------------------------
(***************************************************************************)
(* Memory for patch areas.  When the parser is done, SpAddrSpace reads     *)
(* /proc/self/maps, keeps the holes between the mappings as free           *)
(* intervals, and maps one of them, not too far below it, for each object. *)
(* SpObject::AllocateBuffer then cuts buffers off that pool; a pool that   *)
(* is too small is dropped for another interval, and failing that memory   *)
(* comes from posix_memalign.                                              *)
(*                                                                         *)
(* The list of intervals is never read again from the system, and mapping  *)
(* one is MAP_FIXED: what the program maps meanwhile may be in its way.    *)
(*                                                                         *)
(* Addresses are small numbers and a page is PageSize of them.  The list   *)
(* is in the order of addresses, so it is a set here, of which the code's  *)
(* loop takes the lowest member that will do.                              *)
(***************************************************************************)
EXTENDS Naturals, FiniteSets

CONSTANTS
  Objects,       \* objects whose code is instrumented
  Start,         \* Start[o]: load_addr()
  Late,          \* objects that dlopen brings after the maps were read
  Layouts,       \* sets of pages the program may have mapped at the start
  Pages,         \* page numbers, 0 .. the last
  PageSize,      \* getpagesize()
  MinAddr,       \* lowest address the kernel lets a process map
  MaxInterval,   \* max_interval_size, 16MB
  Distance,      \* max_mapped_area_size and distance, 1.5GB
  Wrap,          \* 2^(bits of a size_t)
  Sizes,         \* sizes asked for
  MaxBuffers,    \* bound on the buffers handed out
  MaxMaps        \* bound on the pages the program maps later

ASSUME SizeAssumption ==
  /\ PageSize \in Nat \ {0} /\ MinAddr \in Nat
  /\ Distance \in Nat /\ Distance % PageSize = 0
  /\ MaxInterval \in Nat \ {0} /\ MaxInterval % PageSize = 0
  /\ Wrap \in Nat /\ MaxInterval < Wrap /\ Sizes \subseteq Nat \ {0}
  /\ MaxBuffers \in Nat /\ MaxMaps \in Nat
ASSUME LayoutAssumption ==
  /\ Pages \subseteq Nat
  /\ Layouts \subseteq SUBSET Pages
  /\ Start \in [Objects -> {p * PageSize : p \in Pages}]
  /\ Late \subseteq Objects
  /\ \A o \in Objects, layout \in Layouts :
       o \in Late <=> Start[o] \div PageSize \notin layout

VARIABLES
  intervals,   \* free_intervals_
  used,        \* those with used
  program,     \* pages the program has mapped
  unbound,     \* objects UpdateFreeIntervals has not come to
  pool,        \* pool[o]: small_freebufs_
  mapped,      \* what InitMemoryAlloc has mapped, and for which object
  buffers,     \* buffers AllocateBuffer has cut off a pool
  heap,        \* number of buffers from posix_memalign
  clobbered,   \* pages of the program that MAP_FIXED has replaced
  late         \* pages the program has mapped since

vars == <<intervals, used, program, unbound, pool, mapped, buffers, heap, clobbered,
          late>>

Least(S) == CHOOSE x \in S : \A y \in S : x <= y

-----------------------------------------------------------------------------
(***************************************************************************)
(* UpdateMemoryMappings: the hole before each mapping, up to the mapping   *)
(* before it or address 0; and UpdateFreeIntervals: of each hole the upper *)
(* Distance, in pieces of at most MaxInterval.                             *)
(***************************************************************************)
Holes(layout) ==
  {h \in ({0} \union {p + 1 : p \in layout}) \X layout :
     h[1] < h[2] /\ \A p \in h[1] .. h[2] - 1 : p \notin layout}

Interval(lo, hi) == [start |-> lo, end |-> hi]

Trim(lo, hi) == Interval(IF hi - lo > Distance THEN hi - Distance ELSE lo, hi)

\* Slip: the last piece is not cut off at the end of the hole.
PiecesUncut(h) ==
  {Interval(h.start + k * MaxInterval, h.start + (k + 1) * MaxInterval) :
     k \in {j \in 0 .. h.end : h.start + j * MaxInterval < h.end}}

Pieces(h) ==
  {Interval(h.start + k * MaxInterval,
            IF h.start + (k + 1) * MaxInterval > h.end
              THEN h.end ELSE h.start + (k + 1) * MaxInterval) :
     k \in {j \in 0 .. h.end : h.start + j * MaxInterval < h.end}}

FreeIntervals(layout) ==
  UNION {Pieces(Trim(h[1] * PageSize, h[2] * PageSize)) : h \in Holes(layout)}

Init ==
  /\ \E layout \in Layouts :
       /\ program = layout
       /\ intervals = FreeIntervals(layout)
  /\ used = {}
  /\ unbound = Objects \ Late
  /\ pool = [o \in Objects |-> [base |-> 0, size |-> 0]]
  /\ mapped = {} /\ buffers = {} /\ heap = 0 /\ clobbered = {} /\ late = 0

-----------------------------------------------------------------------------
\* mem_maps_[load_addr()]: a new, zero mapping for an object that came later.
Addr(o) == IF o \in Late THEN 0 ELSE Start[o]

\* Slip: the test of the distance is left out.
SuitableFar(o) == {i \in intervals \ used : i.start <= Addr(o)}

\* GetClosestInterval: the first in the list that starts below the object,
\* is not used and starts within Distance.
Suitable(o) ==
  {i \in intervals \ used : i.start <= Addr(o) /\ Addr(o) - i.start <= Distance}

Lowest(S) == CHOOSE i \in S : \A j \in S : i.start <= j.start

RoundUp(n) == ((n + PageSize - 1) \div PageSize) * PageSize

\* The end of the interval, in whole pages, and never page 0.
Wanted(i) ==
  LET size == RoundUp(i.end - i.start)
      base == i.end - size
  IN IF base < PageSize THEN Interval(base + PageSize, base + size) ELSE Interval(base, i.end)

\* Pages the kernel refuses at the low end are given up one by one.
Granted(w) ==
  Interval(Least({a \in {w.start + k * PageSize : k \in 0 .. MinAddr} : a >= MinAddr}), w.end)

PagesOf(g) == {p \in Pages : g.start <= p * PageSize /\ p * PageSize < g.end}

\* The interval that is taken for o, and what mmap gives for it, if anything.
Taken(o) == IF Suitable(o) = {} THEN {} ELSE {Lowest(Suitable(o))}
Fresh(o) == {g \in {Granted(Wanted(i)) : i \in Taken(o)} : g.start < g.end}

\* small_freebufs_ afterwards: untouched when nothing was mapped.
PoolOf(g) == [base |-> g.start, size |-> g.end - g.start]
Refilled(o) ==
  IF Fresh(o) = {} THEN pool[o] ELSE PoolOf(CHOOSE g \in Fresh(o) : TRUE)

\* GetClosestInterval and InitMemoryAlloc, all but small_freebufs_.
NewInterval(o) ==
  LET gone == UNION {PagesOf(g) : g \in Fresh(o)} IN
  /\ used' = used \union Taken(o)
  /\ mapped' = mapped \union {[obj |-> o, area |-> g] : g \in Fresh(o)}
  /\ clobbered' = clobbered \union (gone \intersect program)
  /\ program' = program \ gone

\* UpdateFreeIntervals binds an interval to each object, in any order.
Bind(o) ==
  /\ o \in unbound
  /\ unbound' = unbound \ {o}
  /\ NewInterval(o)
  /\ pool' = [pool EXCEPT ![o] = Refilled(o)]
  /\ UNCHANGED <<intervals, buffers, heap, late>>

-----------------------------------------------------------------------------
\* Slip: the pool goes on inside the buffer just handed out.
RestOverlapping(f, n) == [base |-> f.base + n - 1, size |-> (f.size + Wrap - (n + 1)) % Wrap]

\* What is left of a pool after a buffer of n and one byte more.
Rest(f, n) == [base |-> f.base + n + 1, size |-> (f.size + Wrap - (n + 1)) % Wrap]

\* Slip: nobody asks whether the new pool is large enough.
ServeAnyway(o, n, f) ==
  /\ pool' = [pool EXCEPT ![o] = Rest(f, n)]
  /\ buffers' = buffers \union {[obj |-> o, at |-> f.base, size |-> n]}
  /\ UNCHANGED heap

\* A buffer of n from pool f if it holds that much, else posix_memalign.
Serve(o, n, f) ==
  IF f.size >= n
    THEN /\ pool' = [pool EXCEPT ![o] = Rest(f, n)]
         /\ buffers' = buffers \union {[obj |-> o, at |-> f.base, size |-> n]}
         /\ UNCHANGED heap
    ELSE /\ pool' = [pool EXCEPT ![o] = f]
         /\ heap' = heap + 1
         /\ UNCHANGED buffers

\* AllocateBuffer: a pool that is too small is first given up for a new one.
AllocateBuffer(o, n) ==
  /\ unbound = {}
  /\ Start[o] \div PageSize \in program   \* the object is loaded
  /\ Cardinality(buffers) + heap < MaxBuffers
  /\ IF pool[o].size < n
       THEN NewInterval(o) /\ Serve(o, n, Refilled(o))
       ELSE Serve(o, n, pool[o]) /\ UNCHANGED <<used, mapped, clobbered, program>>
  /\ UNCHANGED <<intervals, unbound, late>>

\* The program maps a page that is free, wherever the kernel likes: for data,
\* or by dlopen for an object.
ProgramMaps(p) ==
  /\ late < MaxMaps
  /\ p * PageSize >= MinAddr
  /\ p \notin program
  /\ \A m \in mapped : p \notin PagesOf(m.area)
  /\ program' = program \union {p}
  /\ late' = late + 1
  /\ UNCHANGED <<intervals, used, unbound, pool, mapped, buffers, heap, clobbered>>

Next ==
  \/ \E o \in Objects : Bind(o)
  \/ \E o \in Objects, n \in Sizes : AllocateBuffer(o, n)
  \/ \E p \in Pages : ProgramMaps(p)

Spec == Init /\ [][Next]_vars

-----------------------------------------------------------------------------
\* The variables keep their types: SpObject and SpAddrSpace stay well formed.
TypeOK ==
  /\ \A i \in intervals : i.start \in Nat /\ i.end \in Nat /\ i.start < i.end
  /\ used \subseteq intervals
  /\ program \subseteq Pages /\ clobbered \subseteq Pages
  /\ unbound \subseteq Objects
  /\ \A o \in Objects : pool[o].base \in Nat /\ pool[o].size \in 0 .. Wrap - 1
  /\ \A m \in mapped : m.obj \in Objects /\ m.area.start < m.area.end
  /\ \A b \in buffers : b.obj \in Objects /\ b.size \in Sizes
  /\ heap \in 0 .. MaxBuffers /\ late \in 0 .. MaxMaps

\* No two buffers that AllocateBuffer has handed out share a byte, of one
\* object or of two: each holds the code of another patch area.
BuffersApart ==
  \A b, c \in buffers : b # c => b.at + b.size <= c.at \/ c.at + c.size <= b.at

\* A buffer lies inside an area that InitMemoryAlloc has mapped for its own
\* object: what GenBlob writes there falls on nothing else.
BuffersInArea ==
  \A b \in buffers : \E m \in mapped :
     m.obj = b.obj /\ m.area.start <= b.at /\ b.at + b.size <= m.area.end

\* A buffer of an object that was there when the maps were read is below it
\* and no further than Distance from the load address, so that a 32-bit
\* displacement can reach it: GetClosestInterval.
WithinReach ==
  \A b \in buffers : b.obj \notin Late =>
     /\ b.at + b.size <= Start[b.obj]
     /\ Start[b.obj] - b.at <= Distance

\* MAP_FIXED replaces only what the program has mapped since /proc/self/maps
\* was read (UpdateFreeIntervals hands out holes between mappings), and each
\* such page at most once.
OnlyLateMapsClobbered == Cardinality(clobbered) <= late
=============================================================================
