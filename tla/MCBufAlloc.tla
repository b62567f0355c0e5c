----------------------------- MODULE MCBufAlloc -----------------------------
(* Values for BufAlloc: ten pages of four bytes, three objects.           *)
EXTENDS BufAlloc

CONSTANTS exe, lib, plug   \* the program, a library, and one loaded later

SmallPages == 0 .. 9
SmallStart == [o \in {exe, lib, plug} |-> CASE o = exe -> 20 [] o = lib -> 36 [] o = plug -> 28]

\* Every way the pages may be mapped in which the first two objects are.
AllLayouts == {l \in SUBSET SmallPages : {0, 7} \intersect l = {} /\ {5, 9} \subseteq l}
=============================================================================
