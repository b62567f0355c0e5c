------------------------------- MODULE Decoding -------------------------------
(***************************************************************************)
(* What a streaming decoder promises to the one who feeds it: it hands out *)
(* the decoded bytes in order, each once, in pieces of any size, and says  *)
(* that it is at the end only when it has handed out all of them.          *)
(***************************************************************************)
EXTENDS Integers, Sequences

VARIABLES
  plain,    \* the bytes the stream stands for
  handed,   \* the bytes handed out so far
  over      \* the end of the stream was reported

Init == handed = <<>> /\ over = FALSE

\* A further piece, perhaps empty, and with the last one perhaps the end.
HandOut ==
  /\ ~ over
  /\ \E n \in Len(handed) .. Len(plain) : handed' = SubSeq(plain, 1, n)
  /\ over' \in BOOLEAN
  /\ over' => handed' = plain
  /\ UNCHANGED plain

Spec == Init /\ [][HandOut]_<<plain, handed, over>>
=============================================================================
