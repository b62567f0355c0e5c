----------------------------- MODULE MCPropagate -----------------------------
(***************************************************************************)
(* A small program for Propagate: main calls work, starts a thread in      *)
(* routine, and calls exit; work and routine share a call block; an exit   *)
(* handler calls work and may start a thread.                              *)
(***************************************************************************)
EXTENDS Propagate

CONSTANTS t1, t2, work, routine, handler, bWork, bCreate, bExit, bShared, bInd, bRun, bLate

MCBlocksOf ==
  [f \in Funcs |-> Blocks \cap
     CASE f = Main     -> {bWork, bCreate, bExit}
       [] f = work     -> {bShared, bInd}
       [] f = routine  -> {bShared, bExit}
       [] f = ExitFunc -> {bRun}
       [] f = handler  -> {bWork, bLate}
       [] OTHER        -> {}]

MCCallees ==
  [b \in Blocks |->
     CASE b = bWork   -> {work}
       [] b = bCreate -> {CreateFunc}
       [] b = bLate   -> {CreateFunc}
       [] b = bExit   -> {ExitFunc}
       [] b = bShared -> {handler}
       [] b = bInd    -> {work, handler}
       [] b = bRun    -> {handler}]
=============================================================================
