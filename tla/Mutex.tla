-------------------------------- MODULE Mutex --------------------------------
(***************************************************************************)
(* What the agent expects of g_propel_lock: a non-reentrant lock with no   *)
(* memory of who takes it.  A thread asks for it, gets it when nobody      *)
(* holds it, and gives it back.  SpinLock implements this module; the      *)
(* modules that use the lock take it as the single step Acquire.           *)
(***************************************************************************)
CONSTANTS
  Threads,    \* the threads of the process
  NoThread    \* the lock is free

VARIABLES
  holder,     \* the thread inside SP_LOCK .. SP_UNLOCK, or NoThread
  waiting     \* the threads inside Lock()

vars == <<holder, waiting>>

Init ==
  /\ holder = NoThread
  /\ waiting = {}

Ask(t) ==
  /\ t \notin waiting
  /\ holder # t
  /\ waiting' = waiting \union {t}
  /\ UNCHANGED holder

Acquire(t) ==
  /\ t \in waiting
  /\ holder = NoThread
  /\ holder' = t
  /\ waiting' = waiting \ {t}

Release(t) ==
  /\ holder = t
  /\ holder' = NoThread
  /\ UNCHANGED waiting

Next == \E t \in Threads : Ask(t) \/ Acquire(t) \/ Release(t)

Spec == Init /\ [][Next]_vars
=============================================================================
