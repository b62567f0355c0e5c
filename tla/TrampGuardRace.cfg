\* Two threads meet at the guard.
CONSTANTS
  Threads = {t1, t2}
  NoThread = NoThread
  CallPts = {p}
  TailPts = {q}
  MaxDepth = 2
  MaxHandles = 2
  Unwinding = FALSE
SPECIFICATION Spec
INVARIANTS NoGuardFault
\* A fault ends the process.
CHECK_DEADLOCK FALSE
