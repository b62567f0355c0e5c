\* One thread that may unwind; agent, payload and handler code nests on the wrappers.
CONSTANTS
  Threads = {t1}
  NoThread = NoThread
  CallPts = {p1, p2}
  TailPts = {q}
  MaxDepth = 3
  MaxHandles = 2
  Unwinding = TRUE
SPECIFICATION MCFairSpec
INVARIANTS NoGuardFault NoEmptyPop NoSelfDeadlock SkippedTogether
INVARIANTS PairedIfAllReturn MirrorsIfAllReturn 
PROPERTIES NestedIsInvisible GuardIsReleased
