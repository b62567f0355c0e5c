\* Two call blocks, a spring block and a thread that runs them; mishaps by mode.
CONSTANTS
  direct = direct
  tiny = tiny
  Points = {direct, tiny}
  NoPoint = NoPoint
  Threads = {t1}
  Springs = {s1}
  NearSprings <- MCNearSprings
  Direct = {direct}
  Tiny = {tiny}
  Long = {direct}
  Modes <- MCModes
  MaxTries <- MCMaxTries
SPECIFICATION FairSpec
INVARIANTS NoWildJump HopsApart TrapIsKnown
PROPERTIES EveryPointInstrumented FrozenOnceInstrumented
\* A fault ends the process.
CHECK_DEADLOCK FALSE
