\* mprotect may fail.
CONSTANTS
  direct = direct
  tiny = tiny
  Points = {direct, tiny}
  NoPoint = NoPoint
  Threads = {t1}
  Springs = {s1}
  NearSprings <- MCNearSprings
  Direct = {direct}
  Tiny = {tiny}
  Long = {direct}
  Modes <- PermOnly
  MaxTries <- MCMaxTries
SPECIFICATION Spec
INVARIANTS BlobIsGenerated
\* A fault ends the process.
CHECK_DEADLOCK FALSE
