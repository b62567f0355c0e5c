\* Two threads propagate at once.
CONSTANTS
  t1 = t1
  t2 = t2
  Threads = {t1, t2}
  NoThread = NoThread
  MainThread = t1
  NoFunc = NoFunc
  Main = main
  ExitFunc = exit
  CreateFunc = create
  work = work
  routine = routine
  handler = handler
  Funcs = {main, exit, create, work, routine, handler}
  Routines = {routine}
  InstFuncs = {main, exit, create, work, routine, handler}
  bWork = bWork
  bCreate = bCreate
  bExit = bExit
  bShared = bShared
  bInd = bInd
  bRun = bRun
  bLate = bLate
  Blocks = {bWork, bCreate, bExit, bShared, bInd, bRun}
  NoBlock = NoBlock
  BlocksOf <- MCBlocksOf
  Callees <- MCCallees
  Indirect = {bInd}
  DirectOnly = FALSE
  Multithread = TRUE
  MaxDepth = 3
SPECIFICATION FairSpec
INVARIANTS NoBlockTwice FrontierAhead
PROPERTIES LockIsReleased
