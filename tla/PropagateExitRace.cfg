\* One thread runs into exit while another propels.
CONSTANTS
  t1 = t1
  t2 = t2
  Threads = {t1, t2}
  NoThread = NoThread
  MainThread = t1
  NoFunc = NoFunc
  Main = main
  ExitFunc = exit
  CreateFunc = create
  work = work
  routine = routine
  handler = handler
  Funcs = {main, exit, create, work, routine, handler}
  Routines = {routine}
  InstFuncs = {main, exit, create, work, routine, handler}
  bWork = bWork
  bCreate = bCreate
  bExit = bExit
  bShared = bShared
  bInd = bInd
  bRun = bRun
  bLate = bLate
  Blocks = {bWork, bCreate, bExit, bShared, bInd, bRun, bLate}
  NoBlock = NoBlock
  BlocksOf <- MCBlocksOf
  Callees <- MCCallees
  Indirect = {bInd}
  DirectOnly = FALSE
  Multithread = TRUE
  MaxDepth = 4
SPECIFICATION Spec
INVARIANTS PropelStopsAtExit
