CONSTANTS
  Raw = Raw
  Dedup = Dedup
  Frames <- MCFrames
  None = None
  MaxDelay = 1
  MaxFetches = 2
  MaxLoose = 2

SPECIFICATION Spec

INVARIANTS
  ChainAlive
  FigureOfPackage
  FrameIsCurrent

PROPERTIES
  PlayEnds
  PlayReachesLast

CHECK_DEADLOCK FALSE
