CONSTANTS
  Pids <- MCPids
  NoPid <- MCNoPid
  Fds <- MCFds
  Pipes = {a}
  NoFile = NoFile
  NoChannel = NoChannel
  NoAgent = NoAgent
  Loading = Loading
  Inert = Inert
  Names <- MCNames
  Capacity = 1
  LastByHand = 0
  MaxImages = 2

SPECIFICATION Spec
VIEW MCView

INVARIANTS
  AskedToTrace
  ChannelOfOpenFile
  HeldByAttacher

PROPERTIES
  AnnouncedIsTraced

CHECK_DEADLOCK FALSE
