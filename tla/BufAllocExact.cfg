SPECIFICATION Spec
CONSTANTS
  exe = exe
  lib = lib
  plug = plug
  Objects = {exe, lib, plug}
  Late = {plug}
  Start <- SmallStart
  Pages <- SmallPages
  Layouts <- AllLayouts
  PageSize = 4
  MinAddr = 4
  MaxInterval = 8
  Distance = 20
  Wrap = 64
  Sizes = {3, 4}
  MaxBuffers = 3
  MaxMaps = 0
INVARIANTS BuffersInArea
CHECK_DEADLOCK FALSE
