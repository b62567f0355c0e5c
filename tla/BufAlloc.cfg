SPECIFICATION Spec
CONSTANTS
  exe = exe
  lib = lib
  plug = plug
  Objects = {exe, lib, plug}
  Late = {plug}
  Start <- SmallStart
  Pages <- SmallPages
  Layouts <- AllLayouts
  PageSize = 4
  MinAddr = 4
  MaxInterval = 8
  Distance = 20
  Wrap = 64
  Sizes = {1, 3, 5}
  MaxBuffers = 4
  MaxMaps = 1
INVARIANTS BuffersApart BuffersInArea WithinReach OnlyLateMapsClobbered
CHECK_DEADLOCK FALSE
