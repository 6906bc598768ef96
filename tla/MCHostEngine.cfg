SPECIFICATION FairSpec
CONSTANTS
  s1 = s1
  s2 = s2
  FirstSize = s1
  BufferSizes <- MCBufferSizes
  MaxDevices = 2
INVARIANTS
  WiresLive
PROPERTIES
  WalkIsUniform
  ImplementsExclusiveAccess
  FreezeAllReturns
  DeadAreReaped
  ShutdownEnds
