SPECIFICATION FairSpec
CONSTANT MaxBuffers = 3
INVARIANTS
  TypeOK
  CallbackMemoryIsSafe
  FlagsTellTheTruth
  NothingLeaks
  BuffersAreKept
  FramesMatchFormat
PROPERTIES
  ImplementsContract
  CallsReturn
  FramesKeepComing
