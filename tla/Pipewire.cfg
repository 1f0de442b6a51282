SPECIFICATION FairSpec
CONSTANT MaxStarts = 3
INVARIANTS
  TypeOK
  PointersAreLive
  CallbackIsSafe
  FramesMatchFormat
  FlagsTellTheTruth
  NothingLeaks
PROPERTIES
  CallsReturn
  ImplementsContract
