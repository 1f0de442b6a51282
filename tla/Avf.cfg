CONSTANTS
  Interruptible = TRUE
  MaxPending = 2
  MaxKept = 1
SPECIFICATION AnsweringSpec
INVARIANTS TypeOK FrameMemoryIsHeld NothingLeaks
PROPERTIES StopDrains ImplementsContract
