CONSTANTS
  Interruptible = TRUE
  MaxPending = 2
  MaxKept = 1
SPECIFICATION Spec
INVARIANT UserDataIsAlive
