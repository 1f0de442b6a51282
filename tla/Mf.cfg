SPECIFICATION FairSpec
CONSTANT Captures = {c1, c2}
INVARIANTS
  TypeOK
  MfIsBalanced
  CallbackIsRecovered
  ReaderIsUsable
  NothingLeaks
PROPERTY FirstImplementsContract
