CONSTANTS
  Cameras = {c1, c2}
  NumNodes = 2
  Formats = 3
  Usable = {1, 3}
  None = None
SPECIFICATION Spec
INVARIANTS TypeOK ListIsFaithful NothingLeaks
