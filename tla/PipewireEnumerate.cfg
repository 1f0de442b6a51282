CONSTANTS
  Nodes = {n1, n2, n3}
  Params = 3
  Usable = {1, 3}
  InitialCapacity = 2
  InitialFormats = 1
SPECIFICATION FairSpec
INVARIANTS
  TypeOK
  ListIsComplete
  ListenersAreLive
  NothingLeaks
PROPERTY EnumerationEnds
