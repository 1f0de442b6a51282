CONSTANTS
  I32Max = 7
  USizeMax = 255
  MjpegMaxPayload = 5
  Dims <- SmallDims
  Strides <- SmallStrides
  Lengths <- SmallLengths
SPECIFICATION Spec
INVARIANTS TypeOK SlicesAreBounded PlanesAreDisjoint CheckedIsDelivered
CHECK_DEADLOCK FALSE
