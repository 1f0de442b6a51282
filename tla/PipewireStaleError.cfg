SPECIFICATION Spec
CONSTANT MaxStarts = 2
INVARIANT StartFailsForACause
