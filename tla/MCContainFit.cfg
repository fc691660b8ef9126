SPECIFICATION Spec
CONSTANTS
  ImageSize = 5
  BaseSize = 9
  PatchSize = 1
  MinCrops = 2
  MaxCrops = 8
  MaxSide = 19
  MaxText = 1
CHECK_DEADLOCK FALSE
INVARIANTS
  FitsInside
