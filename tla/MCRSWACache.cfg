SPECIFICATION Spec
CONSTANTS
  NumLayers = 2
  Windows <- MCWindows
  MaxPrefill = 3
  MaxPos = 11
INVARIANTS
  ReferenceIntact
  VisibleRowsDistinct
  WritesInBounds
PROPERTY ImplementsSlidingWindow
