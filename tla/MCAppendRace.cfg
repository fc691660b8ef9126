SPECIFICATION KernelsSpec
CONSTANTS
  w1 = w1
  w2 = w2
  w3 = w3
  Warp <- MCWarp
  PrefillLen = 2
  Window = 3
  GemmWarp <- MCWarp
  Launches <- MCLaunches
  PanelChunks = 2
  MaxChunks = 11
  Levels = 2
  MaxCols = 6
  MaxRounds = 3
SYMMETRY Symmetry
INVARIANT WritesOneRow
