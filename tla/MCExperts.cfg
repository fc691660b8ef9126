SPECIFICATION ExpertsSpec
CONSTANTS
  NumExperts = 3
  TopK = 2
  MaxSeq = 3
  Half = 1
  BlockWarps <- MCBlockWarps
  Garbage = Garbage
  Layers <- MCLayers
  Group <- MCGroup
  PanelCols = 4
  ChunkBytes = 2
INVARIANTS
  ListsComplete
  Combined
  ReadersAgree
  RoundsToNearest
