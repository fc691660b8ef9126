SPECIFICATION MemorySpec
CONSTANTS
  c1 = c1
  c2 = c2
  c3 = c3
  k1 = k1
  k2 = k2
  Client <- MCClient
  Key <- MCKey
  PrefixSizes <- MCPrefixSizes
  RingSizes <- MCRingSizes
  PrefixTotal = 6
  RingTotal = 3
  BlockAlignment = 2
  MaxPoolUsed = 9
  Totals <- MCTotals
  Sizes <- MCSizes
  Alignments <- MCAlignments
  Alignment = 4
  MaxUsed = 13
SYMMETRY Symmetry
INVARIANTS
  Partition
  FullyCoalesced
  BytesAccounted
  CountsHolders
  EntriesOwnBlocks
