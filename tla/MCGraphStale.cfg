SPECIFICATION Spec
CONSTANTS
  Seqs <- MCSeqs
  Totals <- MCTotals
  MaxSlots = 3
  Capacities <- MCCapacities
  Window = 2
INVARIANT NoStaleReplay
