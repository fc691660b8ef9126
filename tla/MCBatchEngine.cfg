SPECIFICATION Spec
CONSTANTS
  MaxRequests = 4
  PromptLens <- MCPromptLens
  BatchSizes <- MCBatchSizes
  Limits <- MCLimits
INVARIANTS
  SlotsPartition
  QueuesAgree
  OwnTokens
  WorkConserving
PROPERTIES
  CallEnds
  ImplementsContract
