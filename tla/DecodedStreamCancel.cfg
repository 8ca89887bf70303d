SPECIFICATION Spec
CONSTANTS
  NoLimit = NoLimit
  BatchSizes <- MCBatchSizes
  RowLimits <- MCRowLimits
  ByteLimits <- MCByteLimits
  BatchRows <- MCBatchRows
  Memory <- MCMemory
  UsizeMax <- MCUsizeMax
  MaxSourceRows <- MCMaxSourceRows
INVARIANT
  CancelRaises
