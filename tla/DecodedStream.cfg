SPECIFICATION FairSpec
CONSTANTS
  NoLimit = NoLimit
  BatchSizes <- MCBatchSizes
  RowLimits <- MCRowLimits
  ByteLimits <- MCByteLimits
  BatchRows <- MCBatchRows
  Memory <- MCMemory
  UsizeMax <- MCUsizeMax
  MaxSourceRows <- MCMaxSourceRows
INVARIANTS
  TypeOK
  RowsInOrder
  NoRowLost
  WithinLimits
  CutsSomeRows
  ExhaustedIsComplete
  CancelBoundsDelivery
PROPERTIES
  ReadsOnDemand
  ImplementsRowStream
  CollectTerminates
