CONSTANTS
  Schemas = {s1, s2}
  Unknown = Unknown
  NoSchema = NoSchema
  BatchSizes = {1, 2}
  MaxValues = 3
SPECIFICATION FairSpec
INVARIANTS TypeOK RowsOnceInOrder
PROPERTY PushEnds
\* Nothing is left to do once the last value was pushed and flushed.
CHECK_DEADLOCK FALSE
