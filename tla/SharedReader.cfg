CONSTANTS
  Readers = {r1, r2}
  NoReader = NoReader
  FileLength = 3
  MaxRequest = 2
SPECIFICATION FairSpec
INVARIANT TypeOK
PROPERTIES ImplementsRangeReads LockIsReleased
\* Readers may stop reading.
CHECK_DEADLOCK FALSE
