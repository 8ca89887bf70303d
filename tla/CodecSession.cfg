CONSTANTS
  Formats = {"arrow", "parquet", "csv", "jsonl", "avro"}
  MaxBatches = 3
SPECIFICATION Spec
INVARIANTS TypeOK WrittenIsReadable FinishedReadsBack 
\* A session ends when its writer is gone.
CHECK_DEADLOCK FALSE
