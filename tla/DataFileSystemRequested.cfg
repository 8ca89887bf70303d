CONSTANTS
  Threads = {t1, t2}
  Paths = {parquet, avro}
  SourcePath = orders
  Provided = {"none", "inline"}
  Requested = {"none", "inline", "empty"}
  MaxVersion = 2
  MaxCalls = 3
SPECIFICATION Spec
INVARIANT OutputAsRequested
\* Threads stop after MaxCalls calls.
CHECK_DEADLOCK FALSE
