CONSTANTS
  Threads = {t1, t2}
  Paths = {parquet, avro}
  SourcePath = orders
  Provided = {"none", "latest"}
  Requested = {"none", "latest"}
  MaxVersion = 2
  MaxCalls = 3
SPECIFICATION Spec
SYMMETRY Symmetry
INVARIANTS TypeOK SizesAreOfWholeFiles SpoolsAreClosed FileIsCurrent InfoAgreesWithOpen ProvenanceOfConversion
\* Threads stop after MaxCalls calls.
CHECK_DEADLOCK FALSE
