\* Every pair of types in one field, and every arrangement of up to two fields under
\* field operations; cells of six of the types.
CONSTANTS
  Families <- AllFamilies
  CellTypes = {"UInt8", "Int8", "Int32", "Float32", "Utf8", "Null"}
  Magnitudes = {7, 8, 25}
  MaxBatches = 2
SPECIFICATION Spec
INVARIANTS
  TypeOK
  SafeCastsExact
  StricterPlansAgree
  OutputConforms
  SafePlansKeepValues
  ConvertsAllOrNothing
  EveryTargetOnce
  NothingIgnored
  ByNameAgreesWithPosition
\* A refused request and a converted one are at their end.
CHECK_DEADLOCK FALSE
