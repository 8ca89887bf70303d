\* Every arrangement of up to two fields under field operations, defaults of None among them.
CONSTANTS
  Families <- ArrangedFamily
  CellTypes = {"UInt8", "Int8"}
  Magnitudes = {7, 8}
  MaxBatches = 1
SPECIFICATION Spec
INVARIANT NullDefaultsNeedNullable
CHECK_DEADLOCK FALSE
