CONSTANTS
  Threads = {t1, t2}
  Routes = {r1, r2}
  MaxEntryPoints = 2
  MaxCalls = 2
SPECIFICATION Spec
INVARIANT DuplicateIsReal
\* Threads stop after MaxCalls calls.
CHECK_DEADLOCK FALSE
