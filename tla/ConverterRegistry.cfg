CONSTANTS
  Threads = {t1, t2}
  Routes = {r1, r2}
  MaxEntryPoints = 2
  MaxCalls = 2
SPECIFICATION Spec
INVARIANTS TypeOK LoadedServes AllOrNothing MissingIsMissing ClashNeverLoads
\* Threads stop after MaxCalls calls.
CHECK_DEADLOCK FALSE
