\* A probe that fails on BAR 0 returns 0, and remove follows.
\* A crashed kernel stops: no deadlock check.
SPECIFICATION Spec
CONSTANTS
  MaxOps = 1
CHECK_DEADLOCK FALSE
INVARIANTS
  RemoveFindsItsDevice
