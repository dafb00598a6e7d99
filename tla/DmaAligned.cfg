\* Two operations, on buffers that start on a page boundary.
\* The bound on the operations stops the system.
SPECIFICATION Spec
CONSTANTS
  P = 3
  MaxPages = 3
  Frames <- MCFrames
  Offsets <- MCAligned
  Lens <- MCLens
  MaxRuns = 2
CHECK_DEADLOCK FALSE
INVARIANTS
  AccessesInPlace
