\* Two operations, each on a buffer that starts inside a page.
\* The bound on the operations stops the system.
SPECIFICATION Spec
CONSTANTS
  P = 3
  MaxPages = 3
  Frames <- MCFrames
  Offsets <- MCUnaligned
  Lens <- MCLens
  MaxRuns = 2
CHECK_DEADLOCK FALSE
INVARIANTS
  TypeOK
  AccessesInPlace
  HandleInRange
  EachByteOnce
  LookupSucceeds
