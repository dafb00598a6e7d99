\* Two devices; one element or three, so that a device may get nothing.
\* The programs end: no deadlock check.
SPECIFICATION Spec
CONSTANTS
  NumDevs = 2
  Sizes = {1, 3}
CHECK_DEADLOCK FALSE
INVARIANTS
  TypeOK
  ProductRight
  ProgramsAgree
  FlushesDrained
  FramesAlive
PROPERTIES
  Finishes
