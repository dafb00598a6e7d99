\* One device, one program with two operations, every failure of probe.
\* A crashed kernel stops: no deadlock check.
SPECIFICATION FairSpec
CONSTANTS
  MaxOps = 2
CHECK_DEADLOCK FALSE
INVARIANTS
  TypeOK
  AllOrNothing
  ReleasesWhatItHolds
  HandlerHasDevice
  OnlyMisuseCrashes
PROPERTIES
  OperationsComplete
