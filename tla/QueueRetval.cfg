\* retval of an op started by its own caller is never written.
\* Users may stop calling, and a refused send stops the queue: no deadlock check.
SPECIFICATION Spec
CONSTANTS
  t1 = t1
  t2 = t2
  Threads <- MCThreads
  Irq = irq
  None = none
  MaxOps = 2
  Calls <- MCIoctls
CHECK_DEADLOCK FALSE
INVARIANTS
  RetvalIsSet
