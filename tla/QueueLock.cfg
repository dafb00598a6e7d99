\* list_del in psipe_ops_wait happens without ops->lock.
\* Users may stop calling, and a refused send stops the queue: no deadlock check.
SPECIFICATION Spec
CONSTANTS
  t1 = t1
  t2 = t2
  Threads <- MCThreads
  Irq = irq
  None = none
  MaxOps = 2
  Calls <- MCIoctls
CHECK_DEADLOCK FALSE
PROPERTIES
  LockExcludes
