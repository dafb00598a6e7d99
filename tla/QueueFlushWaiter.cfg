\* A waiter registers between the count check and the kfree of a flush.
\* Users may stop calling, and a refused send stops the queue: no deadlock check.
SPECIFICATION Spec
CONSTANTS
  t1 = t1
  t2 = t2
  Threads <- MCThreads
  Irq = irq
  None = none
  MaxOps = 2
  Calls <- MCAnyFlush
CHECK_DEADLOCK FALSE
PROPERTIES
  FlushSparesWaiters
