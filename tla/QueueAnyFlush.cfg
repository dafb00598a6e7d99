\* Flush at any moment: what still holds of the lists.
\* Users may stop calling, and a refused send stops the queue: no deadlock check.
SPECIFICATION Spec
CONSTANTS
  t1 = t1
  t2 = t2
  Threads <- MCThreads
  Irq = irq
  None = none
  MaxOps = 3
  Calls <- MCAnyFlush
CHECK_DEADLOCK FALSE
SYMMETRY MCSymmetry
INVARIANTS
  SubmissionOrder
  LinkedWhileLive
