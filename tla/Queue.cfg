\* Two threads submit, wait and flush a drained queue, in any order; the queue
\* implements PsipeJobs, and every wait returns.
\* Users may stop calling, and a refused send stops the queue: no deadlock check.
SPECIFICATION FairSpec
CONSTANTS
  t1 = t1
  t2 = t2
  Threads <- MCThreads
  Irq = irq
  None = none
  MaxOps = 3
  Calls <- MCDrainedFlush
CHECK_DEADLOCK FALSE
INVARIANTS
  TypeOK
  SubmissionOrder
  LinkedWhileLive
  OneRunAtATime
  SomebodyDrives
  DmaIntoMappedPages
  CompletedHasRun
  SleepersCanBeWoken
  WaitersCounted
  StartersHoldLiveOps
PROPERTIES
  UnmapOnlyMapped
  ServesJobsInOrder
  WaitReturns
