\* Any two short programs, peers that may exit at any moment.
\* Programs end, and disagreeing ones wait for each other: no deadlock check.
SPECIFICATION FairSpec
CONSTANTS
  Server = server
  Client = client
  P = 2
  Scripts <- MCScripts
  Exits <- MCAnybody
CHECK_DEADLOCK FALSE
INVARIANTS
  TypeOK
  ReceivedIsSent
  SenderHasRoom
  Lockstep
  StreamsInStep
PROPERTIES
  AllTransfersEnd
  ExitEndsRuns
