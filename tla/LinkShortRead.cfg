\* One message, with recv() free to return a part of a page.
\* Programs end: no deadlock check.
SPECIFICATION ShortReadSpec
CONSTANTS
  Server = server
  Client = client
  P = 2
  Scripts <- MCOneMessage
  Exits <- MCNobody
CHECK_DEADLOCK FALSE
INVARIANTS
  ReceivedIsSent
