SPECIFICATION FairSpec
CONSTANTS
  MaxLoops = 2
  Chunk = 6
  Capacity = 7
  Keepalive = 1
  RetryAfter = 1
  MaxMsgs = 2
  Greeting = 2
  MaxOwed = 2
  MaxNet = 6
  MaxCuts = 1
INVARIANTS StreamIntact
PROPERTIES ReceivedIsHandled Reconnects
