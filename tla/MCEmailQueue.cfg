SPECIFICATION FairSpec
CONSTANTS
  Requests = {r1}
  Offered <- MCOffered
  Servers = {s1, s2}
  NoServer = NoServer
  MaxSize = 2
  Attempts = 2
  MaxSends = 2
  MaxStalls = 1
  Concurrency = 1
  MaxStops = 1
INVARIANTS
  TypeOK
  CompletedWasSent
  SendsAreBounded
  AcknowledgedIsQueued
PROPERTIES
  KeepsMailPromise
  JobsEnd
