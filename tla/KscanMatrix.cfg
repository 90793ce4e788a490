SPECIFICATION FairSpec
CONSTANTS
  CounterMax = 3
  LastRow = 1
  Key <- MCKey
  Mapped <- MCMapped
  QueueSize = 1
  Config0 <- Eager
  ScanMs = 1
INVARIANTS KscanSound NothingElseLost
PROPERTIES Settles
