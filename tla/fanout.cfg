SPECIFICATION Spec
CONSTANTS
  c1 = c1
  c2 = c2
  c3 = c3
  NShards = 3
  Keys <- FourKeys
  ShardForKey <- ThreeShards
  Conns = {c1, c2, c3}
  Scenarios <- FanOutScenarios
  InboxBound = 1
  CursorByte = 256
CHECK_DEADLOCK FALSE
INVARIANTS
  OkMeansAllServed
  BatchRunsInOrder
  ScanExactlyOnce
  NoCommandStuck
