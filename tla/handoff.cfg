SPECIFICATION Spec
CONSTANTS
  c1 = c1
  c2 = c2
  a = a
  b = b
  NShards = 2
  Names = {a, b}
  Clients = {c1, c2}
  Scenarios <- HandoffScenarios
  InboxCap = 1
  MaxConns = 1
CHECK_DEADLOCK FALSE
INVARIANTS
  TypeOK
  AckedWritesSurvive
  NoWriterWithoutLock
  FrozenOnlyWhileClosed
PROPERTIES
  AttemptEnds
  ShutdownCompletes
