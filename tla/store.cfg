SPECIFICATION Spec
CONSTANTS
  t1 = t1
  t2 = t2
  Tasks = {t1, t2}
  Keys <- TwoKeys
  Scenarios <- StoreScenarios
  IncrTries = 2
  MaxVal = 100
  ChannelCap = 2
CHECK_DEADLOCK FALSE
INVARIANTS
  CacheFollowsIndex
  
  RevisionNamesValue
PROPERTIES
  IncrAddsOne
  CommandsReturn
