SPECIFICATION FairSpec
CONSTANTS
  t1 = t1
  t2 = t2
  Tasks = {t1, t2}
  Keys <- TwoKeys
  Hashes = {"h", "g"}
  StripeOf <- OwnStripes
  Ops <- AllOps
  Scenarios <- GateScenarios
  Fanout = 2
  MaxFile = 6
INVARIANTS
  GateInv
  SameKeyExclusion
PROPERTIES
  WritesReturn
  MaintenanceEnds
