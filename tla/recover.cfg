SPECIFICATION Spec
CONSTANTS
  t1 = t1
  t2 = t2
  Tasks = {t1, t2}
  Keys <- TwoKeys
  Hashes = {"h", "g"}
  StripeOf <- OwnStripes
  Ops <- AllOps
  Scenarios <- RecoverScenarios
  Fanout = 2
  MaxFile = 6
SYMMETRY TaskSymmetry
INVARIANTS
  LiveKeysRecover
  SealedSurvives
  DurableRecordsSurvive
