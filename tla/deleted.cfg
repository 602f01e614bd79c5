SPECIFICATION Spec
CONSTANTS
  t1 = t1
  t2 = t2
  Tasks = {t1}
  Keys <- TwoKeys
  Hashes = {"h", "g"}
  StripeOf <- OwnStripes
  Ops <- AllOps
  Scenarios <- DeletedScenarios
  Fanout = 2
  MaxFile = 6
INVARIANTS
  DeletedKeysStayDeleted
