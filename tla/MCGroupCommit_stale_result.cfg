\* One COMMIT may fail: does every writer of that batch get -1?
SPECIFICATION Spec
CONSTANTS
  NoOne = NoOne
  Writers = {w1, w2}
  Others = {}
  KBatchMax = 2
  KBatchNeed = 2
  GenMax = 100
  Faults = {"commit"}
  MaxCalls = 3
  MaxCrashes = 0
INVARIANT
  AckIsDurable
