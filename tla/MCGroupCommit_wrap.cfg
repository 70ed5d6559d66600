\* No failure at all, but the int tx_gen_ wraps (a 2-bit int instead of 32).
SPECIFICATION Spec
CONSTANTS
  NoOne = NoOne
  Writers = {w1, w2}
  Others = {}
  KBatchMax = 2
  KBatchNeed = 2
  GenMax = 1
  Faults = {}
  MaxCalls = 3
  MaxCrashes = 0
INVARIANT
  AckIsDurable
