\* Every failure SQLite can report, and a crash of the process at any step.
SPECIFICATION FairSpec
CONSTANTS
  NoOne = NoOne
  Writers = {w1, w2}
  Others = {o1}
  KBatchMax = 2
  KBatchNeed = 2
  GenMax = 100
  Faults = {"stmt", "fatal", "commit", "id"}
  MaxCalls = 2
  MaxCrashes = 1
INVARIANTS
  FalseAckIsLate
  NackIsNotDurable
  OpenBatchHasOneStarter
  BatchIsBounded
PROPERTY
  EveryCallReturns
