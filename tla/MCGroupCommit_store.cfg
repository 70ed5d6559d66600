\* COMMIT works; BEGIN, single statements and the read of a new row's id may
\* fail.  Three writers, so that a joiner may still be asleep while two later
\* batches come and go.
SPECIFICATION Spec
CONSTANTS
  NoOne = NoOne
  Writers = {w1, w2, w3}
  Others = {o1}
  KBatchMax = 2
  KBatchNeed = 2
  GenMax = 100
  Faults = {"begin", "stmt", "id"}
  MaxCalls = 2
  MaxCrashes = 0
SYMMETRY Symmetry
INVARIANTS
  TypeOK
  AckIsDurable
PROPERTY
  KeepsStorePromise
