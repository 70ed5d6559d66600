\* Two messages, retransmissions, two connections, a full window and a crash.
SPECIFICATION Spec
CONSTANTS
  NumMsgs = 2
  Private = {1}
  MaxAttempts = 1
  MaxEntries = 1
  Faults = {"limit", "insert", "offline"}
  MaxLinks = 2
  MaxSessions = 2
  MaxRetries = 1
  MaxCrashes = 1
INVARIANTS
  StoredOncePerWindow
  SlotMeansRouted
  RowlessAckIsRepeat
  StoredIsRouted
  RetiredWasRelayed
