\* The offline row comes after the ACK.
SPECIFICATION Spec
CONSTANTS
  NumMsgs = 1
  Private = {1}
  MaxAttempts = 2
  MaxEntries = 2
  Faults = {}
  MaxLinks = 1
  MaxSessions = 1
  MaxRetries = 0
  MaxCrashes = 1
INVARIANTS
  AckMeansRouted
