\* A message refused once and sent again.
SPECIFICATION Spec
CONSTANTS
  NumMsgs = 1
  Private = {1}
  MaxAttempts = 2
  MaxEntries = 2
  Faults = {"insert"}
  MaxLinks = 1
  MaxSessions = 1
  MaxRetries = 1
  MaxCrashes = 0
INVARIANTS
  AckMeansStored
