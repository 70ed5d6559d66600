\* A client enters a room while its inbox is on the way.
SPECIFICATION Spec
CONSTANTS
  Rooms = {a}
  Written = {a}
  PageSize = 1
  FrameSize = 1
  MaxTs = 1
  MaxRows = 0
  MaxBig = 0
  MaxRequests = 2
INVARIANTS
  EnteringShowsNewest
