\* Two rooms, one of them written to, pages of two rows of which one may be too
\* large for a frame next to another, rows in two seconds.
SPECIFICATION Spec
CONSTANTS
  Rooms = {a, b}
  Written = {a}
  PageSize = 2
  FrameSize = 3
  MaxTs = 2
  MaxRows = 3
  MaxBig = 1
  MaxRequests = 3
INVARIANTS
  PagesAreExact
