\* Frames of one to three bytes against a queue of three and a socket buffer
\* of two; four is more than a frame may have.
SPECIFICATION FairSpec
CONSTANTS
  Sizes = {1, 2, 4}
  Cap = 3
  MaxBody = 3
  KernelCap = 2
  NoticeLen = 2
  MaxSends = 3
INVARIANTS
  StreamIsWhole
PROPERTIES
  NeverWritesClosedFd
  QueueIsDrained
