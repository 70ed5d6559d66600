\* A frame longer than the queue on an idle connection.
SPECIFICATION FairSpec
CONSTANTS
  Sizes = {1, 3}
  Cap = 2
  MaxBody = 3
  KernelCap = 2
  NoticeLen = 2
  MaxSends = 2
PROPERTY
  OnlySlowClientsAreRefused
