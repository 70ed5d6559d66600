SPECIFICATION Spec
CONSTANTS
  Rate = 1
  Burst = 2
  Unit = 1
  MaxKeys = 2
  IdleGc = 2
  Keys = {1, 2, 3}
  Start = 5
  MaxTime = 10
  MaxCalls = 7
  Skew = 1
  Candidates <- MCWords
  TextBytes <- MCBytes
  MaxText = 3
  Base = 2
  MaxFrame = 2
  Chunk = 3
  MaxBody = 3
  MaxSent = 2
  W = 8
  FieldNames <- MCNames
  FieldValues <- MCValues
  CodePoints <- MCPoints
  MaxFields = 2
  BlockSize = 4
  LengthSize = 1
  MessageBytes = {0, 128}
  MaxMessage = 8
  Levels = {0, 1}
  Dirs = {d1, d2}
  NoDir = none
  MaxDay = 2
  MaxLines = 2
  Threads = 2
  LatencyValues = {1, 4}
  MaxSends <- MCSends
  MaxJiffies = 2
INVARIANTS
  LimiterKeepsItsRates
  FilterIsExact
  StreamIsFrames
  TextIsTheFrame
  DigestIsOfTheMessage
  LinesAreInTheirDaysFile
  ReportIsTrue
CHECK_DEADLOCK FALSE
