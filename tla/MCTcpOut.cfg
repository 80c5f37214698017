SPECIFICATION Spec
CONSTANTS
  SeqSpace = 64
  BoardISN = 62
  ServerISN = 62
  SndMss = 2
  RcvMss = 2
  SndMax = 4
  RcvMax = 3
  Header = 1
  ReadMax = 2
  NullLength = 9
  NoDelay = TRUE
  Memory = {TRUE, FALSE}
  OutLen = 4
  InLen = 0
  Closes = FALSE
  Windows = {0, 3}
  Resets = {}
  Capacity = 1
INVARIANT NeverStuck AcksAreAcceptable WindowRespected
PROPERTY OutgoingIsStream
CHECK_DEADLOCK FALSE
