SPECIFICATION Spec
CONSTANTS
  SeqSpace = 64
  BoardISN = 62
  ServerISN = 62
  SndMss = 2
  RcvMss = 3
  SndMax = 2
  RcvMax = 4
  Header = 1
  ReadMax = 2
  NullLength = 9
  NoDelay = TRUE
  Memory = {TRUE}
  OutLen = 0
  InLen = 5
  Closes = TRUE
  Windows = {3}
  Resets = {{"RST"}, {"RST", "ACK"}}
  Capacity = 1
INVARIANT TypeOK AcknowledgedIsThere WindowReopens
PROPERTY IncomingIsStream
CHECK_DEADLOCK FALSE
