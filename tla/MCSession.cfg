SPECIFICATION FairSpec
CONSTANTS
  Servers = {s1, s2}
  NoServer = NoServer
  Junk = {junk}
  Big = {big}
  MaxSock = 4
  Garbage <- AnyDescriptor
  CaptureSupport = TRUE
  MaxQueue = 3
  MaxRx = 1
  MaxReplies = 2
INVARIANTS TypeOK OneTcpSocket NeverDropsLiveConnection
PROPERTIES ImplementsBoard DropIsNoticed FinIsNoticed ServerIsTried
