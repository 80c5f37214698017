SPECIFICATION FairSpec
CONSTANTS
    SPB = 2
    Hdr = 1
    Delays <- MCDelays
    MaxBuffers = 4
    MaxCmds = 2
INVARIANTS
    TypeOK
    IsrWritesInBounds
    SendInBounds
    DataOnlyWhenStarted
    BlankingIsPrefix
    PacketIsFresh
PROPERTIES
    CompletedBufferIsPickedUp
