SPECIFICATION Spec
CONSTANTS
    SPB = 2
    Hdr = 1
    Delays <- MCDelays
    MaxBuffers = 4
    MaxCmds = 2
INVARIANT LoopSendsAll
