CONSTANTS
    seqMod = 16
    iss = 13
    irs = 13
    sndMSS = 2
    defaultReceiveWindow = 3
    maxInFlightBytes = 2
    maxReorderSegments = 2
    maxRetransmits = 1
    maxPersistProbes = 1
    Loads <- OnlySending
SPECIFICATION Spec
INVARIANT FINRetransmitted
CHECK_DEADLOCK FALSE
