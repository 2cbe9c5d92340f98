CONSTANTS
    IDSpace = 8
    NSendBuffers = 2
    NRecBuffers = 2
    AckSize = 1
    replayWindowSize = 8
    inboundQueueSize = 3
    Loads <- Traffic
SPECIFICATION FairSpec
INVARIANTS
    BuffersSuffice
    DrainedMeansReceived
PROPERTIES
    StreamRefined
    TransmittedArrives
CHECK_DEADLOCK FALSE
