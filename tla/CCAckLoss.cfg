CONSTANTS
    IDSpace = 8
    NSendBuffers = 2
    NRecBuffers = 2
    AckSize = 1
    replayWindowSize = 8
    inboundQueueSize = 3
    Loads <- Unclosed
SPECIFICATION DeliveringSpec
PROPERTY LossRecovered
CHECK_DEADLOCK FALSE
