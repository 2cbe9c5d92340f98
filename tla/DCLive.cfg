CONSTANTS
    Limits <- LiveLimits
    MaxConn = 1
    MaxPackets = 1
    MaxIDs = 0
    Handler = {h1}
    keyIDMask = 3
    renegSec = 1
    renegMinInterval = 1
    transitionWindow = 1
    reapWindow = 2
    Nil = Nil
    replayWindowSize = 2
    ipInboundQueueSize = 1
SPECIFICATION FairSpec
PROPERTIES
    RenegotiationSettles
    DemotedRetired
    SilenceEndsSession
    TeardownEnds
CHECK_DEADLOCK FALSE
