CONSTANTS
    Limits <- SafetyLimits
    MaxConn = 2
    MaxPackets = 2
    MaxIDs = 2
    Handler = {h1}
    keyIDMask = 3
    renegSec = 1
    renegMinInterval = 1
    transitionWindow = 1
    reapWindow = 2
    Nil = Nil
    replayWindowSize = 2
    ipInboundQueueSize = 1
SPECIFICATION Spec
INVARIANTS
    PrimaryUsable
    SlotsReachable
    TornDown
    InboundConserved
    NonceUnique
PROPERTIES
    ExpiredKeyDead
CHECK_DEADLOCK FALSE
