CONSTANTS
    holeOpenEnd = 7
    maxPayload = 5
    offsetUnit = 2
    maxBufs = 2
    maxBytes = 6
    reassemblyTimeout = 1
    Gap = 0
    Att = {a1, a2}
    a1 = a1
    a2 = a2
    s1 = s1
    s2 = s2
    x = x
    y = y
    Addr = {x, y}
    Nil = Nil
    Loads <- OnlyDeadlines
    Sock = {s1, s2}
    queueDepth = 2
    Conn = {c1, c2}
    maxHalfOpenPerSession = 1
    maxLiveConnsPerSession = 1
    defaultBacklog = 1
SPECIFICATION Spec
INVARIANTS
    SetIsSafe
CHECK_DEADLOCK FALSE
