CONSTANTS
    Peers = {p1, p2}
    NoToken = NoToken
    MidSpace = 2
    MaxRetransmit = 0
    ResponseTimeout = 1
    SeparateTimeout = 1
    MaxWait = 9
    SharedTokens = {0}
    MaxBlocks = 2
    MaxTrans = 2
    MaxMids = 2
    MaxPackets = 2
    MaxTime = 3
    LastRequest = 1
    LastPacket = 99
    Resize = TRUE
    Punctual = FALSE
SPECIFICATION Spec
SYMMETRY Symmetry
CHECK_DEADLOCK FALSE
INVARIANTS
    TypeOK
    ListedIsLive
    CallbackOnce
    UserDataLive
    CursorValid
    WakeupCovers
PROPERTIES
    ImplementsOutcome
