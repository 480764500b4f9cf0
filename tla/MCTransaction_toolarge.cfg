CONSTANTS
    Peers = {p1}
    NoToken = NoToken
    MidSpace = 2
    MaxRetransmit = 0
    ResponseTimeout = 1
    SeparateTimeout = 1
    MaxWait = 9
    SharedTokens = {}
    MaxBlocks = 2
    MaxTrans = 1
    MaxMids = 1
    MaxPackets = 1
    MaxTime = 3
    LastRequest = 1
    LastPacket = 99
    Resize = TRUE
    Punctual = FALSE
SPECIFICATION Spec
CHECK_DEADLOCK FALSE
INVARIANTS
    TooLargeIsAnAnswer
