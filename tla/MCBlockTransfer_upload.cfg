CONSTANTS
    Peers = {p1}
    NoToken = NoToken
    MidSpace = 3
    MaxRetransmit = 1
    ResponseTimeout = 1
    SeparateTimeout = 1
    MaxWait = 9
    SharedTokens = {}
    MaxBlocks = 3
    MaxTrans = 3
    MaxMids = 3
    MaxPackets = 6
    MaxTime = 5
    LastRequest = 0
    LastPacket = 99
    Resize = FALSE
    Punctual = TRUE
    BlockSize = 2
    MaxMessage = 6
    Total = 3
    LastLen = 1
    FirstMids = {0}
    Networks = {TRUE, FALSE}
SPECIFICATION TSpec
CHECK_DEADLOCK FALSE
INVARIANTS
    BufferIsPrefix
    TimelyIsComplete
    FinishedByOwnAck
    SuccessIsReal
