CONSTANTS
    Peers = {p1}
    NoToken = NoToken
    MidSpace = 3
    MaxRetransmit = 3
    ResponseTimeout = 1
    SeparateTimeout = 1
    MaxWait = 9
    SharedTokens = {}
    MaxBlocks = 2
    MaxTrans = 2
    MaxMids = 2
    MaxPackets = 2
    MaxTime = 19
    LastRequest = 0
    LastPacket = 3
    Resize = TRUE
    Punctual = TRUE
SPECIFICATION FairSpec
CHECK_DEADLOCK FALSE
INVARIANTS
    TransmissionBound
PROPERTIES
    NoEarlyExpiry
    ExponentialBackoff
    Terminates
