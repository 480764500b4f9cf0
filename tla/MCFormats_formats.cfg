SPECIFICATION Spec
CONSTANTS
    UINT64_MAX = 134217727
    Tlvs <- MCTlvs
    CborItems <- MCCborItems
    TextItems <- MCTextItems
    Paths <- MCPaths
    Clients <- MCClients
    Messages <- MCMessages
    Upload <- MCUpload
    MaxCut = 40
INVARIANTS WrittenFits ReadBack CutIsPrefix
CHECK_DEADLOCK FALSE
