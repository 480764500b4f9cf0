CONSTANTS
    Names = {a}
    NoName = NoName
    a = a
    b = b
    s1 = s1
    s2 = s2
    s3 = s3
    Sessions = {s1}
    Reaches <- Single
    Uris <- ObjectUri
    Payloads <- NoPayload
    Lifetimes = {1}
    DefaultLifetime = 2
    IdSpace = 4
    Blockwise = FALSE
    MaxClients = 1
    MaxRequests = 2
    MaxTime = 0
    LastContact = 9
SPECIFICATION Spec
CHECK_DEADLOCK FALSE
INVARIANTS
    CancelFindsObservation
