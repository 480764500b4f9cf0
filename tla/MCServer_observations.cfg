CONSTANTS
    Names = {a, b}
    NoName = NoName
    a = a
    b = b
    s1 = s1
    s2 = s2
    s3 = s3
    Sessions = {s1, s2}
    Reaches <- Fixed
    Uris <- BothUris
    Payloads <- AnyPayload
    Lifetimes = {1}
    DefaultLifetime = 2
    IdSpace = 2
    Blockwise = FALSE
    MaxClients = 2
    MaxRequests = 3
    MaxTime = 2
    LastContact = 9
SPECIFICATION Spec
CHECK_DEADLOCK FALSE
INVARIANTS
    TypeOK
    ObsIdsUnique
    OnePerUri
    ObservationIsClients
    MonitorAgrees
PROPERTIES
    DroppedWithOwner
