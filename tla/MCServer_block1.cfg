CONSTANTS
    Names = {a, b}
    NoName = NoName
    a = a
    b = b
    s1 = s1
    s2 = s2
    s3 = s3
    Sessions = {s1, s2, s3}
    Reaches <- Moving
    Uris <- ObjectUri
    Payloads <- NoPayload
    Lifetimes = {1}
    DefaultLifetime = 2
    IdSpace = 2
    Blockwise = TRUE
    MaxClients = 3
    MaxRequests = 1
    MaxTime = 3
    LastContact = 1
SPECIFICATION FairSpec
CHECK_DEADLOCK FALSE
INVARIANTS
    RegistryUnique
    RegistrationHolds
PROPERTIES
    SilentExpires
