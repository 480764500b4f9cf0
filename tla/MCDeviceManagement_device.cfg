SPECIFICATION FairSpec
CONSTANTS
    Bad = Bad
    Out = Out
    None = None
    MidSpan = 2
    Servers = {1, 2}
    Requests <- MCRequests
    Preludes <- MCPreludes
    Changes <- MCChanges
    ServerMids = {0}
    MaxWait = 3
    Horizon = 2
    MaxCalls = 3
INVARIANTS TypeOK EntriesSound NoChangeLost PmaxKept RefusedChangesNothing
PROPERTIES ToldInTime
