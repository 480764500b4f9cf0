SPECIFICATION FairSpec
CONSTANTS
    Absent = Absent
    Bad = Bad
    All = All
    MaxTransmitWait = 1
    ExchangeLifetime = 1
    Attempts = 1
    AttemptDelay = 1
    SequenceDelay = 1
    Blocks = 1
    Overshift = 0
    MaxWait = 1
    Horizon = 3
    Faults = {"unconnected"}
    Scenarios <- MCScenarios
    Commands <- MCCommands
    Lifetimes = {2}
    MaxLife = 3
INVARIANTS TypeOK RegistrationKept PendingIsAwaited AccountsMatch
PROPERTIES GivesUpWithoutBootstrap Settles
CHECK_DEADLOCK FALSE
