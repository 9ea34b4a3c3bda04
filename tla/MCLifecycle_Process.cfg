SPECIFICATION FairLifecycle
CONSTANTS
    Callers = {main, sdk, p1}
    Main = main
    Reader = sdk
    Nobody = nobody
    Endpoints = 1
    RefreshSkew = 1
    Timeout = 2
    ShutdownTimeout = 1
    MaxStray = 0
    Validity = 3
    MaxSeats = 2
    MaxSid = 2
    MaxNow = 2
INVARIANTS
    LifecycleTypeOK
    ReleasedAtExit
    ShutdownNeverStuck
PROPERTY
    ProcessEnds
CHECK_DEADLOCK FALSE
