SPECIFICATION OrderlyLifecycle
CONSTANTS
    Callers = {main, sdk, p1}
    Main = main
    Reader = sdk
    Nobody = nobody
    Endpoints = 2
    RefreshSkew = 1
    Timeout = 2
    ShutdownTimeout = 1
    MaxStray = 0
    Validity = 3
    MaxSeats = 2
    MaxSid = 2
    MaxNow = 2
INVARIANT
    SeatFreedAtShutdown
CHECK_DEADLOCK FALSE
