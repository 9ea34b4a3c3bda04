SPECIFICATION FairSpec
CONSTANTS
    Callers = {c1, c2}
    Nobody = nobody
    Endpoints = 1
    RefreshSkew = 1
    Timeout = 1
    ShutdownTimeout = 1
    MaxStray = 1
    Validity = 2
    MaxSeats = 2
    MaxSid = 2
    MaxNow = 2
INVARIANTS
    NobodyStuck
PROPERTIES
    CallsRunOut
    EveryCallReturns
    ImplementsSeatLease
