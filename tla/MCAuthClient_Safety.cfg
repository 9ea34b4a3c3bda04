SPECIFICATION Spec
CONSTANTS
    Callers = {c1, c2}
    Nobody = nobody
    Endpoints = 2
    RefreshSkew = 1
    Timeout = 1
    ShutdownTimeout = 1
    MaxStray = 1
    Validity = 2
    MaxSeats = 2
    MaxSid = 3
    MaxNow = 2
SYMMETRY Symmetry
INVARIANTS
    TypeOK
    SeatsAccountedFor
    OneSeat
    RetryUsesAnotherSession
    CachedSessionIsLive
PROPERTIES
    LiveSessionKept
    SuccessIsTimely
