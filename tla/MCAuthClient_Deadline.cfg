SPECIFICATION Spec
CONSTANTS
    Callers = {c1, c2}
    Nobody = nobody
    Endpoints = 1
    RefreshSkew = 1
    Timeout = 2
    ShutdownTimeout = 2
    MaxStray = 1
    Validity = 3
    MaxSeats = 2
    MaxSid = 2
    MaxNow = 3
INVARIANT
    CallEndsByDeadline
