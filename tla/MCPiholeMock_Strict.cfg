SPECIFICATION Spec
CONSTANTS
    Plans <- SomePlans
    Requests <- SomeRequests
    MaxRequests = 4
    MaxPlan = 3
CHECK_DEADLOCK FALSE
INVARIANTS
    TypeOK
    AfterHolds
    PassMeansFits
    FitsMeansPass
