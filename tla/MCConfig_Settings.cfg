SPECIFICATION Spec
CONSTANTS
    Inputs <- SomeInputs
    Strings <- AnyString
    None = none
    Junk = junk
    Limit = 128
    Second = 4
    Default = 40
INVARIANTS
    TypeOK
    PasswordRemoved
    RunsAsConfigured
    DurationsHonoured
PROPERTIES
    HealthCheckTells
