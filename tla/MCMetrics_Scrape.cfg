SPECIFICATION Spec
CONSTANTS
    Strings <- SomeStrings
    Order <- SomeOrder
    Numbers <- SomeNumbers
    Json <- SomeJson
    Specs <- SomeSpecs
    Answers <- SomeAnswers
CHECK_DEADLOCK FALSE
INVARIANTS
    TypeOK
    Complete
    ErrorHasCause
    GatherAccepts
    SameSeries
