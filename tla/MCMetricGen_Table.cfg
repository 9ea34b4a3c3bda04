SPECIFICATION Spec
CONSTANTS
    Documents <- SomeDocuments
    PiholeDocument <- PiholeName
    Main = "main.yaml"
    Cleaned <- SomeCleaned
    Strings <- SomeStrings
    Order <- SomeOrder
CHECK_DEADLOCK FALSE
INVARIANTS
    TypeOK
    TableIsMeant
    TableIsCompiled
    NamesDistinct
PROPERTIES
    GeneratorProceeds
