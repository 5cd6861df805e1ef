SPECIFICATION Spec
CONSTANTS
    NoData = NoData
    Inputs <- MCInputs
INVARIANTS
    TypeOK
    RequestsValid
    ClumpsAreExact
PROPERTIES
    EventuallyDone
