SPECIFICATION Spec
CONSTANTS
    Conditions <- MCConditions
    NrIdValues = 8
INVARIANTS
    TypeOK
    IdsAreUnique
PROPERTIES
    EventuallyNumbered
