SPECIFICATION Spec
CONSTANTS
    Localities <- MCLocalities
    Calls <- MixedCalls
    ThreadSafe = FALSE
INVARIANTS
    TypeOK
    
    CallsInOrder
    AssertionsHold
PROPERTIES
    EventuallyFinished
