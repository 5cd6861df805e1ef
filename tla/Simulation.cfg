SPECIFICATION Spec
CONSTANTS
    NrSamples = 2
    NrTimeSteps = 6
    RateLimit = 3
INVARIANTS
    TypeOK
    SignalledIsFinished
    InFlightBounded
    NothingOutlivesSimulate
PROPERTIES
    EventuallyDone
