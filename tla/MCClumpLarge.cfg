SPECIFICATION ClumpSpec
CONSTANTS
    NoData = NoData
    Arrays <- MCLargeArrays
INVARIANTS
    SameClumpSameId
