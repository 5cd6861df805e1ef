SPECIFICATION ClumpSpec
CONSTANTS
    NoData = NoData
    Arrays <- MCSmallArrays
INVARIANTS
    CollectionsServe
    
