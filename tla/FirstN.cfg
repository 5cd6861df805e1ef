SPECIFICATION FirstNSpec
CONSTANTS
    Partitions <- MCPartitions
    NoPartition = NoPartition
    Zones <- TwoZones
    Inputs <- ZonalInputs
    MinValue <- LowestInteger
    MaxNrCells = 4
    Zonal = TRUE
    MaxNrsToVisit = {0, 3, 4}
INVARIANTS
    TypeOK
    FinishIsLast
    MaximaAreExact
    RouteComplete
    CallsAreExpected
    

    
