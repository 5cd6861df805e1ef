SPECIFICATION Spec
CONSTANTS
    Cells = {c1, c2, c3, c4}
    NoCell = NoCell
    NoData = NoData
    Materials <- MCMaterials
    Functors <- MCFunctors
    BoundFields <- MCBoundFields
    Whole = 2
INVARIANTS
    TypeOK
    CountExact
    UpstreamFirst
    NoDataExact
    MaterialConserved
PROPERTIES
    SolvedIsFinal
CHECK_DEADLOCK FALSE
