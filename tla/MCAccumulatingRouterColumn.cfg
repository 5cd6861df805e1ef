SPECIFICATION Spec
CONSTANTS
    RowExtents <- MCRowExtents
    ColExtents <- MCColExtents
    FlowFields <- MCFlowFields
    ExternalInflows <- MCExternalInflows
    NoData = NoData
INVARIANTS
    InflowCountExact
