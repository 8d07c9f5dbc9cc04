SPECIFICATION Spec
CONSTANTS
    MaxNodes = 6
    MaxEdges = 3
    Inputs <- MCInputs
    Identifiers <- MCIdentifiers
    LongTexts <- MCLongTexts
    LongKeys <- MCLongKeys
INVARIANTS
    DocumentsAreValid
    EveryEndpointIsCorrelated
    PathsAreHonest
    ReportsFollowTheirAnalysis
CHECK_DEADLOCK FALSE
