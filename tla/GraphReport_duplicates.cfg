SPECIFICATION GraphSpec
CONSTANTS
    Methods = {1, 2, 3, 4}
    MaxFacts = 3
    PolicyFacts = {}
    GraphInputs <- MCGraphInputs
    Families <- GraphFamilies
INVARIANT ReportsAreValid
CHECK_DEADLOCK FALSE
