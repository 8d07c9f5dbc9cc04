SPECIFICATION GraphSpec
CONSTANTS
    Methods = {1, 2, 3, 4}
    MaxFacts = 3
    PolicyFacts = {}
    GraphInputs = {}
    Families <- EventFamilies
INVARIANT CompleteTraceHasEveryEffect
CHECK_DEADLOCK FALSE
