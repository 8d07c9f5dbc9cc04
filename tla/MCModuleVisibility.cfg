SPECIFICATION FairSpec
CONSTANTS
    Modules = {1, 2, 3}
    Classes = {"c"}
    Order <- MCOrder
    Families <- MCFamilies
INVARIANTS
    ExportsAreLeastFixpoint
    IncompleteIsJustified
    CompleteIsRightWithoutCycles
PROPERTY ViewIsBuilt
CHECK_DEADLOCK FALSE
