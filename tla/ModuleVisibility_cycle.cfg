SPECIFICATION FairSpec
CONSTANTS
    Modules = {1, 2, 3}
    Classes = {"c"}
    Order <- MCOrder
    Families <- MCFamilies
INVARIANT CompleteIsRight
CHECK_DEADLOCK FALSE
