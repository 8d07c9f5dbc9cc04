SPECIFICATION GraphSpec
CONSTANTS
    Methods = {1, 2, 3, 4}
    MaxFacts = 3
    PolicyFacts <- MCPolicyFacts
    GraphInputs <- MCGraphInputs
    Families <- MCFamilies
INVARIANTS
    EffectsAreReal
    CompleteTraceHidesNothing
    ImpactIsHonest
    TerminalFactsAgreeWithTheTrace
    GatesAreSound
    GraphsTellTheTrace
    ReachIsCertain
CHECK_DEADLOCK FALSE
