SPECIFICATION Spec
CONSTANTS
    Repositories <- MCRepositories
    Programs = {}
    Wirings = {}
    Sources = {}
    Dialects = {}
    MaxExpressionDepth = 3
    MaxOriginsPerValue = 2
    MaxOriginsPerFrame = 2
    MaxCallFrames = 4
    MaxStatements = 3
    MaxAstNodes = 9
    MaxForwardingHops = 2
    MaxFlowStates = 3
    MaxTargetCandidates = 2
    MaxLockResources = 2
    UrlExpressions <- MCUrlExpressions
    AbsoluteWords = {"http://a", "http://b", "http://z"}
    RelativeWords = {"users"}
    MaxTargetWords = 3
    MaxSubstitutions = 2
    MaxSymbolicDepth = 2
    MaxSymbolicParts = 5
CHECK_DEADLOCK FALSE
INVARIANTS
    FlowsAreHonest
    MatchingIsHonest
    JobsKeepTheirRegions
    EveryQueryIsExplained
    LocksAreHonest
    TablesAreHonest
    CallsAreHonest
    RequestsAreHonest
    GuardsAreHonest
    OutcomeIsHonest
