CONSTANT Families <- MCFamilies
SPECIFICATION Spec
CHECK_DEADLOCK FALSE
INVARIANTS
    MatchedAreTheSoleOnes
    EveryEndpointIsAccountedFor
    DiffReproducesTheLaterDocument
    SharedKeysAreNeverResolved
    DiffIsValid
