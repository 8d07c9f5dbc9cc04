CONSTANTS
    p1 = p1
    p2 = p2
    f1 = f1
    f2 = f2
    Procs = {p1, p2}
    Paths = {f1, f2}
    Absent = Absent
    Torn = Torn
    Plans <- MCPlans
SPECIFICATION FairSpec
CHECK_DEADLOCK FALSE
INVARIANTS
    TypeOK
    WholeFilesOnly
    EarlierFilesFirst
    RefusedCallsPublishNothing
    NoStrayTemps
PROPERTIES
    ImplementsAtomicPublication
    CommitRunsToTheEnd
