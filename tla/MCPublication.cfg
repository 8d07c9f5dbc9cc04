CONSTANTS
    p1 = p1
    p2 = p2
    t1 = t1
    t2 = t2
    Procs = {p1, p2}
    Traces = {t1, t2}
    Selections = {{}, {t1, t2}}
    Recipes = {{"graph", "openapi"}}
    Kinds = {"scan", "report", "export"}
    Inputs = {"bundle", Absent}
    MaxFaults = 1
    Absent = Absent
    Torn = Torn
SPECIFICATION Spec
SYMMETRY Symmetry
INVARIANTS
    LatestBundleIntact
    ExitsAreHonest
    InputSurvives
CHECK_DEADLOCK FALSE
