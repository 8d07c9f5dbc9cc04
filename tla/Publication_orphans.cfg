CONSTANTS
    p1 = p1
    p2 = p2
    t1 = t1
    t2 = t2
    Procs = {p1, p2}
    Traces = {t1}
    Selections = {{}, {t1}}
    Recipes = {{}}
    Kinds = {"scan"}
    Inputs = {Absent}
    MaxFaults = 1
    Absent = Absent
    Torn = Torn
SPECIFICATION Spec
CHECK_DEADLOCK FALSE
INVARIANT PublishedTracesStayTracked
