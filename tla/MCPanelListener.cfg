CONSTANTS
    Req = {r1, r2}
    r1 = r1
    r2 = r2
    Saver = {s1, s2}
    s1 = s1
    s2 = s2
    Pid = {p1, p2, p3}
    p1 = p1
    p2 = p2
    p3 = p3
    Name = {"proxy", "counter"}
    Stripped <- SomeStripped
    Number <- SomeNumbers
    Corners <- SomeCorners
    InitialStored <- SomeStored
    Submission <- Forms
    MaxSaves = 2
    MaxFailures = 1
    MaxRequests = 3
    MaxBorn = 3
    MaxStrangers = 1
    MaxStuck = 2
    MaxPanelRestarts = 1
    Spent <- SpentBounds
SPECIFICATION PanelSpec
SYMMETRY PanelSymmetry
CHECK_DEADLOCK FALSE
INVARIANTS
    OneListener
