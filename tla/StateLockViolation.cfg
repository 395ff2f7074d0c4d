SPECIFICATION Spec
CONSTANTS
    p1 = p1
    p2 = p2
    p3 = p3
    Processes = {p1, p2, p3}
    Records = {"r1", "r2"}
    Attributes = {"id"}
    MaxSaves = 1
    MaxCrashes = 1
    MaxStalls = 0
INVARIANTS NoLostUpdate
CHECK_DEADLOCK FALSE
