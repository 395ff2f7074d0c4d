SPECIFICATION FairSpec
CONSTANTS
    p1 = p1
    p2 = p2
    p3 = p3
    Processes = {p1, p2}
    Records = {"r1", "r2"}
    Attributes = {"id", "hash"}
    MaxSaves = 2
    MaxCrashes = 1
    MaxStalls = 0
INVARIANTS TypeOK NoLostUpdate
PROPERTIES SavesOnlyEdits OverwritesOnlySeen NobodyWaitsForever
CHECK_DEADLOCK FALSE
