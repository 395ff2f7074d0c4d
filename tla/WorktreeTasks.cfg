SPECIFICATION Spec
CONSTANTS
    p1 = p1
    p2 = p2
    Processes = {p1, p2}
    Tasks = {"t1", "t2"}
    NoTask = "no task"
    TaskOf <- TwoTasks
    Changes = {"c1", "c2"}
    MaxCommands = 7
    MaxCommits = 1
    MaxCrashes = 1
    MaxStalls = 0
INVARIANTS TypeOK ClaimsHonoured
PROPERTIES CleanupSparesWork
CHECK_DEADLOCK FALSE
