SPECIFICATION FairSpec
CONSTANTS
    w1 = w1  w2 = w2  None = None
    Worktrees = {w1, w2}
    MaxStarts = 2
    MaxCommits = 1
    MaxFaults = 1
INVARIANTS RecordsAgree
PROPERTIES NeverGoesBack EndSettles
CHECK_DEADLOCK FALSE
