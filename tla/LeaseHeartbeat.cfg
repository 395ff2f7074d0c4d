SPECIFICATION FairSpec
CONSTANTS
    w1 = w1
    w2 = w2
    Lanes = {w1, w2}
    Files = 3
    Resends = 1
    TTL = 8
    RenewWindow = 4
    Interval = 2
INVARIANTS TypeOK HeldWhilePublishing ReviewBeforeRelease
PROPERTIES WritesOnCheckedLease ClearedForGood NoWriteAfterLoss CommandEnds
CHECK_DEADLOCK FALSE
