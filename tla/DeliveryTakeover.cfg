CONSTANTS
    e1 = e1  e2 = e2  A = A  B = B  P0 = P0  R1 = R1
    Executors = {e1, e2}
    Packages = {A}
    Rollbacks = {}
    Base = P0
    NumLayers = 3
    DirectLayers = {1}
    Content <- OnePackage
    MaxAttempt = 2
    MaxFaults = 1
SPECIFICATION FairSpec
INVARIANTS TypeOK DoneBacked BindingsBeforeUse
    OnlyCurrentAttemptWrites ReturnedRunSucceeded OneRootPerRun SucceededRunIsLive
PROPERTIES ImplementsPromotion CommandsEnd
