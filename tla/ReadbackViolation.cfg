CONSTANTS
    e1 = e1  e2 = e2  A = A  B = B  P0 = P0  R1 = R1
    Executors = {e1}
    Packages = {A, B}
    Rollbacks = {}
    Base = P0
    NumLayers = 2
    DirectLayers = {}
    Content <- TwoPackages
    MaxAttempt = 2
    MaxFaults = 1
SPECIFICATION Spec
INVARIANT RunReportsOwnRelease
