CONSTANTS
    e1 = e1  e2 = e2  A = A  B = B  P0 = P0  R1 = R1
    Executors = {e1, e2}
    Packages = {A, B}
    Rollbacks = {R1}
    Base = P0
    NumLayers = 2
    DirectLayers = {}
    Content <- OverlappingPackages
    MaxAttempt = 1
    MaxFaults = 1
SPECIFICATION Spec
SYMMETRY ExecutorSymmetry
INVARIANTS ManifestCoversPlan VerifiedReleaseIsOwn
PROPERTY RollbackRestores
