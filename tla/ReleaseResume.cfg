SPECIFICATION Spec
CONSTANTS
    NumSteps = 3
    StagedSteps = {2, 3}
    ReusableSteps = {2}
    MaxCommands = 5
    MaxFaults = 3
    MaxOthers = 2
INVARIANTS TypeOK RootsCoverPlan CompletedIsReleased OneRoot ReviewedBeforeRepeat
PROPERTY LeaseKeptForReview
CHECK_DEADLOCK FALSE
